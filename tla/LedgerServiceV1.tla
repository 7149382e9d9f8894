--------------------------- MODULE LedgerServiceV1 --------------------------
(***************************************************************************)
(* The accumulation of token-ledger-service-v1, one step per host call     *)
(* that writes: set, set_storage and checkpoint.  Balances and the list of *)
(* known tokens live in the service's storage.                             *)
(*                                                                         *)
(* The host (external): a write fails when the storage would grow beyond   *)
(* what the service's deposit pays for, and an invocation may run out of   *)
(* gas at any point; the storage then falls back to the last checkpoint,   *)
(* or to what it was when the invocation began.                            *)
(***************************************************************************)
EXTENDS BatchOps

CONSTANTS Payloads,  \* the lists of signed operations clients send
          MaxItems,  \* bound: work items in one accumulation
          Capacity   \* entries the deposit of the service pays for

ASSUME LedgerServiceV1Assumption ==
  /\ \A p \in Payloads : p \in Seq(SignedOperation)
  /\ MaxItems \in Nat /\ Capacity \in Nat

VARIABLES store,   \* the storage as the running invocation sees it
          saved,   \* the storage a failure falls back to
          start,   \* the storage when the invocation began
          items,   \* the payloads of the work items being accumulated
          ops,     \* their refined operations, in the order of the loops
          next,    \* index of the operation the loops of accumulate are at
          pc,      \* "idle", or the host call the operation is at
          reads    \* from_bal and to_bal (current_bal), read before the writes

vars == <<store, saved, start, items, ops, next, pc, reads>>

\* A storage is a ledger state and the balance entries that exist in it (a
\* balance of 0 may or may not have an entry; it reads the same).
Entry == TokenIds \X Account
Storage == [ledger : LedgerState, entries : SUBSET Entry]
EmptyStorage == [ledger |-> EmptyLedger, entries |-> {}]

NoReads == [from |-> 0, to |-> 0]

Init ==
  /\ store = EmptyStorage
  /\ saved = EmptyStorage
  /\ start = EmptyStorage
  /\ items = <<>>
  /\ ops = <<>>
  /\ next = 1
  /\ pc = "idle"
  /\ reads = NoReads

-----------------------------------------------------------------------------
(* The host. *)

Footprint(s) == Cardinality(s.ledger.known) + Cardinality(s.entries)

\* A write: `new` if the storage may grow to it, the old one otherwise.  The
\* service discards the error: `let _ = set_storage(..)`.
Write(old, new) == IF Footprint(new) <= Capacity THEN new ELSE old

WriteBalance(s, t, a, v) ==
  Write(s, [ledger |-> [s.ledger EXCEPT !.bal[t][a] = v],
            entries |-> s.entries \cup {<<t, a>>}])

WriteKnown(s, t) ==
  Write(s, [s EXCEPT !.ledger.known = @ \cup {t}])

-----------------------------------------------------------------------------
(* accumulate: the loop over the items and, in each, over its operations. *)

OpsLeft == next <= Len(ops)
Current == ops[next]

\* A work item stands for the payload its refinement was given.  One whose
\* refinement failed, whose output does not decode, or that is a transfer of
\* JAM funds, is passed over, like a payload without operations.
Accumulate(its) ==
  /\ pc = "idle"
  /\ ops' = FlattenSeq([i \in DOMAIN its |-> RefineV1(its[i])])
  /\ items' = its
  /\ start' = store
  /\ next' = 1
  /\ pc' = "operation"
  /\ UNCHANGED <<store, saved, reads>>

\* process_mint or process_transfer returns early: no write, no checkpoint.
Refuse ==
  /\ pc = "operation" /\ OpsLeft
  /\ \/ Current.type = "Mint" /\ MintRefused(store.ledger, Current)
     \/ Current.type = "Transfer" /\ TransferRefused(store.ledger, Current)
  /\ next' = next + 1
  /\ UNCHANGED <<store, saved, start, items, ops, pc, reads>>

\* Faulty: a checkpoint after the first write.
MintKnownCheckpoints ==
  /\ pc = "operation" /\ OpsLeft
  /\ Current.type = "Mint" /\ ~MintRefused(store.ledger, Current)
  /\ store' = WriteKnown(store, Current.token_id)
  /\ saved' = store'
  /\ reads' = [NoReads EXCEPT !.to = store.ledger.bal[Current.token_id][Current.to]]
  /\ pc' = "credit"
  /\ UNCHANGED <<start, items, ops, next>>

\* set("known_token_ids", ..), then the read of the balance.
MintKnown ==
  /\ pc = "operation" /\ OpsLeft
  /\ Current.type = "Mint" /\ ~MintRefused(store.ledger, Current)
  /\ store' = WriteKnown(store, Current.token_id)
  /\ reads' = [NoReads EXCEPT !.to = store.ledger.bal[Current.token_id][Current.to]]
  /\ pc' = "credit"
  /\ UNCHANGED <<saved, start, items, ops, next>>

\* Both reads, then the first set_storage.
Debit ==
  /\ pc = "operation" /\ OpsLeft
  /\ Current.type = "Transfer" /\ ~TransferRefused(store.ledger, Current)
  /\ LET b == store.ledger.bal[Current.token_id] IN
       /\ reads' = [from |-> b[Current.from], to |-> b[Current.to]]
       /\ store' = WriteBalance(store, Current.token_id, Current.from,
                                b[Current.from] - Current.amount)
  /\ pc' = "credit"
  /\ UNCHANGED <<saved, start, items, ops, next>>

\* The last set_storage of process_mint and of process_transfer.
Credit ==
  /\ pc = "credit"
  /\ store' = WriteBalance(store, Current.token_id, Current.to,
                           SaturatingAdd(reads.to, Current.amount))
  /\ pc' = "checkpoint"
  /\ UNCHANGED <<saved, start, items, ops, next, reads>>

\* Faulty: no checkpoint after a transfer.
CheckpointMints ==
  /\ pc = "checkpoint"
  /\ saved' = IF Current.type = "Mint" THEN store ELSE saved
  /\ next' = next + 1
  /\ pc' = "operation"
  /\ reads' = NoReads
  /\ UNCHANGED <<store, start, items, ops>>

Checkpoint ==
  /\ pc = "checkpoint"
  /\ saved' = store
  /\ next' = next + 1
  /\ pc' = "operation"
  /\ reads' = NoReads
  /\ UNCHANGED <<store, start, items, ops>>

EndInvocation(result) ==
  /\ store' = result
  /\ saved' = result
  /\ start' = result
  /\ items' = <<>>
  /\ ops' = <<>>
  /\ next' = 1
  /\ pc' = "idle"
  /\ reads' = NoReads

\* accumulate returns: the host keeps everything.
Return == pc = "operation" /\ ~OpsLeft /\ EndInvocation(store)

\* The invocation fails: the host keeps what was checkpointed.
OutOfGas == pc # "idle" /\ EndInvocation(saved)

Next ==
  \/ \E its \in BoundedSeq(Payloads, MaxItems) : Accumulate(its)
  \/ Refuse
  \/ MintKnown
  \/ Debit
  \/ Credit
  \/ Checkpoint
  \/ Return
  \/ OutOfGas

Spec == Init /\ [][Next]_vars

-----------------------------------------------------------------------------
TypeOK ==
  /\ store \in Storage /\ saved \in Storage /\ start \in Storage
  /\ items \in BoundedSeq(Payloads, MaxItems)
  /\ ops \in Seq(Operation)
  /\ next \in 1..(Len(ops) + 1)
  /\ pc \in {"idle", "operation", "credit", "checkpoint"}
  /\ reads \in [from : U64, to : U64]

ProcessOperation(s, op) == IF op.type = "Mint" THEN ProcessMint(s, op) ELSE ProcessTransfer(s, op)

\* The first n operations, carried out whole.
ProcessFirst(s, n, operations) ==
  LET state[i \in 0..n] ==
        IF i = 0 THEN s ELSE ProcessOperation(state[i - 1], operations[i])
  IN  state[n]

\* What a failure falls back to is at every moment the exact effect of the
\* operations finished so far: a mint or a transfer is kept whole or not at
\* all, whichever host call the gas runs out at, and an operation before a
\* kept one is never lost.
CheckpointExact ==
  saved.ledger = ProcessFirst(start.ledger, next - 1, ops)

\* An accumulation that runs to its end leaves what v2's state_transition makes
\* of the same payloads: writing through storage host call by host call, with
\* the balances read before the first write, is the transition of v2.
AgreesWithV2 ==
  pc = "operation" /\ ~OpsLeft =>
    store.ledger = Transitions(start.ledger, [i \in DOMAIN items |-> Checked(items[i])])

\* The persistent storage implements the abstract ledger through failures.
Supply == INSTANCE TokenSupply WITH ledger <- saved.ledger
ImplementsTokenSupply == Supply!Spec

\* "Minting creates balance for a new token from scratch, and assigns it
\* completely to a designated account" (2-Implementation.md:480): a token that
\* the persistent storage knows has somebody who holds it.
KnownTokensAreHeld == \A t \in saved.ledger.known : Total(saved.ledger.bal[t]) > 0

=============================================================================
