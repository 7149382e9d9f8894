--------------------------- MODULE StateTransition --------------------------
(***************************************************************************)
(* transition.rs of token-ledger-state-v2: a batch of signed operations is *)
(* verified as a whole and then carried out on a ledger state, mints as    *)
(* they are met, transfers netted per pair of accounts and applied after   *)
(* the last operation.  One step is one iteration of one of the two loops  *)
(* of state_transition.                                                    *)
(*                                                                         *)
(* This is the transition as refinement runs it.  Batches follow each      *)
(* other, each one starting from the ledger the one before left.  A batch  *)
(* that verify_operations refuses ends the refinement and is no step at    *)
(* all.  A panic ends it without an output, and the ledger is the one that *)
(* accumulation has committed to.  The builder calls the same function but *)
(* does not verify, and what it had reached when it panicked is stored:    *)
(* its runs are those of WitnessedState and BuilderState.                  *)
(***************************************************************************)
EXTENDS BatchOps

CONSTANTS Requests,        \* the signed operations clients send
          MaxOps           \* bound: operations in one batch

ASSUME StateTransitionAssumption ==
  /\ Requests \subseteq SignedOperation
  /\ MaxOps \in Nat

VARIABLES ledger,   \* the ledger between batches
          state,    \* the copy the running transition works on
          batch,    \* the operations of the running transition
          next,     \* index of the next operation of the batch
          staged,   \* staged_transfers
          running,  \* is a transition running?
          checks,   \* is it a debug build's, in which integer overflow panics?
          refused   \* did it skip an operation the state does not allow?

vars == <<ledger, state, batch, next, staged, running, checks, refused>>

Batches == UNION {[1..n -> Requests] : n \in 0..MaxOps}

Init ==
  /\ ledger = EmptyLedger
  /\ state = EmptyLedger
  /\ batch = <<>>
  /\ next = 1
  /\ staged = NothingStaged
  /\ running = FALSE
  /\ checks = FALSE
  /\ refused = FALSE

\* The service may be built with or without overflow checks.
Begin(b) ==
  /\ ~running
  /\ VerifyOperations(b)
  /\ running' = TRUE
  /\ checks' \in BOOLEAN
  /\ batch' = b
  /\ next' = 1
  /\ state' = ledger
  /\ staged' = NothingStaged
  /\ refused' = FALSE
  /\ UNCHANGED ledger

Current == batch[next].operation
OpsLeft == next <= Len(batch)

MintOp ==
  /\ running /\ OpsLeft
  /\ Current.type = "Mint"
  /\ state' = ProcessMint(state, Current)
  /\ refused' = (refused \/ MintRefused(state, Current))
  /\ next' = next + 1
  /\ UNCHANGED <<ledger, batch, staged, running, checks>>

StageOp ==
  /\ running /\ OpsLeft
  /\ Current.type = "Transfer"
  /\ ~(checks /\ StageOverflows(staged, Current))
  /\ staged' = Stage(staged, Current)
  /\ next' = next + 1
  /\ UNCHANGED <<ledger, state, batch, running, checks, refused>>

\* Faulty: a map without an order.
AnyStaged(k) == staged[k] # 0

FirstStaged(k) ==
  /\ staged[k] # 0
  /\ \A l \in StageKey : staged[l] # 0 => l = k \/ KeyBefore(k, l)

ApplyNet(k) ==
  LET op == NetTransfer(k, staged[k]) IN
  /\ running /\ ~OpsLeft
  /\ FirstStaged(k)
  /\ ~(checks /\ NegationOverflows(staged[k]))
  /\ state' = ProcessTransfer(state, op)
  /\ refused' = (refused \/ TransferRefused(state, op))
  /\ staged' = [staged EXCEPT ![k] = 0]
  /\ UNCHANGED <<ledger, batch, next, running, checks>>

Panics ==
  /\ checks
  /\ \/ /\ OpsLeft
        /\ Current.type = "Transfer"
        /\ StageOverflows(staged, Current)
     \/ /\ ~OpsLeft
        /\ \E k \in StageKey : FirstStaged(k) /\ NegationOverflows(staged[k])

\* The locals of state_transition are gone once it has returned or unwound.
Reset ==
  /\ running' = FALSE
  /\ checks' = FALSE
  /\ batch' = <<>>
  /\ next' = 1
  /\ staged' = NothingStaged
  /\ refused' = FALSE

\* The state of the refinement, rebuilt from the witness, is lost with it.
Abort ==
  /\ running
  /\ Panics
  /\ state' = ledger
  /\ UNCHANGED ledger
  /\ Reset

Done == running /\ ~OpsLeft /\ staged = NothingStaged

Finish ==
  /\ Done
  /\ ledger' = state
  /\ UNCHANGED state
  /\ Reset

Next ==
  \/ \E b \in Batches : Begin(b)
  \/ MintOp
  \/ StageOp
  \/ \E k \in StageKey : ApplyNet(k)
  \/ Abort
  \/ Finish

Spec == Init /\ [][Next]_vars

-----------------------------------------------------------------------------
TypeOK ==
  /\ ledger \in LedgerState
  /\ state \in LedgerState
  /\ batch \in Batches
  /\ next \in 1..(Len(batch) + 1)
  /\ staged \in [StageKey -> I64]
  /\ running \in BOOLEAN
  /\ checks \in BOOLEAN
  /\ refused \in BOOLEAN

\* The working copy is, at every step of a transition, a lawful successor of
\* the ledger it started from: no loop iteration creates or destroys tokens,
\* so none of the saturating_add calls ever saturates and no early return
\* leaves one side of a transfer behind.
SupplyKept ==
  /\ ledger.known \subseteq state.known
  /\ \A t \in ledger.known : Total(state.bal[t]) = Total(ledger.bal[t])
  /\ \A t \in TokenIds \ state.known : Total(state.bal[t]) = 0

\* A token that exists only since this batch has exactly the supply of the
\* first mint of it in the batch, and the administrator signed that one:
\* repeated mints, and mints met after transfers were staged, add nothing.
FreshSupplySigned ==
  \A t \in state.known \ ledger.known :
    \E i \in 1..(next - 1) :
      LET op == batch[i].operation IN
      /\ op.type = "Mint" /\ op.token_id = t
      /\ batch[i].signature = Admin
      /\ Total(state.bal[t]) = op.amount
      /\ \A j \in 1..(i - 1) : LET e == batch[j].operation IN
           ~(e.type = "Mint" /\ e.token_id = t)

IsTransfer(so, t) == so.operation.type = "Transfer" /\ so.operation.token_id = t

\* Per operation of the batch: what account a signs away of token t with it,
\* what it receives, and the amount transferred, of any token.
Outgoing(t, a) ==
  [i \in 1..Len(batch) |->
     IF IsTransfer(batch[i], t) /\ batch[i].operation.from = a /\ batch[i].signature = a
     THEN batch[i].operation.amount ELSE 0]
Incoming(t, a) ==
  [i \in 1..Len(batch) |->
     IF IsTransfer(batch[i], t) /\ batch[i].operation.to = a
     THEN batch[i].operation.amount ELSE 0]
Amounts ==
  [i \in 1..Len(batch) |->
     IF batch[i].operation.type = "Transfer" THEN batch[i].operation.amount ELSE 0]

\* The same for the whole batch.
SignedOut(t, a) == SumTo(Outgoing(t, a), Len(batch))
SignedIn(t, a) == SumTo(Incoming(t, a), Len(batch))
Volume == SumTo(Amounts, Len(batch))

\* An account loses no more of a token than it signed away in the batch, at no
\* point of the transition: netting and applying in key order never debit
\* anybody else.  The amounts of the batch must fit an i64 together, which is
\* what the comment at v1/.../refinement.rs:19 assumes.
DebitsSigned ==
  Volume <= I64Max =>
    \A t \in TokenIds, a \in Account :
      ledger.bal[t][a] - state.bal[t][a] <= SignedOut(t, a)

\* The same without the assumption on the amounts: "For transfers, we require
\* the signature of the sending party" (2-Implementation.md:189).
DebitsAlwaysSigned ==
  \A t \in TokenIds, a \in Account :
    ledger.bal[t][a] - state.bal[t][a] <= SignedOut(t, a)

\* When nothing was refused, the netted transfers have the same effect as all
\* the signed ones together, on every balance of a token that existed before.
NettingExact ==
  Done /\ ~refused /\ Volume <= I64Max =>
    \A t \in ledger.known, a \in Account :
      state.bal[t][a] = ledger.bal[t][a] + SignedIn(t, a) - SignedOut(t, a)

\* A transition that reaches its end has computed the function of the ledger and
\* the batch that the other modules take for it in one step: mints in the order
\* of the batch, then the netted transfers in the order of their keys, whatever
\* was refused and wherever sums wrapped.  In a build with overflow checks the
\* transitions that end have the same results as in one without.
TransitionExact == Done => state = Transition(ledger, batch)

\* The ledger between batches implements the abstract ledger: a token is minted
\* once and its supply is fixed from then on, however batches fail.
Supply == INSTANCE TokenSupply
ImplementsTokenSupply == Supply!Spec

=============================================================================
