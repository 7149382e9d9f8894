------------------------------ MODULE BatchOps ------------------------------
(***************************************************************************)
(* Whole batches as functions: state_transition of token-ledger-state-v2   *)
(* and refine of token-ledger-service-v1, each run from beginning to end   *)
(* in a release build.  StateTransition takes the same transition apart    *)
(* step by step; LedgerServiceV1 and Rollup use it as one step.            *)
(***************************************************************************)
EXTENDS TokenOps, SequencesExt

\* The first loop's effect on staged_transfers.
StageAll(batch) ==
  LET staged[i \in 0..Len(batch)] ==
        IF i = 0 THEN NothingStaged
        ELSE IF batch[i].operation.type = "Transfer"
             THEN Stage(staged[i - 1], batch[i].operation)
             ELSE staged[i - 1]
  IN  staged[Len(batch)]

\* Its effect on the state.
MintAll(s, batch) ==
  LET state[i \in 0..Len(batch)] ==
        IF i = 0 THEN s
        ELSE IF batch[i].operation.type = "Mint"
             THEN ProcessMint(state[i - 1], batch[i].operation)
             ELSE state[i - 1]
  IN  state[Len(batch)]

\* The second loop: the transfers the nonzero sums stand for, in key order.
KeysInOrder(S) ==
  CHOOSE keys \in [1..Cardinality(S) -> S] :
    \A i, j \in DOMAIN keys : i < j => KeyBefore(keys[i], keys[j])

NetTransfers(staged) ==
  LET keys == KeysInOrder({k \in StageKey : staged[k] # 0})
  IN  [i \in DOMAIN keys |-> NetTransfer(keys[i], staged[keys[i]])]

TransferAll(s, transfers) ==
  LET state[i \in 0..Len(transfers)] ==
        IF i = 0 THEN s ELSE ProcessTransfer(state[i - 1], transfers[i])
  IN  state[Len(transfers)]

\* v2's state_transition.
Transition(s, batch) == TransferAll(MintAll(s, batch), NetTransfers(StageAll(batch)))

\* Batch after batch, for the properties.
Transitions(s, batches) ==
  LET state[i \in 0..Len(batches)] ==
        IF i = 0 THEN s ELSE Transition(state[i - 1], batches[i])
  IN  state[Len(batches)]

\* v1's checks in refine.  A signature that does not verify is only logged.
ValidOperation(so) ==
  LET op == so.operation IN
  \/ op.type = "Mint" /\ op.amount # 0
  \/ op.type = "Transfer" /\ op.from \in Keys /\ op.amount # 0 /\ op.from # op.to

\* The operations that pass them, in the order of the batch.
Checked(batch) ==
  LET kept[i \in 0..Len(batch)] ==
        IF i = 0 THEN <<>>
        ELSE IF ValidOperation(batch[i]) THEN Append(kept[i - 1], batch[i]) ELSE kept[i - 1]
  IN  kept[Len(batch)]

\* The mints of a batch, in its order.
MintsOf(batch) ==
  LET mints[i \in 0..Len(batch)] ==
        IF i = 0 THEN <<>>
        ELSE IF batch[i].operation.type = "Mint"
             THEN Append(mints[i - 1], batch[i].operation)
             ELSE mints[i - 1]
  IN  mints[Len(batch)]

\* Faulty: transfers are passed on one by one.
RefineV1Unnetted(batch) ==
  LET valid == Checked(batch) IN [i \in DOMAIN valid |-> valid[i].operation]

\* v1's refine: the operations that fail a check are dropped one by one, mints
\* are passed on as they are, transfers are netted.
RefineV1(batch) ==
  LET valid == Checked(batch) IN MintsOf(valid) \o NetTransfers(StageAll(valid))

=============================================================================
