------------------------ MODULE StateTransitionProofs -----------------------
(***************************************************************************)
(* Theorems about StateTransition, for any number of accounts and tokens,  *)
(* any set of requests, any length of a batch, any width of the integers   *)
(* and both builds.                                                        *)
(***************************************************************************)
EXTENDS StateTransition, OperatorProofs

\* Every mint met so far has made its token known: what makes the mint that
\* creates a token the first one in the batch.
MintsKnown ==
  \A i \in 1..(next - 1) :
    batch[i].operation.type = "Mint" => batch[i].operation.token_id \in state.known

\* No sum is staged between an account and itself: applying one would credit
\* the account without debiting it.
NoSelfStaged == \A k \in StageKey : k[2] = k[3] => staged[k] = 0

Inv ==
  /\ TypeOK
  /\ NoSelfStaged
  /\ Lawful(ledger)
  /\ Lawful(state)
  /\ VerifyOperations(batch)
  /\ MintsKnown
  /\ SupplyKept
  /\ FreshSupplySigned

-----------------------------------------------------------------------------
\* A batch is a sequence of requests.
LEMMA BatchFacts ==
  ASSUME NEW b \in Batches
  PROVE  /\ b \in Seq(Requests)
         /\ Len(b) \in Nat
         /\ DOMAIN b = 1..Len(b)
         /\ \A i \in 1..Len(b) : b[i] \in SignedOperation
<1>1. PICK n \in 0..MaxOps : b \in [1..n -> Requests]
  BY DEF Batches
<1>2. n \in Nat
  BY <1>1, StateTransitionAssumption
<1>3. b \in Seq(Requests) /\ Len(b) = n
  BY <1>1, <1>2
<1> QED
  BY <1>1, <1>2, <1>3, StateTransitionAssumption

\* The batch of a machine at rest.
LEMMA EmptyBatch == <<>> \in Batches /\ VerifyOperations(<<>>)
<1>1. <<>> \in [1..0 -> Requests]
  OBVIOUS
<1>2. 0 \in 0..MaxOps
  BY StateTransitionAssumption
<1> QED
  BY <1>1, <1>2 DEF Batches, VerifyOperations

\* What is known of the operation the loop is at.
LEMMA CurrentFacts ==
  ASSUME TypeOK, VerifyOperations(batch), OpsLeft
  PROVE  /\ next \in 1..Len(batch)
         /\ batch[next] \in SignedOperation
         /\ Current.type \in {"Mint", "Transfer"}
         /\ Current.to \in Account
         /\ Current.token_id \in TokenIds
         /\ Current.amount \in U64 \ {0}
         /\ Current.type = "Mint" => batch[next].signature = Admin
         /\ Current.type = "Transfer" =>
              Current.from \in Account /\ Current.from # Current.to
                /\ batch[next].signature = Current.from
<1>1. batch \in Batches /\ next \in 1..(Len(batch) + 1) /\ next <= Len(batch)
  BY DEF TypeOK, OpsLeft
<1>2. Len(batch) \in Nat /\ DOMAIN batch = 1..Len(batch) /\ \A i \in 1..Len(batch) : batch[i] \in SignedOperation
  BY <1>1, BatchFacts
<1>3. next \in 1..Len(batch)
  BY <1>1, <1>2
<1>4. batch[next] \in SignedOperation /\ VerifyOperation(batch[next])
  BY <1>2, <1>3 DEF VerifyOperations
<1>5. Current \in Operation
  BY <1>4 DEF SignedOperation, Current
<1>6. \/ /\ Current.type = "Mint" /\ Current.amount # 0 /\ batch[next].signature = Admin
      \/ /\ Current.type = "Transfer" /\ Current.amount # 0 /\ Current.from # Current.to
         /\ batch[next].signature = Current.from
  BY <1>4 DEF VerifyOperation, VerifySignature, Current
<1>7. CASE Current \in [type : {"Mint"}, to : Account, token_id : TokenIds, amount : U64]
  BY <1>3, <1>4, <1>6, <1>7
<1>8. CASE Current \in [type : {"Transfer"}, from : Account, to : Account,
                        token_id : TokenIds, amount : U64]
  BY <1>3, <1>4, <1>6, <1>8
<1> QED
  BY <1>5, <1>7, <1>8 DEF Operation

-----------------------------------------------------------------------------
\* The initial state satisfies the inductive invariant.
LEMMA InitInv == Init => Inv
<1> SUFFICES ASSUME Init PROVE Inv
  OBVIOUS
<1> USE DEF Init
<1>1. Lawful(EmptyLedger)
  BY EmptyLawful
<1>2. NothingStaged \in [StageKey -> I64]
  BY Ranges DEF NothingStaged
<1>3. TypeOK
  <2>1. EmptyLedger \in LedgerState
    BY <1>1 DEF Lawful
  <2>2. <<>> \in Batches /\ 1 \in 1..(Len(<<>>) + 1)
    BY EmptyBatch
  <2> QED
    BY <1>2, <2>1, <2>2 DEF TypeOK
<1>4. SupplyKept
  BY <1>1 DEF SupplyKept, Lawful
<1>5. MintsKnown /\ FreshSupplySigned
  BY DEF MintsKnown, FreshSupplySigned
<1>6. NoSelfStaged
  BY DEF NoSelfStaged, NothingStaged
<1> QED
  BY <1>1, <1>3, <1>4, <1>5, <1>6, EmptyBatch DEF Inv

\* A step of the first loop that meets a mint.
LEMMA MintOpInv ==
  ASSUME Inv, MintOp
  PROVE  Inv'
<1> USE DEF Inv, MintOp
<1> DEFINE t0 == Current.token_id
<1>1. /\ next \in 1..Len(batch) /\ Current.to \in Account /\ t0 \in TokenIds
      /\ Current.amount \in U64 \ {0} /\ batch[next].signature = Admin
  BY CurrentFacts
<1>2. Len(batch) \in Nat /\ NoSelfStaged'
  BY BatchFacts DEF TypeOK, NoSelfStaged
<1>3. CASE MintRefused(state, Current)
  <2>1. state' = state /\ t0 \in state.known
    BY <1>3 DEF ProcessMint, MintRefused
  <2>2. TypeOK'
    BY <1>1, <1>2, <2>1 DEF TypeOK
  <2>3. MintsKnown'
    <3>1. \A i \in 1..(next' - 1) : i = next \/ i \in 1..(next - 1)
      BY <1>1
    <3> QED
      BY <2>1, <3>1 DEF MintsKnown, Current
  <2>4. SupplyKept'
    BY <2>1 DEF SupplyKept
  <2>5. FreshSupplySigned'
    <3>1. \A i \in 1..(next - 1) : i \in 1..(next' - 1)
      BY <1>1
    <3> QED
      BY <2>1, <3>1 DEF FreshSupplySigned
  <2> QED
    BY <1>2, <2>1, <2>2, <2>3, <2>4, <2>5 DEF Lawful
<1>4. CASE ~MintRefused(state, Current)
  <2>1. /\ Lawful(state')
        /\ state'.known = state.known \cup {t0}
        /\ Total(state'.bal[t0]) = Current.amount
        /\ \A t \in TokenIds \ {t0} : state'.bal[t] = state.bal[t]
    BY <1>1, <1>4, MintSupply
  <2>2. t0 \notin state.known
    BY <1>4 DEF MintRefused
  <2>3. TypeOK'
    BY <1>1, <1>2, <2>1 DEF TypeOK, Lawful
  <2>4. MintsKnown'
    <3>1. \A i \in 1..(next' - 1) : i = next \/ i \in 1..(next - 1)
      BY <1>1
    <3> QED
      BY <2>1, <3>1 DEF MintsKnown, Current
  <2>5. SupplyKept'
    BY <2>1, <2>2 DEF SupplyKept, TypeOK, LedgerState
  <2>6. FreshSupplySigned'
    <3> SUFFICES ASSUME NEW t \in state'.known \ ledger'.known
                 PROVE  \E i \in 1..(next' - 1) :
                          LET op == batch'[i].operation IN
                          /\ op.type = "Mint" /\ op.token_id = t
                          /\ batch'[i].signature = Admin
                          /\ Total(state'.bal[t]) = op.amount
                          /\ \A j \in 1..(i - 1) : LET e == batch'[j].operation IN
                               ~(e.type = "Mint" /\ e.token_id = t)
      BY DEF FreshSupplySigned
    <3>1. CASE t = t0
      <4>1. next \in 1..(next' - 1)
        BY <1>1
      <4>2. \A j \in 1..(next - 1) : ~(batch[j].operation.type = "Mint" /\ batch[j].operation.token_id = t)
        BY <2>2, <3>1 DEF MintsKnown
      <4> QED
        BY <1>1, <2>1, <3>1, <4>1, <4>2 DEF Current
    <3>2. CASE t # t0
      <4>1. t \in state.known \ ledger.known /\ t \in TokenIds
        BY <2>1, <3>2 DEF TypeOK, LedgerState
      <4>2. PICK i \in 1..(next - 1) :
              LET op == batch[i].operation IN
              /\ op.type = "Mint" /\ op.token_id = t
              /\ batch[i].signature = Admin
              /\ Total(state.bal[t]) = op.amount
              /\ \A j \in 1..(i - 1) : LET e == batch[j].operation IN
                   ~(e.type = "Mint" /\ e.token_id = t)
        BY <4>1 DEF FreshSupplySigned
      <4>3. i \in 1..(next' - 1) /\ state'.bal[t] = state.bal[t]
        BY <1>1, <2>1, <3>2, <4>1
      <4> QED
        BY <4>2, <4>3
    <3> QED
      BY <3>1, <3>2
  <2> QED
    BY <1>2, <2>1, <2>3, <2>4, <2>5, <2>6
<1> QED
  BY <1>3, <1>4

\* A step of the first loop that meets a transfer.
LEMMA StageOpInv ==
  ASSUME Inv, StageOp
  PROVE  Inv'
<1> USE DEF Inv, StageOp
<1>1. /\ next \in 1..Len(batch) /\ Current.from \in Account /\ Current.to \in Account
      /\ Current.from # Current.to /\ Current.token_id \in TokenIds /\ Current.amount \in U64
  BY CurrentFacts
<1>2. Len(batch) \in Nat
  BY BatchFacts DEF TypeOK
<1>3. TypeOK'
  <2>1. staged' \in [StageKey -> I64]
    BY <1>1, StageType DEF TypeOK
  <2> QED
    BY <1>1, <1>2, <2>1 DEF TypeOK
<1>4. MintsKnown'
  <2>1. \A i \in 1..(next' - 1) : i = next \/ i \in 1..(next - 1)
    BY <1>1
  <2> QED
    BY <2>1 DEF MintsKnown, Current
<1>5. SupplyKept'
  BY DEF SupplyKept
<1>6. FreshSupplySigned'
  <2>1. \A i \in 1..(next - 1) : i \in 1..(next' - 1)
    BY <1>1
  <2> QED
    BY <2>1 DEF FreshSupplySigned
<1>7. NoSelfStaged'
  <2>1. /\ CanonicalKey(Current)[2] # CanonicalKey(Current)[3]
        /\ staged \in [StageKey -> I64]
    BY <1>1, StageType DEF TypeOK
  <2>2. \A k \in StageKey : k # CanonicalKey(Current) => staged'[k] = staged[k]
    BY <2>1 DEF Stage
  <2> QED
    BY <2>1, <2>2 DEF NoSelfStaged
<1> QED
  BY <1>3, <1>4, <1>5, <1>6, <1>7 DEF Lawful

\* A step of the second loop.
LEMMA ApplyNetInv ==
  ASSUME Inv, NEW k \in StageKey, ApplyNet(k)
  PROVE  Inv'
<1> USE DEF Inv, ApplyNet
<1> DEFINE op == NetTransfer(k, staged[k])
<1>1. staged[k] \in I64 /\ staged[k] # 0 /\ k[2] # k[3]
  BY DEF TypeOK, FirstStaged, NoSelfStaged
<1>2. /\ op.from \in Account /\ op.to \in Account /\ op.from # op.to
      /\ op.token_id \in TokenIds /\ op.amount \in U64
  BY <1>1, NetTransferFacts
<1>3. Lawful(state') /\ state'.known = state.known
        /\ \A t \in TokenIds : Total(state'.bal[t]) = Total(state.bal[t])
  <2>1. CASE TransferRefused(state, op)
    BY <2>1 DEF ProcessTransfer
  <2>2. CASE ~TransferRefused(state, op)
    <3>1. state' = ProcessTransfer(state, op)
      OBVIOUS
    <3> HIDE DEF op
    <3> QED
      BY <1>2, <2>2, <3>1, TransferSupply
  <2> QED
    BY <2>1, <2>2
<1>4. TypeOK'
  <2>1. staged' \in [StageKey -> I64] /\ refused' \in BOOLEAN
    BY Ranges DEF TypeOK, TransferRefused
  <2> QED
    BY <1>3, <2>1 DEF TypeOK, Lawful
<1>5. MintsKnown'
  BY <1>3 DEF MintsKnown
<1>6. SupplyKept'
  BY <1>3 DEF SupplyKept, TypeOK, LedgerState
<1>7. FreshSupplySigned'
  BY <1>3 DEF FreshSupplySigned, TypeOK, LedgerState
<1>8. NoSelfStaged'
  BY DEF NoSelfStaged, TypeOK
<1> QED
  BY <1>3, <1>4, <1>5, <1>6, <1>7, <1>8 DEF Lawful

\* Where a transition starts, ends or is unwound.
LEMMA BoundaryInv ==
  ASSUME Inv, (\E b \in Batches : Begin(b)) \/ Abort \/ Finish
  PROVE  Inv'
<1> USE DEF Inv
<1>1. NothingStaged \in [StageKey -> I64]
  BY Ranges DEF NothingStaged
<1>2. /\ batch' \in Batches /\ VerifyOperations(batch')
      /\ next' = 1 /\ staged' = NothingStaged
      /\ running' \in BOOLEAN /\ checks' \in BOOLEAN /\ refused' = FALSE
      /\ state' = ledger' /\ (ledger' = ledger \/ ledger' = state)
  BY EmptyBatch DEF Begin, Abort, Finish, Reset
<1>3. Lawful(ledger') /\ Lawful(state')
  BY <1>2
<1>4. TypeOK'
  <2>1. 1 \in 1..(Len(batch') + 1)
    BY <1>2, BatchFacts
  <2> QED
    BY <1>1, <1>2, <1>3, <2>1 DEF TypeOK, Lawful
<1>5. MintsKnown' /\ FreshSupplySigned'
  BY <1>2 DEF MintsKnown, FreshSupplySigned
<1>6. SupplyKept'
  BY <1>2, <1>3 DEF SupplyKept, Lawful
<1>7. NoSelfStaged'
  BY <1>2 DEF NoSelfStaged, NothingStaged
<1> QED
  BY <1>2, <1>3, <1>4, <1>5, <1>6, <1>7

\* The invariant is inductive.
LEMMA NextInv == Inv /\ [Next]_vars => Inv'
<1> SUFFICES ASSUME Inv, [Next]_vars PROVE Inv'
  OBVIOUS
<1>1. CASE (\E b \in Batches : Begin(b)) \/ Abort \/ Finish
  BY <1>1, BoundaryInv
<1>2. CASE MintOp
  BY <1>2, MintOpInv
<1>3. CASE StageOp
  BY <1>3, StageOpInv
<1>4. CASE \E k \in StageKey : ApplyNet(k)
  BY <1>4, ApplyNetInv
<1>5. CASE UNCHANGED vars
  BY <1>5 DEF vars, Inv, TypeOK, NoSelfStaged, Lawful, MintsKnown, SupplyKept, FreshSupplySigned
<1> QED
  BY <1>1, <1>2, <1>3, <1>4, <1>5 DEF Next

\* The inductive invariant holds in every reachable state.
THEOREM Invariance == Spec => []Inv
BY InitInv, NextInv, PTL DEF Spec

\* The variables of the transition keep their types: in particular no balance
\* leaves u64 and no net sum leaves i64.
THEOREM TypeCorrect == Spec => []TypeOK
<1>1. Inv => TypeOK
  BY DEF Inv
<1> QED
  BY <1>1, Invariance, PTL

\* No step of state_transition creates or destroys tokens.
THEOREM SupplyIsKept == Spec => []SupplyKept
<1>1. Inv => SupplyKept
  BY DEF Inv
<1> QED
  BY <1>1, Invariance, PTL

\* The supply of a new token is the amount of the first mint of it in the
\* batch, which the administrator signed.
THEOREM FreshSupplyIsSigned == Spec => []FreshSupplySigned
<1>1. Inv => FreshSupplySigned
  BY DEF Inv
<1> QED
  BY <1>1, Invariance, PTL

-----------------------------------------------------------------------------
\* A token new in the working copy has a positive supply.
LEMMA FreshSupplyPositive ==
  ASSUME Inv, NEW t \in state.known \ ledger.known
  PROVE  Total(state.bal[t]) \in 1..U64Max
<1>1. PICK i \in 1..(next - 1) :
        /\ batch[i].operation.type = "Mint"
        /\ Total(state.bal[t]) = batch[i].operation.amount
  BY DEF Inv, FreshSupplySigned
<1>2. batch \in Batches /\ next \in 1..(Len(batch) + 1)
  BY DEF Inv, TypeOK
<1>3. i \in 1..Len(batch) /\ i \in DOMAIN batch /\ batch[i] \in SignedOperation
  BY <1>2, BatchFacts
<1>4. batch[i].operation \in Operation /\ VerifyOperation(batch[i])
  BY <1>3 DEF Inv, VerifyOperations, SignedOperation
<1>5. batch[i].operation.amount \in U64 /\ batch[i].operation.amount # 0
  BY <1>1, <1>4 DEF Operation, VerifyOperation
<1> QED
  BY <1>1, <1>5, Ranges

\* The ledger between batches implements TokenSupply: whatever a batch does and
\* however it ends, existing supplies are unchanged and new ones positive.
THEOREM Refinement == Spec => ImplementsTokenSupply
<1>1. Init => Supply!Init
  BY DEF Init, Supply!Init, EmptyLedger, Supply!EmptyLedger, Account, Supply!Account
<1>2. ASSUME Inv, [Next]_vars
      PROVE  [Supply!Next]_ledger
  <2>1. CASE Finish
    <3>1. ledger' = state
      BY <2>1 DEF Finish
    <3>2. state \in Supply!LedgerState
      <4>1. Supply!LedgerState = LedgerState
        BY Zenon DEF LedgerState, Supply!LedgerState, Account, Supply!Account,
                     U64, Supply!U64, U64Max, Supply!U64Max
      <4> QED
        BY <1>2, <4>1 DEF Inv, TypeOK
    <3>3. \A b : Supply!Total(b) = Total(b)
      BY DEF Total, Supply!Total, SumTo, Supply!SumTo
    <3>4. Supply!U64Max = U64Max
      BY DEF U64Max, Supply!U64Max
    <3>5. \A t \in state.known \ ledger.known : Total(state.bal[t]) \in 1..U64Max
      BY <1>2, FreshSupplyPositive
    <3>6. Supply!Change(ledger, state)
      BY <1>2, <3>3, <3>4, <3>5 DEF Supply!Change, Inv, SupplyKept
    <3> QED
      BY <3>1, <3>2, <3>6 DEF Supply!Next
  <2>2. CASE ~Finish
    BY <1>2, <2>2 DEF Next, vars, Begin, MintOp, StageOp, ApplyNet, Abort
  <2> QED
    BY <2>1, <2>2
<1> QED
  BY <1>1, <1>2, Invariance, PTL DEF Spec, ImplementsTokenSupply, Supply!Spec

-----------------------------------------------------------------------------
(* The loops, step by step, and the transition as a function.              *)

\* r and q are what the first loop makes of the sums and of the state.
IsStageRun(r, b) ==
  /\ r \in [0..Len(b) -> [StageKey -> I64]]
  /\ r[0] = NothingStaged
  /\ \A i \in 1..Len(b) : r[i] = StageStep(r[i - 1], b[i])
  /\ StageAll(b) = r[Len(b)]
IsMintRun(q, s, b) ==
  /\ q \in [0..Len(b) -> LedgerState]
  /\ q[0] = s
  /\ \A i \in 1..Len(b) : q[i] = MintStep(q[i - 1], b[i])
  /\ MintAll(s, b) = q[Len(b)]

\* keys are the n keys of the nonzero sums in st, in order, and tr is what the
\* second loop makes of s with them.
IsNetRun(keys, tr, n, st, s) ==
  /\ n \in Nat /\ keys \in [1..n -> StageKey]
  /\ \A i, j \in 1..n : i < j => KeyBefore(keys[i], keys[j])
  /\ \A i \in 1..n : st[keys[i]] # 0
  /\ \A k \in StageKey : st[k] # 0 => \E i \in 1..n : keys[i] = k
  /\ tr[0] = s
  /\ \A i \in 1..n : tr[i] = ProcessTransfer(tr[i - 1], NetTransfer(keys[i], st[keys[i]]))
  /\ TransferAll(s, NetTransfers(st)) = tr[n]

\* The second loop has run as far as the j-th key.
Applied(keys, st, j) ==
  \A k \in StageKey : staged[k] = IF \E i \in 1..j : keys[i] = k THEN 0 ELSE st[k]

FirstLoop ==
  \E r, q : IsStageRun(r, batch) /\ IsMintRun(q, ledger, batch)
              /\ staged = r[next - 1] /\ state = q[next - 1]

SecondLoop ==
  \E n, keys, tr : \E j \in 0..n :
    /\ IsNetRun(keys, tr, n, StageAll(batch), MintAll(ledger, batch))
    /\ state = tr[j]
    /\ Applied(keys, StageAll(batch), j)

LoopsInv == running => (OpsLeft => FirstLoop) /\ (~OpsLeft => SecondLoop)

\* The second loop has a run.
LEMMA NetRunExists ==
  ASSUME NEW st \in [StageKey -> I64], NEW s \in LedgerState
  PROVE  \E n, keys, tr : IsNetRun(keys, tr, n, st, s)
<1> DEFINE S == {k \in StageKey : st[k] # 0}
           n == Cardinality(S)
           keys == KeysInOrder(S)
           ops == NetTransfers(st)
<1>1. IsFiniteSet(S) /\ S \in SUBSET StageKey
  BY StageKeyFinite, FS_Subset
<1>2. /\ keys \in [1..n -> S] /\ n \in Nat
      /\ \A i, j \in 1..n : i < j => KeyBefore(keys[i], keys[j])
      /\ \A k \in S : \E i \in 1..n : keys[i] = k
  <2> HIDE DEF S
  <2> QED
    BY <1>1, KeysInOrderFacts, KeysInOrderCover
<1>3. ops = [i \in 1..n |-> NetTransfer(keys[i], st[keys[i]])]
  <2> HIDE DEF n
  <2> QED
    BY <1>2 DEF NetTransfers
<1> HIDE DEF n, keys, ops
<1>4. /\ keys \in [1..n -> StageKey]
      /\ \A i \in 1..n : st[keys[i]] # 0 /\ st[keys[i]] \in I64 /\ keys[i] \in StageKey
      /\ \A k \in StageKey : st[k] # 0 => \E i \in 1..n : keys[i] = k
  BY <1>2
<1> HIDE DEF S
<1>5. DOMAIN ops = 1..n /\ Len(ops) = n /\ \A i \in 1..n : ops[i] = NetTransfer(keys[i], st[keys[i]])
  BY <1>2, <1>3
<1>6. \A i \in 1..n : /\ ops[i].from \in Account /\ ops[i].to \in Account
                      /\ ops[i].token_id \in TokenIds /\ ops[i].amount \in U64
  <2> TAKE i \in 1..n
  <2> QED
    BY <1>4, <1>5, NetTransferFacts
<1>7. PICK tr : IsTransferRun(tr, n, s, ops) /\ TransferAll(s, ops) = tr[n]
  BY <1>2, <1>5, <1>6, TransferAllRun
<1>8. IsNetRun(keys, tr, n, st, s)
  BY <1>2, <1>4, <1>5, <1>7 DEF IsNetRun, IsTransferRun, ops
<1> QED
  BY <1>2, <1>8

\* The first loop ends where the second begins.
LEMMA FirstLoopEnds ==
  ASSUME TypeOK, FirstLoop, ~OpsLeft
  PROVE  SecondLoop
<1>1. next - 1 = Len(batch) /\ Len(batch) \in 0..Len(batch)
  BY BatchFacts DEF TypeOK, OpsLeft
<1>2. PICK r, q : /\ IsStageRun(r, batch) /\ IsMintRun(q, ledger, batch)
                  /\ staged = r[next - 1] /\ state = q[next - 1]
  BY DEF FirstLoop
<1>3. /\ staged = StageAll(batch) /\ staged \in [StageKey -> I64]
      /\ state = MintAll(ledger, batch) /\ state \in LedgerState
  BY <1>1, <1>2 DEF IsStageRun, IsMintRun
<1>4. PICK n, keys, tr : IsNetRun(keys, tr, n, staged, state)
  BY <1>3, NetRunExists
<1>5. state = tr[0] /\ 0 \in 0..n
  BY <1>4 DEF IsNetRun
<1>6. Applied(keys, StageAll(batch), 0)
  BY <1>3 DEF Applied
<1> QED
  BY <1>3, <1>4, <1>5, <1>6 DEF SecondLoop

\* One round of the first loop.
LEMMA FirstLoopRound ==
  ASSUME TypeOK, TypeOK', FirstLoop, OpsLeft, next' = next + 1, batch' = batch, ledger' = ledger,
         staged' = StageStep(staged, batch[next]), state' = MintStep(state, batch[next])
  PROVE  LoopsInv'
<1>1. next \in 1..Len(batch) /\ next' - 1 = next
  BY DEF TypeOK, OpsLeft
<1>2. PICK r, q : /\ IsStageRun(r, batch) /\ IsMintRun(q, ledger, batch)
                  /\ staged = r[next - 1] /\ state = q[next - 1]
  BY DEF FirstLoop
<1>3. staged' = r[next] /\ state' = q[next]
  BY <1>1, <1>2 DEF IsStageRun, IsMintRun
<1>4. FirstLoop'
  BY <1>1, <1>2, <1>3 DEF FirstLoop
<1>5. ~OpsLeft' => SecondLoop'
  BY <1>4, FirstLoopEnds, PTL
<1> QED
  BY <1>4, <1>5 DEF LoopsInv

\* A batch begins.
LEMMA BeginLoops ==
  ASSUME Inv, Inv', NEW b \in Batches, Begin(b)
  PROVE  LoopsInv'
<1>1. b \in Seq(SignedOperation) /\ Len(b) \in Nat
  BY BatchFacts, StateTransitionAssumption
<1>2. /\ batch' = b /\ next' - 1 = 0 /\ ledger' = ledger /\ state' = ledger /\ staged' = NothingStaged
      /\ ledger \in LedgerState
  BY DEF Begin, Inv, TypeOK
<1>3. PICK r : IsStageRun(r, b)
  BY <1>1, StageAllRun DEF IsStageRun
<1>4. PICK q : IsMintRun(q, ledger, b)
  BY <1>1, <1>2, MintAllRun DEF IsMintRun
<1>5. FirstLoop'
  BY <1>2, <1>3, <1>4 DEF FirstLoop, IsStageRun, IsMintRun
<1>6. TypeOK'
  BY DEF Inv
<1>7. ~OpsLeft' => SecondLoop'
  BY <1>5, <1>6, FirstLoopEnds, PTL
<1> QED
  BY <1>5, <1>7 DEF LoopsInv

\* One round of the second loop: the first sum that is left is that of the
\* next key.
LEMMA SecondLoopRound ==
  ASSUME Inv, LoopsInv, NEW k \in StageKey, ApplyNet(k)
  PROVE  LoopsInv'
<1> DEFINE st == StageAll(batch)
<1>0. PICK n, keys, tr : \E j \in 0..n :
        /\ IsNetRun(keys, tr, n, st, MintAll(ledger, batch))
        /\ state = tr[j]
        /\ Applied(keys, st, j)
  BY DEF LoopsInv, SecondLoop, ApplyNet
<1>1. PICK j \in 0..n :
        /\ IsNetRun(keys, tr, n, st, MintAll(ledger, batch))
        /\ state = tr[j]
        /\ Applied(keys, st, j)
  BY <1>0
<1>2. /\ UNCHANGED <<ledger, batch, next>> /\ ~OpsLeft /\ FirstStaged(k)
      /\ state' = ProcessTransfer(state, NetTransfer(k, staged[k]))
      /\ staged' = [staged EXCEPT ![k] = 0] /\ staged \in [StageKey -> I64]
  BY DEF ApplyNet, Inv, TypeOK
<1>3. /\ n \in Nat /\ keys \in [1..n -> StageKey] /\ (\A i, h \in 1..n : i < h => KeyBefore(keys[i], keys[h]))
      /\ (\A i \in 1..n : st[keys[i]] # 0)
      /\ (\A l \in StageKey : st[l] # 0 => \E i \in 1..n : keys[i] = l)
      /\ (\A i \in 1..n : tr[i] = ProcessTransfer(tr[i - 1], NetTransfer(keys[i], st[keys[i]])))
  BY <1>1 DEF IsNetRun
<1> HIDE DEF st
<1>4. /\ staged[k] = st[k] /\ st[k] # 0 /\ ~\E i \in 1..j : keys[i] = k
  BY <1>1, <1>2 DEF Applied, FirstStaged
<1>5. PICK m \in 1..n : keys[m] = k
  BY <1>3, <1>4
<1>6. j + 1 \in 1..n /\ m \notin 1..j /\ j + 1 \in 0..n /\ (j + 1) - 1 = j
  BY <1>3, <1>4, <1>5
<1> DEFINE l == keys[j + 1]
<1>7. l \in StageKey /\ st[l] # 0
  BY <1>3, <1>6
<1>8. \A a, b \in StageKey : KeyBefore(a, b) => ~KeyBefore(b, a) /\ a # b
  <2>1. \A a \in StageKey : a[1] \in Nat /\ a[2] \in Nat /\ a[3] \in Nat
    <3>1. \A a \in StageKey : a[1] \in TokenIds /\ a[2] \in Account /\ a[3] \in Account
      BY DEF StageKey
    <3> QED
      BY <3>1, Ranges
  <2> QED
    BY <2>1 DEF KeyBefore
<1>9. l = k
  <2>1. staged[l] # 0
    <3>1. ~\E i \in 1..j : keys[i] = l
      <4> SUFFICES ASSUME NEW i \in 1..j, keys[i] = l PROVE FALSE
        OBVIOUS
      <4>1. i \in 1..n /\ i < j + 1
        BY <1>3, <1>6
      <4>2. KeyBefore(keys[i], l) /\ keys[i] \in StageKey
        BY <1>3, <1>6, <4>1
      <4> QED
        BY <1>7, <1>8, <4>2
    <3> QED
      BY <1>1, <1>7, <3>1 DEF Applied
  <2>2. l = k \/ KeyBefore(k, l)
    BY <1>2, <1>7, <2>1 DEF FirstStaged
  <2>3. m = j + 1 \/ KeyBefore(l, k)
    <3>1. m = j + 1 \/ j + 1 < m
      BY <1>6
    <3> QED
      BY <1>3, <1>5, <1>6, <3>1
  <2> QED
    BY <1>5, <1>7, <1>8, <2>2, <2>3
<1>10. state' = tr[j + 1]
  BY <1>1, <1>2, <1>3, <1>4, <1>6, <1>9
<1>11. \A x \in StageKey : staged'[x] = IF \E i \in 1..(j + 1) : keys[i] = x THEN 0 ELSE st[x]
  <2> TAKE x \in StageKey
  <2>1. staged[x] = IF \E i \in 1..j : keys[i] = x THEN 0 ELSE st[x]
    BY <1>1 DEF Applied
  <2>2. staged'[x] = IF x = k THEN 0 ELSE staged[x]
    BY <1>2
  <2>3. (\E i \in 1..(j + 1) : keys[i] = x) <=> (x = k \/ \E i \in 1..j : keys[i] = x)
    <3>1. \A i \in Int : i \in 1..(j + 1) <=> (i \in 1..j \/ i = j + 1)
      BY <1>6
    <3>2. \A i \in 1..(j + 1) : i \in Int
      OBVIOUS
    <3> QED
      BY <1>6, <1>9, <3>1, <3>2
  <2> QED
    BY <2>1, <2>2, <2>3
<1>12. SecondLoop'
  <2>1. Applied(keys, st, j + 1)'
    BY <1>2, <1>11 DEF Applied, st
  <2> QED
    BY <1>1, <1>2, <1>6, <1>10, <2>1 DEF SecondLoop, st
<1>13. ~OpsLeft'
  BY <1>2 DEF OpsLeft
<1> QED
  BY <1>12, <1>13 DEF LoopsInv

\* LoopsInv holds throughout.
LEMMA NextLoops == Inv /\ Inv' /\ LoopsInv /\ [Next]_vars => LoopsInv'
<1> SUFFICES ASSUME Inv, Inv', LoopsInv, [Next]_vars PROVE LoopsInv'
  OBVIOUS
<1>1. CASE \E b \in Batches : Begin(b)
  BY <1>1, BeginLoops
<1>2. CASE MintOp
  <2>1. /\ staged' = StageStep(staged, batch[next]) /\ state' = MintStep(state, batch[next])
    BY <1>2 DEF MintOp, Current, StageStep, MintStep
  <2> QED
    BY <1>2, <2>1, FirstLoopRound DEF MintOp, LoopsInv, Inv
<1>3. CASE StageOp
  <2>1. /\ staged' = StageStep(staged, batch[next]) /\ state' = MintStep(state, batch[next])
    BY <1>3 DEF StageOp, Current, StageStep, MintStep
  <2> QED
    BY <1>3, <2>1, FirstLoopRound DEF StageOp, LoopsInv, Inv
<1>4. CASE \E k \in StageKey : ApplyNet(k)
  BY <1>4, SecondLoopRound
<1>5. CASE Abort \/ Finish
  BY <1>5 DEF Abort, Finish, Reset, LoopsInv
<1>6. CASE UNCHANGED vars
  <2>1. FirstLoop => FirstLoop'
    BY <1>6 DEF vars, FirstLoop
  <2>2. /\ staged' = staged /\ state' = state
        /\ StageAll(batch)' = StageAll(batch) /\ MintAll(ledger, batch)' = MintAll(ledger, batch)
    BY <1>6 DEF vars
  <2>3. SecondLoop => SecondLoop'
    BY <2>2 DEF SecondLoop, Applied
  <2> QED
    BY <1>6, <2>1, <2>3 DEF vars, LoopsInv, OpsLeft
<1> QED
  BY <1>1, <1>2, <1>3, <1>4, <1>5, <1>6 DEF Next

\* A transition that ends has applied all keys.
LEMMA FinishIsTransition ==
  ASSUME Inv, LoopsInv, Done
  PROVE  state = Transition(ledger, batch)
<1> DEFINE st == StageAll(batch)
<1>0. PICK n, keys, tr : \E j \in 0..n :
        /\ IsNetRun(keys, tr, n, st, MintAll(ledger, batch))
        /\ state = tr[j]
        /\ Applied(keys, st, j)
  BY DEF LoopsInv, SecondLoop, Done
<1>1. PICK j \in 0..n :
        /\ IsNetRun(keys, tr, n, st, MintAll(ledger, batch))
        /\ state = tr[j]
        /\ Applied(keys, st, j)
  BY <1>0
<1>2. /\ n \in Nat /\ keys \in [1..n -> StageKey] /\ (\A i, h \in 1..n : i < h => KeyBefore(keys[i], keys[h]))
      /\ (\A i \in 1..n : st[keys[i]] # 0)
      /\ TransferAll(MintAll(ledger, batch), NetTransfers(st)) = tr[n]
  BY <1>1 DEF IsNetRun
<1>3. j = n
  <2> HIDE DEF st
  <2> SUFFICES ASSUME j # n PROVE FALSE
    OBVIOUS
  <2>1. n \in 1..n /\ \A i \in 1..j : i \in 1..n /\ i < n
    BY <1>2
  <2>2. keys[n] \in StageKey /\ st[keys[n]] # 0 /\ staged[keys[n]] = 0
    BY <1>2, <2>1 DEF Done, NothingStaged
  <2>3. PICK i \in 1..j : keys[i] = keys[n]
    BY <1>1, <2>2 DEF Applied
  <2>4. KeyBefore(keys[n], keys[n])
    BY <1>2, <2>1, <2>3
  <2>5. keys[n][1] \in Nat /\ keys[n][2] \in Nat /\ keys[n][3] \in Nat
    <3>1. keys[n][1] \in TokenIds /\ keys[n][2] \in Account /\ keys[n][3] \in Account
      BY <2>2 DEF StageKey
    <3> QED
      BY <3>1, Ranges
  <2> QED
    BY <2>4, <2>5 DEF KeyBefore
<1> QED
  BY <1>1, <1>2, <1>3 DEF Transition

\* The loops of state_transition, in either build, make of a batch that they
\* get through what Transition makes of it as a function: what Rollup,
\* BuilderProcess and LedgerServiceV1 rest on when they take a batch in one step.
THEOREM LoopsAreTransition == Spec => []TransitionExact
<1>1. Init => LoopsInv
  BY DEF Init, LoopsInv
<1>2. Inv /\ LoopsInv => TransitionExact
  BY FinishIsTransition DEF TransitionExact
<1> QED
  BY <1>1, <1>2, NextLoops, Invariance, PTL DEF Spec

-----------------------------------------------------------------------------
(* What netting does to the balances: nobody loses more than he signed     *)
(* away, and when nothing is refused everybody ends with what the signed   *)
(* transfers give him.  Both are stated, as in the runs, for batches whose *)
(* amounts fit an i64 together.                                            *)

\* What account a owes account c of token t according to the sums st; negative
\* when c owes it to a.
Owed(st, t, a, c) ==
  IF a < c THEN st[<<t, a, c>>] ELSE IF c < a THEN -st[<<t, c, a>>] ELSE 0

Positive(x) == IF x > 0 THEN x ELSE 0

\* What a still has to pay, to everybody, and the same less what it still gets.
ToPay(st, t, a) == Total([c \in Account |-> Positive(Owed(st, t, a, c))])
NetOwed(st, t, a) == Total([c \in Account |-> Owed(st, t, a, c)])

\* The part of the batch the first loop has seen.
Seen(f) == SumTo(f, next - 1)

\* No sum has wrapped.
SumsExact ==
  \A k \in StageKey : staged[k] <= Seen(Amounts) /\ -staged[k] <= Seen(Amounts)

\* What an account has lost and what it still has to pay are covered by what it
\* has signed away in the operations seen.
DebitsCovered ==
  \A t \in TokenIds, a \in Account :
    ledger.bal[t][a] - state.bal[t][a] + ToPay(staged, t, a) <= Seen(Outgoing(t, a))

\* Up to what is still owed, balances are what the operations seen give.
NetsBalance ==
  ~refused =>
    \A t \in ledger.known, a \in Account :
      state.bal[t][a] =
        ledger.bal[t][a] + NetOwed(staged, t, a) + Seen(Incoming(t, a)) - Seen(Outgoing(t, a))

NettingInv == Volume <= I64Max => SumsExact /\ DebitsCovered /\ NetsBalance

-----------------------------------------------------------------------------
(* Sums. *)

\* A longer prefix of naturals has no smaller sum.
LEMMA PrefixMonotone ==
  ASSUME NEW N \in Nat, NEW f, \A i \in 1..N : f[i] \in Nat, NEW n \in 0..N
  PROVE  SumTo(f, n) <= SumTo(f, N)
<1> DEFINE R(m) == \A i \in 0..m : SumTo(f, i) <= SumTo(f, m)
           T == {m \in 0..N : ~R(m)}
<1> HIDE DEF R
<1>1. SUFFICES ASSUME T # {} PROVE FALSE
  BY DEF R
<1>2. PICK m \in T : \A k \in T : m <= k
  <2>1. T \subseteq Nat
    OBVIOUS
  <2> QED
    BY <1>1, <2>1, LeastNatural
<1>3. \A i \in 0..N : SumTo(f, i) \in Nat
  BY SumToBound
<1>4. CASE m = 0
  BY <1>2, <1>3, <1>4 DEF R
<1>5. CASE m # 0
  <2>1. m - 1 \in 0..N /\ R(m - 1)
    BY <1>2, <1>5
  <2>2. SumTo(f, m) = SumTo(f, m - 1) + f[m]
    <3>1. m \in Nat /\ \A i \in 1..m : f[i] \in Int
      OBVIOUS
    <3> QED
      BY <1>5, <3>1, SumToStep
  <2>3. f[m] \in Nat /\ m \in Nat
    BY <1>5
  <2>4. \A i \in 0..m : i = m \/ i \in 0..(m - 1)
    OBVIOUS
  <2>5. R(m)
    BY <1>3, <2>1, <2>2, <2>3, <2>4 DEF R
  <2> QED
    BY <1>2, <2>5
<1> QED
  BY <1>4, <1>5

\* Writing one of the summands of a total, which need not be balances.
LEMMA TotalOfIntegers ==
  ASSUME NEW b \in [Account -> Int]
  PROVE  /\ Total(b) \in Int
         /\ \A a \in Account, v \in Int : Total([b EXCEPT ![a] = v]) = Total(b) - b[a] + v
<1>1. NumAccounts \in Nat /\ NumAccounts \in 0..NumAccounts
  BY TokenOpsAssumption
<1>2. Total(b) \in Int
  BY <1>1, SumToStep DEF Total, Account
<1>3. ASSUME NEW a \in Account, NEW v \in Int
      PROVE  Total([b EXCEPT ![a] = v]) = Total(b) - b[a] + v
  <2>1. b \in [1..NumAccounts -> Int] /\ a \in 1..NumAccounts
    BY DEF Account
  <2>2. SumTo([b EXCEPT ![a] = v], NumAccounts) =
          IF a <= NumAccounts THEN SumTo(b, NumAccounts) - b[a] + v ELSE SumTo(b, NumAccounts)
    BY <1>1, <2>1, SumToUpdate
  <2> QED
    BY <1>1, <2>1, <2>2 DEF Total
<1> QED
  BY <1>2, <1>3

-----------------------------------------------------------------------------
(* What a change of one staged sum does to what is owed. *)

\* In st2, f owes g of token t0 the amount m more than in st.
OwesMore(st, st2, t0, f, g, m) ==
  \A t \in TokenIds, a \in Account, c \in Account :
    Owed(st2, t, a, c) = Owed(st, t, a, c)
      + (IF t = t0 /\ a = f /\ c = g THEN m ELSE IF t = t0 /\ a = g /\ c = f THEN -m ELSE 0)

\* Debts are integers, and what one owes the other is owed to him.
LEMMA OwedFacts ==
  ASSUME NEW st \in [StageKey -> Int], NEW t \in TokenIds, NEW a \in Account, NEW c \in Account
  PROVE  Owed(st, t, a, c) \in Int /\ Owed(st, t, c, a) = -Owed(st, t, a, c)
<1>1. a \in Nat /\ c \in Nat
  BY Ranges
<1>2. a <= c => <<t, a, c>> \in StageKey
  BY DEF StageKey
<1>3. c <= a => <<t, c, a>> \in StageKey
  BY DEF StageKey
<1>4. (a <= c => st[<<t, a, c>>] \in Int) /\ (c <= a => st[<<t, c, a>>] \in Int)
  BY <1>2, <1>3
<1> QED
  BY <1>1, <1>4 DEF Owed

\* Writing the sum of a pair.
LEMMA WriteSum ==
  ASSUME NEW st \in [StageKey -> Int], NEW t0 \in TokenIds, NEW f \in Account, NEW g \in Account,
         f < g, NEW v \in Int, NEW st2, st2 = [st EXCEPT ![<<t0, f, g>>] = v]
  PROVE  /\ OwesMore(st, st2, t0, f, g, v - st[<<t0, f, g>>])
         /\ OwesMore(st, st2, t0, g, f, st[<<t0, f, g>>] - v)
         /\ Owed(st, t0, f, g) = st[<<t0, f, g>>]
         /\ Owed(st, t0, g, f) = -st[<<t0, f, g>>]
<1> DEFINE k0 == <<t0, f, g>>
<1>1. Account \subseteq Nat
  BY Ranges
<1>2. k0 \in StageKey
  BY <1>1 DEF StageKey
<1>3. Owed(st, t0, f, g) = st[k0] /\ Owed(st, t0, g, f) = -st[k0] /\ st[k0] \in Int
  BY <1>1, <1>2 DEF Owed
<1>4. ASSUME NEW t \in TokenIds, NEW a \in Account, NEW c \in Account
      PROVE  Owed(st2, t, a, c) = Owed(st, t, a, c)
               + (IF t = t0 /\ a = f /\ c = g THEN v - st[k0]
                  ELSE IF t = t0 /\ a = g /\ c = f THEN -(v - st[k0]) ELSE 0)
  <2>1. a \in Nat /\ c \in Nat /\ f \in Nat /\ g \in Nat
    BY <1>1
  <2>2. CASE a < c
    <3>1. <<t, a, c>> \in StageKey
      BY <2>1, <2>2 DEF StageKey
    <3>2. st2[<<t, a, c>>] = IF t = t0 /\ a = f /\ c = g THEN v ELSE st[<<t, a, c>>]
      BY <3>1
    <3>3. st[<<t, a, c>>] \in Int
      BY <3>1
    <3> QED
      BY <1>3, <2>1, <2>2, <3>2, <3>3 DEF Owed
  <2>3. CASE c < a
    <3>1. <<t, c, a>> \in StageKey
      BY <2>1, <2>3 DEF StageKey
    <3>2. st2[<<t, c, a>>] = IF t = t0 /\ c = f /\ a = g THEN v ELSE st[<<t, c, a>>]
      BY <3>1
    <3>3. st[<<t, c, a>>] \in Int
      BY <3>1
    <3> QED
      BY <1>3, <2>1, <2>3, <3>2, <3>3 DEF Owed
  <2>4. CASE a = c
    BY <2>1, <2>4 DEF Owed
  <2> QED
    BY <2>1, <2>2, <2>3, <2>4
<1>5. OwesMore(st, st2, t0, f, g, v - st[k0])
  BY <1>4 DEF OwesMore
<1>6. OwesMore(st, st2, t0, g, f, st[k0] - v)
  <2>1. -(v - st[k0]) = st[k0] - v /\ -(st[k0] - v) = v - st[k0] /\ f # g
    BY <1>1, <1>3
  <2> QED
    BY <1>4, <2>1 DEF OwesMore
<1> QED
  BY <1>3, <1>5, <1>6

\* A debt that grows by m changes the totals of its two parties only.
LEMMA OwesMoreTotals ==
  ASSUME NEW st \in [StageKey -> Int], NEW st2 \in [StageKey -> Int], NEW t0 \in TokenIds,
         NEW f \in Account, NEW g \in Account, f # g, NEW m \in Int,
         OwesMore(st, st2, t0, f, g, m), NEW t \in TokenIds, NEW a \in Account
  PROVE  /\ NetOwed(st, t, a) \in Int
         /\ ToPay(st, t, a) \in Int
         /\ NetOwed(st2, t, a) = NetOwed(st, t, a)
              + (IF t = t0 /\ a = f THEN m ELSE IF t = t0 /\ a = g THEN -m ELSE 0)
         /\ ToPay(st2, t, a) = ToPay(st, t, a)
              + (IF t = t0 /\ a = f
                 THEN Positive(Owed(st, t0, f, g) + m) - Positive(Owed(st, t0, f, g))
                 ELSE IF t = t0 /\ a = g
                 THEN Positive(Owed(st, t0, g, f) - m) - Positive(Owed(st, t0, g, f)) ELSE 0)
<1> DEFINE O(c) == Owed(st, t, a, c)
           O2(c) == Owed(st2, t, a, c)
           net == [c \in Account |-> O(c)]
           net2 == [c \in Account |-> O2(c)]
           pay == [c \in Account |-> Positive(O(c))]
           pay2 == [c \in Account |-> Positive(O2(c))]
<1>1. \A c \in Account : O(c) \in Int /\ O2(c) \in Int
  BY OwedFacts
<1>2. \A c \in Account : O2(c) = O(c)
        + (IF t = t0 /\ a = f /\ c = g THEN m ELSE IF t = t0 /\ a = g /\ c = f THEN -m ELSE 0)
  BY DEF OwesMore
<1> HIDE DEF O, O2
<1>3. \A x \in Int : Positive(x) \in Int
  BY DEF Positive
<1>4. net \in [Account -> Int] /\ pay \in [Account -> Int]
  BY <1>1, <1>3
<1>5. Total(net) \in Int /\ Total(pay) \in Int
  BY <1>4, TotalOfIntegers
<1>6. NetOwed(st, t, a) = Total(net) /\ NetOwed(st2, t, a) = Total(net2)
        /\ ToPay(st, t, a) = Total(pay) /\ ToPay(st2, t, a) = Total(pay2)
  BY DEF NetOwed, ToPay, O, O2
<1>7. CASE t = t0 /\ a = f
  <2>1. net2 = [net EXCEPT ![g] = O(g) + m] /\ pay2 = [pay EXCEPT ![g] = Positive(O(g) + m)]
    <3>1. \A c \in Account : O2(c) = IF c = g THEN O(g) + m ELSE O(c)
      BY <1>1, <1>2, <1>7
    <3> QED
      BY <3>1
  <2>2. O(g) + m \in Int /\ Positive(O(g) + m) \in Int /\ O(g) \in Int /\ Positive(O(g)) \in Int
    BY <1>1, <1>3
  <2>3. Total(net2) = Total(net) - O(g) + (O(g) + m)
    BY <1>4, <2>1, <2>2, TotalOfIntegers
  <2>4. Total(pay2) = Total(pay) - Positive(O(g)) + Positive(O(g) + m)
    BY <1>4, <2>1, <2>2, TotalOfIntegers
  <2>5. O(g) = Owed(st, t0, f, g)
    BY <1>7 DEF O
  <2> HIDE DEF net, pay, net2, pay2
  <2> QED
    BY <1>5, <1>6, <1>7, <2>2, <2>3, <2>4, <2>5
<1>8. CASE t = t0 /\ a = g
  <2>1. net2 = [net EXCEPT ![f] = O(f) - m] /\ pay2 = [pay EXCEPT ![f] = Positive(O(f) - m)]
    <3>1. \A c \in Account : O2(c) = IF c = f THEN O(f) - m ELSE O(c)
      BY <1>1, <1>2, <1>8
    <3> QED
      BY <3>1
  <2>2. O(f) - m \in Int /\ Positive(O(f) - m) \in Int /\ O(f) \in Int /\ Positive(O(f)) \in Int
    BY <1>1, <1>3
  <2>3. Total(net2) = Total(net) - O(f) + (O(f) - m)
    BY <1>4, <2>1, <2>2, TotalOfIntegers
  <2>4. Total(pay2) = Total(pay) - Positive(O(f)) + Positive(O(f) - m)
    BY <1>4, <2>1, <2>2, TotalOfIntegers
  <2>5. O(f) = Owed(st, t0, g, f)
    BY <1>8 DEF O
  <2> HIDE DEF net, pay, net2, pay2
  <2> QED
    BY <1>5, <1>6, <1>8, <2>2, <2>3, <2>4, <2>5
<1>9. CASE ~(t = t0 /\ a = f) /\ ~(t = t0 /\ a = g)
  <2>1. \A c \in Account : O2(c) = O(c)
    BY <1>1, <1>2, <1>9
  <2>2. net2 = net /\ pay2 = pay
    BY <2>1
  <2> HIDE DEF net, pay, net2, pay2
  <2> QED
    BY <1>5, <1>6, <1>9, <2>2
<1> QED
  BY <1>7, <1>8, <1>9

\* The sums staged are integers.
LEMMA StagedInt == Inv => staged \in [StageKey -> Int]
<1>1. I64 \subseteq Int
  BY Ranges
<1> QED
  BY <1>1 DEF Inv, TypeOK

\* What is owed in total is an integer.
LEMMA ToPayInt ==
  ASSUME NEW st \in [StageKey -> Int], NEW t \in TokenIds, NEW a \in Account
  PROVE  ToPay(st, t, a) \in Int /\ NetOwed(st, t, a) \in Int
<1>1. \A c \in Account : Owed(st, t, a, c) \in Int /\ Positive(Owed(st, t, a, c)) \in Int
  BY OwedFacts DEF Positive
<1> QED
  BY <1>1, TotalOfIntegers DEF ToPay, NetOwed

\* What is to be paid is not negative.
LEMMA ToPayNatural ==
  ASSUME NEW st \in [StageKey -> Int], NEW t \in TokenIds, NEW a \in Account
  PROVE  ToPay(st, t, a) \in Nat
<1>1. \A c \in Account : Owed(st, t, a, c) \in Int
  BY OwedFacts
<1>2. \A c \in Account : Positive(Owed(st, t, a, c)) \in Nat
  BY <1>1 DEF Positive
<1>3. NumAccounts \in Nat /\ NumAccounts \in 0..NumAccounts
  BY TokenOpsAssumption
<1> DEFINE pay == [c \in Account |-> Positive(Owed(st, t, a, c))]
<1>4. \A c \in 1..NumAccounts : pay[c] \in Nat
  BY <1>2 DEF Account
<1> HIDE DEF pay
<1>5. SumTo(pay, NumAccounts) \in Nat
  BY <1>3, <1>4, SumToBound
<1> QED
  BY <1>5 DEF ToPay, Total, pay

\* When nothing is staged nobody owes anything.
LEMMA NothingOwed ==
  ASSUME NEW t \in TokenIds, NEW a \in Account
  PROVE  ToPay(NothingStaged, t, a) = 0 /\ NetOwed(NothingStaged, t, a) = 0
<1>1. ASSUME NEW c \in Account
      PROVE  Owed(NothingStaged, t, a, c) = 0 /\ Positive(Owed(NothingStaged, t, a, c)) = 0
  <2>1. a \in Nat /\ c \in Nat
    BY Ranges
  <2>2. (a < c => <<t, a, c>> \in StageKey) /\ (c < a => <<t, c, a>> \in StageKey)
    BY <2>1 DEF StageKey
  <2>3. (a < c => NothingStaged[<<t, a, c>>] = 0) /\ (c < a => NothingStaged[<<t, c, a>>] = 0)
    BY <2>2 DEF NothingStaged
  <2> QED
    BY <2>1, <2>3 DEF Owed, Positive
<1>2. /\ [c \in Account |-> Positive(Owed(NothingStaged, t, a, c))] = [c \in Account |-> 0]
      /\ [c \in Account |-> Owed(NothingStaged, t, a, c)] = [c \in Account |-> 0]
  BY <1>1
<1> QED
  BY <1>2, TotalZero DEF ToPay, NetOwed

-----------------------------------------------------------------------------
(* The sums over the batch. *)

\* The summands are the amounts of verified operations.
LEMMA SummandFacts ==
  ASSUME Inv, NEW t \in TokenIds, NEW a \in Account
  PROVE  /\ Len(batch) \in Nat /\ next \in Nat /\ next - 1 \in 0..Len(batch)
         /\ \A i \in 1..Len(batch) : /\ Amounts[i] \in Nat
                                     /\ Outgoing(t, a)[i] \in Nat
                                     /\ Incoming(t, a)[i] \in Nat
<1>1. batch \in Batches /\ next \in 1..(Len(batch) + 1)
  BY DEF Inv, TypeOK
<1>2. Len(batch) \in Nat /\ \A i \in 1..Len(batch) : batch[i] \in SignedOperation
  BY <1>1, BatchFacts
<1>3. \A i \in 1..Len(batch) : batch[i].operation.amount \in Nat
  BY <1>2, Ranges DEF SignedOperation, Operation
<1> QED
  BY <1>1, <1>2, <1>3 DEF Amounts, Outgoing, Incoming

\* The part seen is no more than the whole.
LEMMA SeenBounds ==
  ASSUME Inv, NEW t \in TokenIds, NEW a \in Account
  PROVE  /\ Seen(Amounts) \in Nat /\ Seen(Outgoing(t, a)) \in Nat /\ Seen(Incoming(t, a)) \in Nat
         /\ Seen(Amounts) <= Volume /\ Seen(Outgoing(t, a)) <= SignedOut(t, a)
         /\ Volume \in Nat /\ SignedOut(t, a) \in Nat
<1>1. /\ Len(batch) \in Nat /\ next - 1 \in 0..Len(batch) /\ Len(batch) \in 0..Len(batch)
      /\ \A i \in 1..Len(batch) : Amounts[i] \in Nat
      /\ \A i \in 1..Len(batch) : Outgoing(t, a)[i] \in Nat
      /\ \A i \in 1..Len(batch) : Incoming(t, a)[i] \in Nat
  BY SummandFacts
<1>2. Seen(Amounts) \in Nat /\ Volume \in Nat
  BY <1>1, SumToBound DEF Seen, Volume
<1>3. Seen(Outgoing(t, a)) \in Nat /\ SignedOut(t, a) \in Nat
  BY <1>1, SumToBound DEF Seen, SignedOut
<1>4. Seen(Incoming(t, a)) \in Nat
  BY <1>1, SumToBound DEF Seen
<1>5. Seen(Amounts) <= Volume
  BY <1>1, PrefixMonotone DEF Seen, Volume
<1>6. Seen(Outgoing(t, a)) <= SignedOut(t, a)
  BY <1>1, PrefixMonotone DEF Seen, SignedOut
<1> QED
  BY <1>2, <1>3, <1>4, <1>5, <1>6

\* One more operation of the batch is seen.
LEMMA SeenStep ==
  ASSUME Inv, OpsLeft, batch' = batch, next' = next + 1,
         NEW t \in TokenIds, NEW a \in Account
  PROVE  /\ Seen(Amounts)' = Seen(Amounts) + Amounts[next]
         /\ Seen(Outgoing(t, a))' = Seen(Outgoing(t, a)) + Outgoing(t, a)[next]
         /\ Seen(Incoming(t, a))' = Seen(Incoming(t, a)) + Incoming(t, a)[next]
         /\ Volume' = Volume
<1>1. /\ next \in 1..Len(batch) /\ next \in Nat /\ next # 0 /\ Len(batch) \in Nat /\ next' - 1 = next
  BY SummandFacts DEF OpsLeft
<1>2. /\ \A i \in 1..next : Amounts[i] \in Int
      /\ \A i \in 1..next : Outgoing(t, a)[i] \in Int
      /\ \A i \in 1..next : Incoming(t, a)[i] \in Int
  BY <1>1, SummandFacts
<1>3. Amounts' = Amounts /\ Outgoing(t, a)' = Outgoing(t, a) /\ Incoming(t, a)' = Incoming(t, a)
  BY DEF Amounts, Outgoing, Incoming
<1>4. Seen(Amounts)' = SumTo(Amounts, next) /\ Seen(Outgoing(t, a))' = SumTo(Outgoing(t, a), next)
        /\ Seen(Incoming(t, a))' = SumTo(Incoming(t, a), next)
  BY <1>1, <1>3 DEF Seen
<1>5. SumTo(Amounts, next) = SumTo(Amounts, next - 1) + Amounts[next]
  BY <1>1, <1>2, SumToStep
<1>6. SumTo(Outgoing(t, a), next) = SumTo(Outgoing(t, a), next - 1) + Outgoing(t, a)[next]
  BY <1>1, <1>2, SumToStep
<1>7. SumTo(Incoming(t, a), next) = SumTo(Incoming(t, a), next - 1) + Incoming(t, a)[next]
  BY <1>1, <1>2, SumToStep
<1> QED
  BY <1>3, <1>4, <1>5, <1>6, <1>7 DEF Seen, Volume

-----------------------------------------------------------------------------
(* The invariant is inductive. *)

\* Where a transition starts, ends or is unwound nothing has been seen.
LEMMA NettingAtRest ==
  ASSUME TypeOK, state = ledger, staged = NothingStaged, next = 1
  PROVE  NettingInv
<1>1. \A f : Seen(f) = 0
  <2> TAKE f
  <2>1. \A i \in 1..0 : f[i] \in Int
    OBVIOUS
  <2>2. SumTo(f, 0) = 0
    BY <2>1, SumToStep
  <2> QED
    BY <2>2 DEF Seen
<1>2. \A k \in StageKey : staged[k] = 0
  BY DEF NothingStaged
<1>3. \A t \in TokenIds, a \in Account :
        /\ ledger.bal[t][a] \in Int
        /\ ToPay(staged, t, a) = 0 /\ NetOwed(staged, t, a) = 0
  BY NothingOwed, Ranges DEF TypeOK, LedgerState
<1>4. ledger.known \subseteq TokenIds
  BY DEF TypeOK, LedgerState
<1>5. SumsExact
  BY <1>1, <1>2 DEF SumsExact
<1>6. DebitsCovered
  BY <1>1, <1>3 DEF DebitsCovered
<1>7. NetsBalance
  BY <1>1, <1>3, <1>4 DEF NetsBalance
<1> QED
  BY <1>5, <1>6, <1>7 DEF NettingInv

\* The initial state.
LEMMA InitNetting == Init => NettingInv
<1> SUFFICES ASSUME Init PROVE NettingInv
  OBVIOUS
<1>1. TypeOK
  BY InitInv DEF Inv
<1> QED
  BY <1>1, NettingAtRest DEF Init

\* The steps at the ends of a transition.
LEMMA BoundaryNetting ==
  ASSUME Inv, (\E b \in Batches : Begin(b)) \/ Abort \/ Finish
  PROVE  NettingInv'
<1>1. TypeOK'
  BY BoundaryInv DEF Inv
<1>2. state' = ledger' /\ staged' = NothingStaged /\ next' = 1
  BY DEF Begin, Abort, Finish, Reset
<1>3. NothingStaged' = NothingStaged
  OBVIOUS
<1>4. TypeOK' /\ (state = ledger)' /\ (staged = NothingStaged)' /\ (next = 1)' => NettingInv'
  BY NettingAtRest, PTL
<1> QED
  BY <1>1, <1>2, <1>3, <1>4

\* A mint moves nothing that an account held before, and stages nothing.
LEMMA MintOpNetting ==
  ASSUME Inv, NettingInv, MintOp
  PROVE  NettingInv'
<1> USE DEF MintOp
<1> SUFFICES ASSUME Volume' <= I64Max
             PROVE  SumsExact' /\ DebitsCovered' /\ NetsBalance'
  BY DEF NettingInv
<1>1. /\ next \in 1..Len(batch) /\ Current.to \in Account /\ Current.token_id \in TokenIds
      /\ Current.amount \in U64
  BY CurrentFacts DEF Inv
<1>2. Amounts[next] = 0
  BY <1>1 DEF Amounts, Current
<1>3. \A t \in TokenIds, a \in Account : Outgoing(t, a)[next] = 0 /\ Incoming(t, a)[next] = 0
  BY <1>1 DEF Outgoing, Incoming, IsTransfer, Current
<1>4. ASSUME NEW t \in TokenIds, NEW a \in Account
      PROVE  /\ Seen(Amounts)' = Seen(Amounts)
             /\ Seen(Outgoing(t, a))' = Seen(Outgoing(t, a))
             /\ Seen(Incoming(t, a))' = Seen(Incoming(t, a))
             /\ Volume' = Volume
  BY <1>2, <1>3, SeenStep, SeenBounds
<1>5. Volume' = Volume /\ Seen(Amounts)' = Seen(Amounts)
  BY <1>1, <1>4
<1>6. SumsExact /\ DebitsCovered /\ NetsBalance
  BY <1>5 DEF NettingInv
<1>7. SumsExact'
  BY <1>5, <1>6 DEF SumsExact
<1>8. /\ ledger.bal \in [TokenIds -> [Account -> U64]] /\ ledger.known \subseteq TokenIds
      /\ state.bal \in [TokenIds -> [Account -> U64]]
  BY DEF Inv, TypeOK, LedgerState
<1>9. CASE MintRefused(state, Current)
  <2>1. state' = state /\ refused'
    BY <1>9 DEF ProcessMint
  <2>2. DebitsCovered'
    BY <1>4, <1>6, <2>1 DEF DebitsCovered
  <2>3. NetsBalance'
    BY <2>1 DEF NetsBalance
  <2> QED
    BY <1>7, <2>2, <2>3
<1>10. CASE ~MintRefused(state, Current)
  <2> DEFINE t0 == Current.token_id
  <2>1. Lawful(state') /\ \A t \in TokenIds \ {t0} : state'.bal[t] = state.bal[t]
    BY <1>1, <1>10, MintSupply DEF Inv
  <2>2. t0 \notin state.known /\ t0 \notin ledger.known
    BY <1>10 DEF MintRefused, Inv, SupplyKept
  <2>3. \A a \in Account : state.bal[t0][a] <= state'.bal[t0][a]
    <3> TAKE a \in Account
    <3>1. state.bal[t0] \in [Account -> U64] /\ Total(state.bal[t0]) = 0
      BY <1>1, <1>8, <2>2 DEF Inv, Lawful
    <3>2. state.bal[t0][a] <= 0
      BY <3>1, TotalBounds
    <3>3. state'.bal[t0][a] \in U64 /\ state.bal[t0][a] \in U64
      BY <1>1, <1>8, <2>1 DEF Lawful, LedgerState
    <3> QED
      BY <3>2, <3>3, Ranges
  <2>4. DebitsCovered'
    <3> SUFFICES ASSUME NEW t \in TokenIds, NEW a \in Account
                 PROVE  ledger.bal[t][a] - state'.bal[t][a] + ToPay(staged, t, a)
                          <= Seen(Outgoing(t, a))
      BY <1>4 DEF DebitsCovered
    <3>1. ledger.bal[t][a] - state.bal[t][a] + ToPay(staged, t, a) <= Seen(Outgoing(t, a))
      BY <1>6 DEF DebitsCovered
    <3>2. state.bal[t][a] <= state'.bal[t][a]
      <4>1. state.bal[t][a] \in U64
        BY <1>8
      <4> QED
        BY <2>1, <2>3, <4>1, Ranges
    <3>3. /\ ledger.bal[t][a] \in Int /\ state.bal[t][a] \in Int /\ state'.bal[t][a] \in Int
          /\ Seen(Outgoing(t, a)) \in Int /\ ToPay(staged, t, a) \in Int
      <4>1. ledger.bal[t][a] \in U64 /\ state.bal[t][a] \in U64 /\ state'.bal[t][a] \in U64
        BY <1>8, <2>1 DEF Lawful, LedgerState
      <4>2. ToPay(staged, t, a) \in Int
        BY StagedInt, ToPayInt
      <4> QED
        BY <4>1, <4>2, Ranges, SeenBounds
    <3> QED
      BY <3>1, <3>2, <3>3
  <2>5. NetsBalance'
    BY <1>4, <1>6, <1>8, <2>1, <2>2 DEF NetsBalance
  <2> QED
    BY <1>7, <2>4, <2>5
<1> QED
  BY <1>9, <1>10

\* A staged transfer makes its sender owe the amount to the receiver: the cast
\* of the amount and the two additions of the loop do not wrap.
LEMMA StageOwes ==
  ASSUME Inv, OpsLeft, Current.type = "Transfer", Volume <= I64Max, SumsExact
  PROVE  /\ Stage(staged, Current) \in [StageKey -> Int]
         /\ OwesMore(staged, Stage(staged, Current), Current.token_id,
                     Current.from, Current.to, Current.amount)
         /\ \A k \in StageKey :
              /\ Stage(staged, Current)[k] <= Seen(Amounts) + Current.amount
              /\ -Stage(staged, Current)[k] <= Seen(Amounts) + Current.amount
<1> DEFINE op == Current
           m == op.amount
           k0 == CanonicalKey(op)
           x == staged[k0]
<1>1. /\ next \in 1..Len(batch) /\ op.from \in Account /\ op.to \in Account
      /\ op.from # op.to /\ op.token_id \in TokenIds /\ m \in U64 \ {0}
  BY CurrentFacts DEF Inv
<1>2. staged \in [StageKey -> Int] /\ staged \in [StageKey -> I64]
  BY StagedInt DEF Inv, TypeOK
<1>3. k0 \in StageKey /\ x \in Int
  BY <1>1, <1>2, StageType
<1>4. Seen(Amounts) \in Nat /\ Seen(Amounts) + m <= I64Max
  <2>1. Len(batch) \in Nat /\ next - 1 \in 0..Len(batch) /\ \A i \in 1..Len(batch) : Amounts[i] \in Nat
    BY <1>1, SummandFacts
  <2>2. next \in 0..Len(batch) /\ next \in Nat /\ next # 0 /\ \A i \in 1..next : Amounts[i] \in Int
    BY <1>1, <2>1
  <2>3. SumTo(Amounts, next) = SumTo(Amounts, next - 1) + Amounts[next]
    BY <2>2, SumToStep
  <2>4. SumTo(Amounts, next) <= Volume
    BY <2>1, <2>2, PrefixMonotone DEF Volume
  <2>5. Amounts[next] = m
    BY <1>1 DEF Amounts, Current
  <2>6. Seen(Amounts) \in Nat /\ Volume \in Nat
    BY <1>1, SeenBounds
  <2>7. Seen(Amounts) + m <= Volume
    BY <2>3, <2>4, <2>5 DEF Seen
  <2> QED
    BY <1>1, <2>6, <2>7, Ranges
<1>5. x <= Seen(Amounts) /\ -x <= Seen(Amounts)
  BY <1>3 DEF SumsExact
<1>6. m \in Nat /\ I64Max \in Nat
  BY <1>1, Ranges
<1> HIDE DEF m, x, k0
<1>7. WrapI64(StagedSum(staged, op)) = IF op.from < op.to THEN x + m ELSE x - m
  <2>1. AsI64(m) = m
    BY <1>4, <1>6 DEF AsI64
  <2>2. WrapI64(m) = m /\ WrapI64(-m) = -m
    BY <1>4, <1>6, Ranges DEF WrapI64
  <2>3. WrapI64(x + m) = x + m /\ WrapI64(x + (-m)) = x - m
    BY <1>3, <1>4, <1>5, <1>6, Ranges DEF WrapI64
  <2> QED
    BY <2>1, <2>2, <2>3 DEF StagedSum, CanonicalAmount, x, k0, m
<1> DEFINE v == WrapI64(StagedSum(staged, op))
<1>8. Stage(staged, op) = [staged EXCEPT ![k0] = v]
  BY DEF Stage, k0
<1>9. v \in Int
  BY <1>3, <1>6, <1>7
<1> HIDE DEF v
<1>10. Stage(staged, op) \in [StageKey -> Int]
  BY <1>2, <1>8, <1>9
<1>11. \A k \in StageKey : Stage(staged, op)[k] <= Seen(Amounts) + m
                             /\ -Stage(staged, op)[k] <= Seen(Amounts) + m
  <2> TAKE k \in StageKey
  <2>1. staged[k] <= Seen(Amounts) /\ -staged[k] <= Seen(Amounts) /\ staged[k] \in Int
    BY <1>2 DEF SumsExact
  <2>2. v <= Seen(Amounts) + m /\ -v <= Seen(Amounts) + m
    BY <1>3, <1>4, <1>5, <1>6, <1>7 DEF v
  <2>3. Stage(staged, op)[k] = IF k = k0 THEN v ELSE staged[k]
    BY <1>2, <1>8
  <2> QED
    BY <1>4, <1>6, <2>1, <2>2, <2>3
<1>12. op.from \in Nat /\ op.to \in Nat
  BY <1>1, Ranges
<1>13. CASE op.from < op.to
  <2>1. k0 = <<op.token_id, op.from, op.to>>
    BY <1>13 DEF k0, CanonicalKey
  <2>2. OwesMore(staged, Stage(staged, op), op.token_id, op.from, op.to, v - x)
    BY <1>1, <1>2, <1>8, <1>9, <1>13, <2>1, WriteSum DEF x
  <2>3. v - x = m
    BY <1>3, <1>6, <1>7, <1>13 DEF v
  <2> QED
    BY <1>10, <1>11, <2>2, <2>3 DEF m
<1>14. CASE op.to < op.from
  <2>1. k0 = <<op.token_id, op.to, op.from>>
    BY <1>12, <1>14 DEF k0, CanonicalKey
  <2>2. OwesMore(staged, Stage(staged, op), op.token_id, op.from, op.to, x - v)
    BY <1>1, <1>2, <1>8, <1>9, <1>14, <2>1, WriteSum DEF x
  <2>3. x - v = m
    BY <1>3, <1>6, <1>7, <1>12, <1>14 DEF v
  <2> QED
    BY <1>10, <1>11, <2>2, <2>3 DEF m
<1> QED
  BY <1>1, <1>12, <1>13, <1>14

\* Staging moves nothing yet: what the sender has to pay more, if anything, he
\* has signed away with this operation.
LEMMA StageOpNetting ==
  ASSUME Inv, NettingInv, StageOp
  PROVE  NettingInv'
<1> USE DEF StageOp
<1> DEFINE t0 == Current.token_id
           m == Current.amount
           f == Current.from
           g == Current.to
<1> SUFFICES ASSUME Volume' <= I64Max
             PROVE  SumsExact' /\ DebitsCovered' /\ NetsBalance'
  BY DEF NettingInv
<1>1. /\ next \in 1..Len(batch) /\ f \in Account /\ g \in Account /\ f # g
      /\ t0 \in TokenIds /\ m \in U64 \ {0} /\ batch[next].signature = f
  BY CurrentFacts DEF Inv
<1>2. m \in Nat
  BY <1>1, Ranges
<1>3. Amounts[next] = m
  BY <1>1 DEF Amounts, Current
<1>4. \A t \in TokenIds, a \in Account :
        /\ Outgoing(t, a)[next] = IF t = t0 /\ a = f THEN m ELSE 0
        /\ Incoming(t, a)[next] = IF t = t0 /\ a = g THEN m ELSE 0
  BY <1>1 DEF Outgoing, Incoming, IsTransfer, Current
<1>5. Volume' = Volume /\ Seen(Amounts)' = Seen(Amounts) + m
  BY <1>1, <1>3, SeenStep
<1>6. SumsExact /\ DebitsCovered /\ NetsBalance /\ Volume <= I64Max
  BY <1>5 DEF NettingInv
<1>7. staged' \in [StageKey -> Int] /\ OwesMore(staged, staged', t0, f, g, m)
  BY <1>6, StageOwes
<1>8. SumsExact'
  <2>1. \A k \in StageKey : staged'[k] <= Seen(Amounts) + m /\ -staged'[k] <= Seen(Amounts) + m
    BY <1>6, StageOwes
  <2> QED
    BY <1>5, <2>1 DEF SumsExact
<1>9. staged \in [StageKey -> Int]
  BY StagedInt
<1>10. Owed(staged, t0, f, g) \in Int /\ Owed(staged, t0, g, f) \in Int
  BY <1>1, <1>9, OwedFacts
<1> HIDE DEF t0, m, f, g
<1>11. ASSUME NEW t \in TokenIds, NEW a \in Account
       PROVE  /\ Seen(Outgoing(t, a))' = Seen(Outgoing(t, a)) + (IF t = t0 /\ a = f THEN m ELSE 0)
              /\ Seen(Incoming(t, a))' = Seen(Incoming(t, a)) + (IF t = t0 /\ a = g THEN m ELSE 0)
              /\ NetOwed(staged', t, a) = NetOwed(staged, t, a)
                   + (IF t = t0 /\ a = f THEN m ELSE IF t = t0 /\ a = g THEN -m ELSE 0)
              /\ ToPay(staged', t, a) <= ToPay(staged, t, a) + (IF t = t0 /\ a = f THEN m ELSE 0)
              /\ Seen(Outgoing(t, a)) \in Int /\ Seen(Incoming(t, a)) \in Int
              /\ NetOwed(staged, t, a) \in Int /\ ToPay(staged, t, a) \in Int
              /\ ToPay(staged', t, a) \in Int
              /\ ledger.bal[t][a] \in Int /\ state.bal[t][a] \in Int
  <2>1. /\ Seen(Outgoing(t, a))' = Seen(Outgoing(t, a)) + Outgoing(t, a)[next]
        /\ Seen(Incoming(t, a))' = Seen(Incoming(t, a)) + Incoming(t, a)[next]
    BY SeenStep
  <2>2. Seen(Outgoing(t, a)) \in Int /\ Seen(Incoming(t, a)) \in Int
    BY SeenBounds
  <2>3. /\ NetOwed(staged', t, a) = NetOwed(staged, t, a)
             + (IF t = t0 /\ a = f THEN m ELSE IF t = t0 /\ a = g THEN -m ELSE 0)
        /\ ToPay(staged', t, a) = ToPay(staged, t, a)
             + (IF t = t0 /\ a = f
                THEN Positive(Owed(staged, t0, f, g) + m) - Positive(Owed(staged, t0, f, g))
                ELSE IF t = t0 /\ a = g
                THEN Positive(Owed(staged, t0, g, f) - m) - Positive(Owed(staged, t0, g, f)) ELSE 0)
    BY <1>1, <1>2, <1>7, <1>9, OwesMoreTotals
  <2>4. NetOwed(staged, t, a) \in Int /\ ToPay(staged, t, a) \in Int /\ ToPay(staged', t, a) \in Int
    BY <1>7, <1>9, ToPayInt
  <2>6. ToPay(staged', t, a) <= ToPay(staged, t, a) + (IF t = t0 /\ a = f THEN m ELSE 0)
    <3> DEFINE y == Owed(staged, t0, f, g)
               z == Owed(staged, t0, g, f)
    <3>0. y \in Int /\ z \in Int
      BY <1>10
    <3> HIDE DEF y, z
    <3>1. /\ Positive(y + m) - Positive(y) <= m /\ Positive(y + m) - Positive(y) \in Int
          /\ Positive(z - m) - Positive(z) <= 0 /\ Positive(z - m) - Positive(z) \in Int
      BY <1>2, <3>0 DEF Positive
    <3> USE DEF y, z
    <3>2. CASE t = t0 /\ a = f
      BY <1>2, <2>3, <2>4, <3>1, <3>2
    <3>3. CASE t = t0 /\ a = g /\ a # f
      BY <2>3, <2>4, <3>1, <3>3
    <3>4. CASE ~(t = t0 /\ a = f) /\ ~(t = t0 /\ a = g)
      BY <2>3, <2>4, <3>4
    <3> QED
      BY <3>2, <3>3, <3>4
  <2>7. ledger.bal[t][a] \in U64 /\ state.bal[t][a] \in U64
    BY DEF Inv, TypeOK, LedgerState
  <2>8. ledger.bal[t][a] \in Int /\ state.bal[t][a] \in Int
    BY <2>7, Ranges
  <2> QED
    BY <1>4, <2>1, <2>2, <2>3, <2>4, <2>6, <2>8
<1>12. DebitsCovered'
  <2> SUFFICES ASSUME NEW t \in TokenIds, NEW a \in Account
               PROVE  ledger.bal[t][a] - state.bal[t][a] + ToPay(staged', t, a)
                        <= Seen(Outgoing(t, a))'
    BY DEF DebitsCovered
  <2>1. ledger.bal[t][a] - state.bal[t][a] + ToPay(staged, t, a) <= Seen(Outgoing(t, a))
    BY <1>6 DEF DebitsCovered
  <2> QED
    BY <1>2, <1>11, <2>1
<1>13. NetsBalance'
  <2> SUFFICES ASSUME ~refused, NEW t \in ledger.known, NEW a \in Account
               PROVE  state.bal[t][a] = ledger.bal[t][a] + NetOwed(staged', t, a)
                        + Seen(Incoming(t, a))' - Seen(Outgoing(t, a))'
    BY DEF NetsBalance
  <2>1. t \in TokenIds
    BY DEF Inv, TypeOK, LedgerState
  <2>2. state.bal[t][a] = ledger.bal[t][a] + NetOwed(staged, t, a)
          + Seen(Incoming(t, a)) - Seen(Outgoing(t, a))
    BY <1>6 DEF NetsBalance
  <2>3. CASE t = t0 /\ a = f
    <3>1. a # g
      BY <1>1, <2>3
    <3> QED
      BY <1>2, <1>11, <2>1, <2>2, <2>3, <3>1
  <2>4. CASE t = t0 /\ a = g
    <3>1. a # f
      BY <1>1, <2>4
    <3> QED
      BY <1>2, <1>11, <2>1, <2>2, <2>4, <3>1
  <2>5. CASE ~(t = t0 /\ a = f) /\ ~(t = t0 /\ a = g)
    BY <1>11, <2>1, <2>2, <2>5
  <2> QED
    BY <2>3, <2>4, <2>5
<1> QED
  BY <1>8, <1>12, <1>13

\* Applying a net sum: its debtor pays, or keeps his balance when it does not
\* suffice, and owes nothing for this pair any more.
LEMMA ApplyNetNetting ==
  ASSUME Inv, NettingInv, NEW k \in StageKey, ApplyNet(k)
  PROVE  NettingInv'
<1> DEFINE op == NetTransfer(k, staged[k])
           t0 == k[1]
           m == op.amount
           f == op.from
           g == op.to
<1> SUFFICES ASSUME Volume' <= I64Max
             PROVE  SumsExact' /\ DebitsCovered' /\ NetsBalance'
  BY DEF NettingInv
<1>1. /\ ledger' = ledger /\ batch' = batch /\ next' = next
      /\ state' = ProcessTransfer(state, op) /\ refused' = (refused \/ TransferRefused(state, op))
      /\ staged' = [staged EXCEPT ![k] = 0] /\ staged[k] # 0
  BY DEF ApplyNet, FirstStaged
<1>2. Volume' = Volume /\ Seen(Amounts)' = Seen(Amounts)
        /\ \A t \in TokenIds, a \in Account :
             /\ Seen(Outgoing(t, a))' = Seen(Outgoing(t, a))
             /\ Seen(Incoming(t, a))' = Seen(Incoming(t, a))
  BY <1>1 DEF Volume, Seen, Amounts, Outgoing, Incoming
<1>3. SumsExact /\ DebitsCovered /\ NetsBalance
  BY <1>2 DEF NettingInv
<1>4. staged \in [StageKey -> Int] /\ staged' \in [StageKey -> Int]
  BY <1>1, StagedInt
<1>5. staged[k] \in I64 /\ staged[k] \in Int /\ k[2] # k[3]
  BY <1>1, <1>4 DEF Inv, TypeOK, NoSelfStaged
<1>6. /\ f \in Account /\ g \in Account /\ f # g /\ op.token_id = t0
      /\ t0 \in TokenIds /\ m \in U64
  BY <1>1, <1>5, NetTransferFacts
<1>7. k = <<t0, k[2], k[3]>> /\ k[2] \in Account /\ k[3] \in Account /\ k[2] < k[3]
  <2>1. k \in TokenIds \X Account \X Account /\ k[2] <= k[3]
    BY DEF StageKey
  <2>2. k = <<k[1], k[2], k[3]>> /\ k[2] \in Account /\ k[3] \in Account
    BY <2>1
  <2>3. k[2] \in Nat /\ k[3] \in Nat
    BY <2>2, Ranges
  <2> QED
    BY <1>5, <2>1, <2>2, <2>3
<1>8. /\ OwesMore(staged, staged', t0, f, g, -m)
      /\ Owed(staged, t0, f, g) = m /\ Owed(staged, t0, g, f) = -m
  <2>1. /\ OwesMore(staged, staged', t0, k[2], k[3], 0 - staged[k])
        /\ OwesMore(staged, staged', t0, k[3], k[2], staged[k] - 0)
        /\ Owed(staged, t0, k[2], k[3]) = staged[k]
        /\ Owed(staged, t0, k[3], k[2]) = -staged[k]
    <3> DEFINE a0 == k[2]
               c0 == k[3]
    <3>1. /\ a0 \in Account /\ c0 \in Account /\ a0 < c0 /\ t0 \in TokenIds
          /\ k = <<t0, a0, c0>> /\ staged' = [staged EXCEPT ![<<t0, a0, c0>>] = 0]
      BY <1>1, <1>6, <1>7
    <3> DEFINE v0 == 0
    <3> HIDE DEF a0, c0, t0, v0
    <3>2. /\ OwesMore(staged, staged', t0, a0, c0, v0 - staged[<<t0, a0, c0>>])
          /\ OwesMore(staged, staged', t0, c0, a0, staged[<<t0, a0, c0>>] - v0)
          /\ Owed(staged, t0, a0, c0) = staged[<<t0, a0, c0>>]
          /\ Owed(staged, t0, c0, a0) = -staged[<<t0, a0, c0>>]
      <4>1. v0 \in Int /\ staged' = [staged EXCEPT ![<<t0, a0, c0>>] = v0]
        BY <3>1 DEF v0
      <4>2. staged \in [StageKey -> Int] /\ a0 \in Account /\ c0 \in Account /\ a0 < c0 /\ t0 \in TokenIds
        BY <1>4, <3>1
      <4> QED
        BY <4>1, <4>2, WriteSum, Zenon
    <3> QED
      BY <3>1, <3>2 DEF a0, c0, v0
  <2>2. CASE staged[k] > 0
    <3>1. f = k[2] /\ g = k[3] /\ m = staged[k]
      BY <2>2 DEF NetTransfer, Transfer
    <3>2. 0 - staged[k] = -m
      BY <1>5, <3>1
    <3> HIDE DEF f, g, m
    <3> QED
      BY <2>1, <3>1, <3>2
  <2>3. CASE ~(staged[k] > 0)
    <3>1. f = k[3] /\ g = k[2] /\ m = -staged[k]
      BY <2>3 DEF NetTransfer, Transfer
    <3>2. staged[k] - 0 = -m /\ staged[k] = -m
      BY <1>5, <3>1
    <3> HIDE DEF f, g, m
    <3> QED
      BY <2>1, <3>1, <3>2
  <2> QED
    BY <2>2, <2>3
<1>9. m \in Nat /\ -m \in Int
  BY <1>6, Ranges
<1>10. SumsExact'
  <2>1. \A l \in StageKey : staged'[l] = staged[l] \/ staged'[l] = 0
    BY <1>1, <1>4
  <2>2. Seen(Amounts) \in Nat
    BY <1>6, SeenBounds
  <2> QED
    BY <1>2, <1>3, <2>1, <2>2 DEF SumsExact
<1>11. ledger.known \subseteq TokenIds /\ state.bal \in [TokenIds -> [Account -> U64]]
         /\ ledger.bal \in [TokenIds -> [Account -> U64]]
  BY DEF Inv, TypeOK, LedgerState
<1>12. ASSUME NEW t \in TokenIds, NEW a \in Account
       PROVE  /\ NetOwed(staged', t, a) = NetOwed(staged, t, a)
                   + (IF t = t0 /\ a = f THEN -m ELSE IF t = t0 /\ a = g THEN m ELSE 0)
              /\ ToPay(staged', t, a) = ToPay(staged, t, a) + (IF t = t0 /\ a = f THEN -m ELSE 0)
              /\ NetOwed(staged, t, a) \in Int /\ ToPay(staged, t, a) \in Int
              /\ Seen(Outgoing(t, a)) \in Int /\ Seen(Incoming(t, a)) \in Int
              /\ ledger.bal[t][a] \in Int /\ state.bal[t][a] \in Int
  <2> HIDE DEF t0, m, f, g
  <2>1. /\ NetOwed(staged, t, a) \in Int /\ ToPay(staged, t, a) \in Int
        /\ NetOwed(staged', t, a) = NetOwed(staged, t, a)
             + (IF t = t0 /\ a = f THEN -m ELSE IF t = t0 /\ a = g THEN -(-m) ELSE 0)
        /\ ToPay(staged', t, a) = ToPay(staged, t, a)
             + (IF t = t0 /\ a = f
                THEN Positive(Owed(staged, t0, f, g) + (-m)) - Positive(Owed(staged, t0, f, g))
                ELSE IF t = t0 /\ a = g
                THEN Positive(Owed(staged, t0, g, f) - (-m)) - Positive(Owed(staged, t0, g, f)) ELSE 0)
    BY <1>4, <1>6, <1>8, <1>9, OwesMoreTotals
  <2>2. /\ Positive(m + (-m)) - Positive(m) = -m /\ Positive((-m) - (-m)) - Positive(-m) = 0
        /\ -(-m) = m
    BY <1>9 DEF Positive
  <2>3. Seen(Outgoing(t, a)) \in Int /\ Seen(Incoming(t, a)) \in Int
    BY SeenBounds
  <2>4. ledger.bal[t][a] \in U64 /\ state.bal[t][a] \in U64
    BY <1>11
  <2>5. ledger.bal[t][a] \in Int /\ state.bal[t][a] \in Int
    BY <2>4, Ranges
  <2> QED
    BY <1>8, <2>1, <2>2, <2>3, <2>5
<1>13. \/ refused' /\ state' = state
       \/ /\ refused' = refused
          /\ \A t \in TokenIds, a \in Account : state'.bal[t][a] = state.bal[t][a]
               + (IF t = t0 /\ a = f THEN -m ELSE IF t = t0 /\ a = g THEN m ELSE 0)
  <2>1. CASE TransferRefused(state, op)
    BY <1>1, <2>1 DEF ProcessTransfer
  <2>2. CASE ~TransferRefused(state, op)
    <3> HIDE DEF op
    <3>1. /\ \A t \in TokenIds \ {t0} : state'.bal[t] = state.bal[t]
          /\ \A a \in Account \ {f, g} : state'.bal[t0][a] = state.bal[t0][a]
          /\ state'.bal[t0][f] = state.bal[t0][f] - m
          /\ state'.bal[t0][g] = state.bal[t0][g] + m
      BY <1>1, <1>6, <2>2, TransferSupply DEF Inv
    <3>2. refused' = refused
      BY <1>1, <2>2 DEF Inv, TypeOK
    <3> HIDE DEF t0, m, f, g
    <3>3. \A t \in TokenIds, a \in Account : state.bal[t][a] \in Int
      BY <1>12
    <3> QED
      BY <1>6, <1>9, <3>1, <3>2, <3>3
  <2> QED
    BY <2>1, <2>2
<1> HIDE DEF t0, m, f, g, op
<1>14. DebitsCovered'
  <2> SUFFICES ASSUME NEW t \in TokenIds, NEW a \in Account
               PROVE  ledger.bal[t][a] - state'.bal[t][a] + ToPay(staged', t, a)
                        <= Seen(Outgoing(t, a))
    BY <1>1, <1>2 DEF DebitsCovered
  <2>1. ledger.bal[t][a] - state.bal[t][a] + ToPay(staged, t, a) <= Seen(Outgoing(t, a))
    BY <1>3 DEF DebitsCovered
  <2> QED
    BY <1>6, <1>9, <1>12, <1>13, <2>1
<1>15. NetsBalance'
  <2> SUFFICES ASSUME ~refused', NEW t \in ledger.known, NEW a \in Account
               PROVE  state'.bal[t][a] = ledger.bal[t][a] + NetOwed(staged', t, a)
                        + Seen(Incoming(t, a)) - Seen(Outgoing(t, a))
    BY <1>1, <1>2, <1>11 DEF NetsBalance
  <2>1. ~refused
    BY <1>1
  <2>2. state.bal[t][a] = ledger.bal[t][a] + NetOwed(staged, t, a)
          + Seen(Incoming(t, a)) - Seen(Outgoing(t, a)) /\ t \in TokenIds
    BY <1>3, <1>11, <2>1 DEF NetsBalance
  <2> QED
    BY <1>6, <1>9, <1>12, <1>13, <2>2
<1> QED
  BY <1>10, <1>14, <1>15

\* Every step of the transition keeps the sums exact.
LEMMA NextNetting == Inv /\ NettingInv /\ [Next]_vars => NettingInv'
<1> SUFFICES ASSUME Inv, NettingInv, [Next]_vars PROVE NettingInv'
  OBVIOUS
<1>1. CASE (\E b \in Batches : Begin(b)) \/ Abort \/ Finish
  BY <1>1, BoundaryNetting
<1>2. CASE MintOp
  BY <1>2, MintOpNetting
<1>3. CASE StageOp
  BY <1>3, StageOpNetting
<1>4. CASE \E k \in StageKey : ApplyNet(k)
  BY <1>4, ApplyNetNetting
<1>5. CASE UNCHANGED vars
  BY <1>5 DEF vars, NettingInv, SumsExact, DebitsCovered, NetsBalance, Seen, Volume,
              Amounts, Outgoing, Incoming
<1> QED
  BY <1>1, <1>2, <1>3, <1>4, <1>5 DEF Next

\* At every step of every transition, the balances and the sums still to be
\* applied account for exactly the operations seen.
THEOREM NettingInvariance == Spec => []NettingInv
BY InitNetting, NextNetting, Invariance, PTL DEF Spec

\* Nobody loses more of a token, at any point of a transition, than he signed
\* away in its batch, whatever the others send and in whatever order the net
\* sums are applied.
THEOREM DebitsAreSigned == Spec => []DebitsSigned
<1>1. Inv /\ NettingInv => DebitsSigned
  <2> SUFFICES ASSUME Inv, NettingInv, Volume <= I64Max, NEW t \in TokenIds, NEW a \in Account
               PROVE  ledger.bal[t][a] - state.bal[t][a] <= SignedOut(t, a)
    BY DEF DebitsSigned
  <2>1. ledger.bal[t][a] - state.bal[t][a] + ToPay(staged, t, a) <= Seen(Outgoing(t, a))
    BY DEF NettingInv, DebitsCovered
  <2>2. ToPay(staged, t, a) \in Nat
    BY StagedInt, ToPayNatural
  <2>3. Seen(Outgoing(t, a)) \in Nat /\ SignedOut(t, a) \in Nat /\ Seen(Outgoing(t, a)) <= SignedOut(t, a)
    BY SeenBounds
  <2>4. ledger.bal[t][a] \in U64 /\ state.bal[t][a] \in U64
    BY DEF Inv, TypeOK, LedgerState
  <2> QED
    BY <2>1, <2>2, <2>3, <2>4, Ranges
<1> QED
  BY <1>1, Invariance, NettingInvariance, PTL

\* A transition that refused nothing ends with the balances that the signed
\* transfers give one by one: netting loses and invents nothing.
THEOREM NettingIsExact == Spec => []NettingExact
<1>1. Inv /\ NettingInv => NettingExact
  <2> SUFFICES ASSUME Inv, NettingInv, Done, ~refused, Volume <= I64Max,
                      NEW t \in ledger.known, NEW a \in Account
               PROVE  state.bal[t][a] = ledger.bal[t][a] + SignedIn(t, a) - SignedOut(t, a)
    BY DEF NettingExact
  <2>1. t \in TokenIds
    BY DEF Inv, TypeOK, LedgerState
  <2>2. next - 1 = Len(batch)
    BY <2>1, SummandFacts DEF Done, OpsLeft
  <2>3. NetOwed(staged, t, a) = 0
    BY <2>1, NothingOwed DEF Done
  <2>4. Seen(Incoming(t, a)) = SignedIn(t, a) /\ Seen(Outgoing(t, a)) = SignedOut(t, a)
    BY <2>2 DEF Seen, SignedIn, SignedOut
  <2>5. state.bal[t][a] = ledger.bal[t][a] + NetOwed(staged, t, a)
          + Seen(Incoming(t, a)) - Seen(Outgoing(t, a))
    BY DEF NettingInv, NetsBalance
  <2>6. ledger.bal[t][a] \in U64
    BY <2>1 DEF Inv, TypeOK, LedgerState
  <2>7. ledger.bal[t][a] \in Int
    BY <2>6, Ranges
  <2> QED
    BY <2>3, <2>4, <2>5, <2>7
<1> QED
  BY <1>1, Invariance, NettingInvariance, PTL

=============================================================================
