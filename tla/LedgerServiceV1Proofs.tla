----------------------- MODULE LedgerServiceV1Proofs ------------------------
(***************************************************************************)
(* Version 1 for any tokens, accounts, payloads and integer width: whole   *)
(* operations survive a failure at any host call, and an accumulation that *)
(* ends does what version 2 does, as long as the deposit of the service    *)
(* pays for its storage.                                                   *)
(***************************************************************************)
EXTENDS LedgerServiceV1, OperatorProofs

\* What passes the checks of refine, and what refine passes on.
ValidSigned == {so \in SignedOperation : ValidOperation(so)}
Proper == {op \in Operation : op.amount # 0 /\ (op.type = "Transfer" => op.from # op.to)}

\* What an operation that refine passes on consists of.
LEMMA ProperFacts ==
  ASSUME NEW op \in Proper
  PROVE  /\ op \in Operation /\ op.type \in {"Mint", "Transfer"} /\ op.to \in Account
         /\ op.token_id \in TokenIds /\ op.amount \in U64 /\ op.amount # 0
         /\ op.type = "Transfer" => op.from \in Account /\ op.from # op.to
BY DEF Proper, Operation

\* One operation keeps the type of a ledger.
LEMMA ProcessOperationType ==
  ASSUME NEW s \in LedgerState, NEW op \in Proper
  PROVE  ProcessOperation(s, op) \in LedgerState
<1>1. /\ op.type \in {"Mint", "Transfer"} /\ op.to \in Account
      /\ op.token_id \in TokenIds /\ op.amount \in U64 /\ (op.type = "Transfer" => op.from \in Account)
  BY ProperFacts
<1> QED
  BY <1>1, ProcessTypes DEF ProcessOperation

-----------------------------------------------------------------------------
(* refine *)

CheckStep(kept, so) == IF ValidOperation(so) THEN Append(kept, so) ELSE kept
MintsStep(mints, so) == IF so.operation.type = "Mint" THEN Append(mints, so.operation) ELSE mints

\* What refine keeps of a payload has passed the checks.
LEMMA CheckedType ==
  ASSUME NEW batch \in Seq(SignedOperation)
  PROVE  Checked(batch) \in Seq(ValidSigned)
<1> DEFINE n == Len(batch)
           X == Seq(ValidSigned)
           F == [i \in 1..n |-> [x \in X |-> CheckStep(x, batch[i])]]
           Rec(g) == g = [i \in 0..n |-> IF i = 0 THEN <<>> ELSE CheckStep(g[i - 1], batch[i])]
           G == CHOOSE g : Rec(g)
<1>1. n \in Nat /\ n \in 0..n /\ <<>> \in X /\ \A i \in 1..n : batch[i] \in SignedOperation
  OBVIOUS
<1>2. \A i \in 1..n, x \in X : CheckStep(x, batch[i]) \in X
  <2> TAKE i \in 1..n, x \in X
  <2>1. CASE ValidOperation(batch[i])
    <3>1. batch[i] \in ValidSigned
      BY <1>1, <2>1 DEF ValidSigned
    <3> HIDE DEF n
    <3> QED
      BY <2>1, <3>1 DEF CheckStep
  <2>2. CASE ~ValidOperation(batch[i])
    BY <2>2 DEF CheckStep
  <2> QED
    BY <2>1, <2>2
<1>3. PICK r : IsRun(r, n, X, <<>>, F)
  <2>1. F \in [1..n -> [X -> X]]
    <3> HIDE DEF X, n
    <3> QED
      BY <1>2
  <2> HIDE DEF F, X, n
  <2> QED
    BY <1>1, <2>1, LoopRuns
<1>4. r \in [0..n -> X] /\ r[0] = <<>> /\ \A i \in 1..n : r[i] = CheckStep(r[i - 1], batch[i])
  <2>1. \A i \in 1..n : i - 1 \in 0..n
    BY <1>1
  <2> HIDE DEF X, n
  <2> QED
    BY <1>3, <2>1 DEF IsRun
<1>5. Rec(r)
  <2> HIDE DEF X
  <2> QED
    BY <1>4
<1>6. Rec(G)
  <2> HIDE DEF Rec
  <2> QED
    BY <1>5
<1>7. Checked(batch) = G[n]
  BY DEF Checked, CheckStep
<1> HIDE DEF G
<1>8. G[0] = <<>> /\ \A i \in 1..n : G[i] = CheckStep(G[i - 1], batch[i])
  <2>1. \A i \in 1..n : i \in 0..n /\ i # 0
    BY <1>1
  <2> HIDE DEF n
  <2> QED
    BY <1>1, <1>6, <2>1
<1>9. \A i \in 1..n : G[i - 1] \in X => G[i] = F[i][G[i - 1]]
  <2> HIDE DEF X, n
  <2> QED
    BY <1>8
<1>10. G[n] = r[n]
  <2> HIDE DEF F, X, n
  <2> QED
    BY <1>1, <1>3, <1>8, <1>9, LoopUnique
<1> QED
  <2> HIDE DEF X, n
  <2>1. Checked(batch) \in X
    BY <1>1, <1>4, <1>7, <1>10
  <2> QED
    BY <2>1 DEF X

\* MintsOf is the end of a run of a loop.
LEMMA MintsRun ==
  ASSUME NEW v \in Seq(ValidSigned)
  PROVE  \E r \in [0..Len(v) -> Seq(Proper)] :
           /\ r[0] = <<>>
           /\ \A i \in 1..Len(v) : r[i] = MintsStep(r[i - 1], v[i])
           /\ MintsOf(v) = r[Len(v)]
<1> DEFINE n == Len(v)
           X == Seq(Proper)
           F == [i \in 1..n |-> [x \in X |-> MintsStep(x, v[i])]]
           Rec(g) == g = [i \in 0..n |-> IF i = 0 THEN <<>> ELSE MintsStep(g[i - 1], v[i])]
           G == CHOOSE g : Rec(g)
<1>1. n \in Nat /\ n \in 0..n /\ <<>> \in X /\ \A i \in 1..n : v[i] \in ValidSigned
  OBVIOUS
<1>2. \A i \in 1..n, x \in X : MintsStep(x, v[i]) \in X
  <2> TAKE i \in 1..n, x \in X
  <2>1. CASE v[i].operation.type = "Mint"
    <3>1. v[i].operation \in Proper
      <4>1. v[i].operation \in Operation /\ ValidOperation(v[i])
        BY <1>1 DEF ValidSigned, SignedOperation
      <4> QED
        BY <2>1, <4>1 DEF Proper, ValidOperation
    <3> HIDE DEF n
    <3> QED
      BY <2>1, <3>1 DEF MintsStep
  <2>2. CASE v[i].operation.type # "Mint"
    BY <2>2 DEF MintsStep
  <2> QED
    BY <2>1, <2>2
<1>3. PICK r : IsRun(r, n, X, <<>>, F)
  <2>1. F \in [1..n -> [X -> X]]
    <3> HIDE DEF X, n
    <3> QED
      BY <1>2
  <2> HIDE DEF F, X, n
  <2> QED
    BY <1>1, <2>1, LoopRuns
<1>4. r \in [0..n -> X] /\ r[0] = <<>> /\ \A i \in 1..n : r[i] = MintsStep(r[i - 1], v[i])
  <2>1. \A i \in 1..n : i - 1 \in 0..n
    BY <1>1
  <2> HIDE DEF X, n
  <2> QED
    BY <1>3, <2>1 DEF IsRun
<1>5. Rec(r)
  <2> HIDE DEF X
  <2> QED
    BY <1>4
<1>6. Rec(G)
  <2> HIDE DEF Rec
  <2> QED
    BY <1>5
<1>7. MintsOf(v) = G[n]
  BY DEF MintsOf, MintsStep
<1> HIDE DEF G
<1>8. G[0] = <<>> /\ \A i \in 1..n : G[i] = MintsStep(G[i - 1], v[i])
  <2>1. \A i \in 1..n : i \in 0..n /\ i # 0
    BY <1>1
  <2> HIDE DEF n
  <2> QED
    BY <1>1, <1>6, <2>1
<1>9. \A i \in 1..n : G[i - 1] \in X => G[i] = F[i][G[i - 1]]
  <2> HIDE DEF X, n
  <2> QED
    BY <1>8
<1>10. G[n] = r[n]
  <2> HIDE DEF F, X, n
  <2> QED
    BY <1>1, <1>3, <1>8, <1>9, LoopUnique
<1> QED
  BY <1>4, <1>7, <1>10

\* The transfers that the sums of checked operations stand for.
LEMMA NettedType ==
  ASSUME NEW v \in Seq(ValidSigned), NEW nets, nets = NetTransfers(StageAll(v))
  PROVE  /\ Len(nets) \in Nat /\ nets \in Seq(Proper) /\ DOMAIN nets = 1..Len(nets)
         /\ \A i \in 1..Len(nets) : nets[i].type = "Transfer"
<1> DEFINE st == StageAll(v)
<1>1. v \in Seq(SignedOperation) /\ \A i \in 1..Len(v) : v[i] \in ValidSigned
  <2>1. ValidSigned \subseteq SignedOperation
    BY DEF ValidSigned
  <2> QED
    BY <2>1
<1>2. \A i \in 1..Len(v) : v[i].operation.type = "Transfer" => v[i].operation.from # v[i].operation.to
  BY <1>1 DEF ValidSigned, ValidOperation
<1>3. st \in [StageKey -> I64] /\ \A k \in StageKey : k[2] = k[3] => st[k] = 0
  BY <1>1, <1>2, NoSelfSum
<1>4. /\ Len(nets) \in Nat /\ DOMAIN nets = 1..Len(nets)
      /\ \A i \in 1..Len(nets) : \E k \in StageKey : st[k] # 0 /\ nets[i] = NetTransfer(k, st[k])
  BY <1>3, NetTransfersFacts
<1> HIDE DEF st
<1>5. ASSUME NEW i \in 1..Len(nets) PROVE nets[i] \in Proper /\ nets[i].type = "Transfer"
  <2> DEFINE op == nets[i]
  <2>1. PICK k \in StageKey : st[k] # 0 /\ op = NetTransfer(k, st[k])
    BY <1>4
  <2>2. st[k] \in I64 /\ k[2] # k[3]
    BY <1>3, <2>1
  <2>3. /\ op.from \in Account /\ op.to \in Account /\ op.from # op.to
        /\ op.token_id \in TokenIds /\ op.amount \in U64
    BY <2>1, <2>2, NetTransferFacts
  <2>4. /\ op = [type |-> "Transfer", from |-> op.from, to |-> op.to, token_id |-> op.token_id,
                 amount |-> op.amount]
        /\ op.type = "Transfer"
    BY <2>1 DEF NetTransfer, Transfer
  <2>5. op.amount # 0
    BY <2>1, <2>2, Ranges DEF NetTransfer, Transfer
  <2> HIDE DEF op
  <2>6. op \in Proper
    BY <2>3, <2>4, <2>5 DEF Proper, Operation
  <2> QED
    BY <2>4, <2>6 DEF op
<1>6. nets \in Seq(Proper)
  <2>1. \E k \in [1..Len(nets) -> Proper] : nets = k
    <3>1. nets = [i \in DOMAIN nets |-> nets[i]]
      BY DEF NetTransfers
    <3> QED
      BY <1>4, <1>5, <3>1
  <2> QED
    BY <1>4, <2>1
<1> QED
  BY <1>4, <1>5, <1>6

\* refine passes on nothing but mints and transfers of a positive amount
\* between two accounts.
LEMMA RefineV1Type ==
  ASSUME NEW batch \in Seq(SignedOperation)
  PROVE  RefineV1(batch) \in Seq(Proper)
<1> DEFINE v == Checked(batch)
<1>1. v \in Seq(ValidSigned)
  BY CheckedType
<1> HIDE DEF v
<1>2. MintsOf(v) \in Seq(Proper)
  <2>1. Len(v) \in 0..Len(v)
    BY <1>1
  <2> QED
    BY <1>1, <2>1, MintsRun
<1>3. NetTransfers(StageAll(v)) \in Seq(Proper)
  BY <1>1, NettedType
<1>4. RefineV1(batch) = MintsOf(v) \o NetTransfers(StageAll(v))
  BY DEF RefineV1, v
<1> DEFINE a == MintsOf(v)
           b == NetTransfers(StageAll(v))
<1> HIDE DEF a, b
<1>5. a \o b \in Seq(Proper)
  BY <1>2, <1>3 DEF a, b
<1> QED
  BY <1>4, <1>5 DEF a, b

-----------------------------------------------------------------------------
(* Operation after operation. *)

\* r is a run of the first n of the operations w.
IsOpRun(r, n, s, w) ==
  /\ r \in [0..n -> LedgerState]
  /\ r[0] = s
  /\ \A i \in 1..n : r[i] = ProcessOperation(r[i - 1], w[i])

\* ProcessFirst is the end of such a run.
LEMMA ProcessFirstRun ==
  ASSUME NEW s \in LedgerState, NEW n \in Nat, NEW w, \A i \in 1..n : w[i] \in Proper
  PROVE  /\ \E r : IsOpRun(r, n, s, w)
         /\ \A r : IsOpRun(r, n, s, w) => ProcessFirst(s, n, w) = r[n]
<1> DEFINE X == LedgerState
           F == [i \in 1..n |-> [l \in X |-> ProcessOperation(l, w[i])]]
           Rec(g) == g = [i \in 0..n |-> IF i = 0 THEN s ELSE ProcessOperation(g[i - 1], w[i])]
           G == CHOOSE g : Rec(g)
<1>1. F \in [1..n -> [X -> X]]
  BY ProcessOperationType
<1>2. PICK r : IsRun(r, n, X, s, F)
  <2> HIDE DEF F
  <2> QED
    BY <1>1, LoopRuns
<1>3. \A q : IsOpRun(q, n, s, w) <=> IsRun(q, n, X, s, F)
  <2> TAKE q
  <2>1. ASSUME q \in [0..n -> X]
        PROVE  \A i \in 1..n : F[i][q[i - 1]] = ProcessOperation(q[i - 1], w[i])
    <3> TAKE i \in 1..n
    <3>1. q[i - 1] \in X
      BY <2>1
    <3> HIDE DEF X
    <3> QED
      BY <3>1
  <2> HIDE DEF F
  <2> QED
    BY <2>1 DEF IsOpRun, IsRun
<1>4. ASSUME NEW q, IsOpRun(q, n, s, w)
      PROVE  ProcessFirst(s, n, w) = q[n]
  <2>1. Rec(G)
    <3>1. Rec(q)
      BY <1>4 DEF IsOpRun
    <3> HIDE DEF Rec
    <3> QED
      BY <3>1
  <2>2. ProcessFirst(s, n, w) = G[n]
    BY DEF ProcessFirst
  <2> HIDE DEF G
  <2>3. G[0] = s /\ \A i \in 1..n : G[i] = ProcessOperation(G[i - 1], w[i])
    BY <2>1
  <2>4. \A i \in 1..n : G[i - 1] \in X => G[i] = F[i][G[i - 1]]
    <3> HIDE DEF X
    <3> QED
      BY <2>3
  <2> HIDE DEF F, X
  <2> QED
    BY <1>3, <1>4, <2>2, <2>3, <2>4, LoopUnique
<1> QED
  BY <1>2, <1>3, <1>4

\* The recursion equations of ProcessFirst.
LEMMA ProcessFirstStep ==
  ASSUME NEW s \in LedgerState, NEW n \in Nat, NEW w, \A i \in 1..n : w[i] \in Proper
  PROVE  /\ ProcessFirst(s, n, w) \in LedgerState
         /\ n = 0 => ProcessFirst(s, n, w) = s
         /\ n # 0 => ProcessFirst(s, n, w) = ProcessOperation(ProcessFirst(s, n - 1, w), w[n])
<1>1. PICK r : IsOpRun(r, n, s, w) /\ ProcessFirst(s, n, w) = r[n]
  BY ProcessFirstRun
<1>2. ASSUME n # 0
      PROVE  ProcessFirst(s, n, w) = ProcessOperation(ProcessFirst(s, n - 1, w), w[n])
  <2> DEFINE m == n - 1
             q == [i \in 0..m |-> r[i]]
  <2>1. m \in Nat /\ m \in 0..m /\ n \in 1..n /\ \A i \in 1..m : w[i] \in Proper
    BY <1>2
  <2>2. IsOpRun(q, m, s, w)
    <3>1. /\ \A i \in 1..m : i \in 1..n /\ i \in 0..m /\ i - 1 \in 0..m
          /\ \A i \in 0..m : i \in 0..n
          /\ 0 \in 0..m
      BY <2>1
    <3> HIDE DEF m
    <3> QED
      BY <1>1, <3>1 DEF IsOpRun
  <2>3. ProcessFirst(s, m, w) = r[m]
    <3>1. q[m] = r[m]
      BY <2>1
    <3> HIDE DEF m, q
    <3> QED
      BY <2>1, <2>2, <3>1, ProcessFirstRun
  <2> QED
    BY <1>1, <2>1, <2>3 DEF IsOpRun
<1>3. n \in 0..n
  OBVIOUS
<1> QED
  BY <1>1, <1>2, <1>3 DEF IsOpRun

\* Operations that come later do not matter.
LEMMA ProcessFirstAgree ==
  ASSUME NEW s \in LedgerState, NEW n \in Nat, NEW w, \A i \in 1..n : w[i] \in Proper,
         NEW u, \A i \in 1..n : u[i] = w[i]
  PROVE  ProcessFirst(s, n, u) = ProcessFirst(s, n, w)
<1>1. PICK r : IsOpRun(r, n, s, w) /\ ProcessFirst(s, n, w) = r[n]
  BY ProcessFirstRun
<1>2. IsOpRun(r, n, s, u)
  BY <1>1 DEF IsOpRun
<1>3. \A i \in 1..n : u[i] \in Proper
  OBVIOUS
<1> QED
  BY <1>1, <1>2, <1>3, ProcessFirstRun

\* All of the operations w.
ProcessAll(s, w) == ProcessFirst(s, Len(w), w)

\* One operation more.
LEMMA ProcessAppend ==
  ASSUME NEW s \in LedgerState, NEW w \in Seq(Proper), NEW op \in Proper
  PROVE  ProcessAll(s, Append(w, op)) = ProcessOperation(ProcessAll(s, w), op)
<1> DEFINE u == Append(w, op)
           n == Len(w)
<1>1. /\ n \in Nat /\ n + 1 \in Nat /\ n + 1 # 0 /\ (n + 1) - 1 = n
      /\ Len(u) = n + 1 /\ u[n + 1] = op
      /\ \A i \in 1..n : w[i] \in Proper /\ u[i] = w[i]
      /\ \A i \in 1..(n + 1) : u[i] \in Proper
  OBVIOUS
<1> HIDE DEF u, n
<1>2. ProcessFirst(s, n + 1, u) = ProcessOperation(ProcessFirst(s, n, u), op)
  BY <1>1, ProcessFirstStep
<1>3. ProcessFirst(s, n, u) = ProcessFirst(s, n, w)
  BY <1>1, ProcessFirstAgree
<1> QED
  BY <1>1, <1>2, <1>3 DEF ProcessAll, u, n

\* One list of operations after another.
LEMMA ProcessConcat ==
  ASSUME NEW s \in LedgerState, NEW a \in Seq(Proper), NEW b \in Seq(Proper)
  PROVE  ProcessAll(s, a \o b) = ProcessAll(ProcessAll(s, a), b)
<1> DEFINE n == Len(a)
           c == a \o b
           q == ProcessAll(s, a)
           T == {m \in 0..Len(b) : ProcessFirst(s, n + m, c) = ProcessFirst(q, m, b)}
<1>1. /\ n \in Nat /\ Len(b) \in Nat /\ Len(c) = n + Len(b)
      /\ \A i \in 1..n : a[i] \in Proper /\ c[i] = a[i]
      /\ \A i \in 1..Len(b) : b[i] \in Proper /\ c[n + i] = b[i]
      /\ \A i \in 1..(n + Len(b)) : c[i] \in Proper
  OBVIOUS
<1> HIDE DEF n, c
<1>2. q \in LedgerState /\ q = ProcessFirst(s, n, a)
  BY <1>1, ProcessFirstStep DEF ProcessAll, n
<1> HIDE DEF q
<1>3. 0 \in T
  <2>1. ProcessFirst(s, n, c) = ProcessFirst(s, n, a)
    BY <1>1, ProcessFirstAgree
  <2>2. ProcessFirst(q, 0, b) = q
    BY <1>2, ProcessFirstStep
  <2>3. n + 0 = n /\ 0 \in 0..Len(b)
    BY <1>1
  <2> QED
    BY <1>2, <2>1, <2>2, <2>3
<1>4. ASSUME NEW m \in 1..Len(b), m - 1 \in T PROVE m \in T
  <2>1. /\ m \in Nat /\ m # 0 /\ n + m \in Nat /\ n + m # 0 /\ (n + m) - 1 = n + (m - 1)
        /\ (\A i \in 1..(n + m) : c[i] \in Proper) /\ (\A i \in 1..m : b[i] \in Proper)
        /\ c[n + m] = b[m] /\ m \in 0..Len(b)
    BY <1>1
  <2>2. ProcessFirst(s, n + m, c) = ProcessOperation(ProcessFirst(s, (n + m) - 1, c), c[n + m])
    <3> DEFINE k == n + m
    <3> HIDE DEF k
    <3>1. k \in Nat /\ k # 0 /\ \A i \in 1..k : c[i] \in Proper
      BY <2>1 DEF k
    <3>2. ProcessFirst(s, k, c) = ProcessOperation(ProcessFirst(s, k - 1, c), c[k])
      BY <3>1, ProcessFirstStep
    <3> QED
      BY <3>2 DEF k
  <2>3. ProcessFirst(q, m, b) = ProcessOperation(ProcessFirst(q, m - 1, b), b[m])
    BY <1>2, <2>1, ProcessFirstStep
  <2>4. ProcessFirst(s, n + (m - 1), c) = ProcessFirst(q, m - 1, b)
    BY <1>4
  <2> QED
    BY <2>1, <2>2, <2>3, <2>4
<1> HIDE DEF T
<1>5. \A m \in 0..Len(b) : m \in T
  BY <1>1, <1>3, <1>4, CountUp, Zenon
<1>6. Len(b) \in T
  BY <1>1, <1>5
<1> QED
  BY <1>1, <1>6 DEF T, ProcessAll, c, q

-----------------------------------------------------------------------------
(* What refine passes on does what state_transition does. *)

\* The mints that refine passes on do what the first loop does to the state.
LEMMA MintsDoTheSame ==
  ASSUME NEW s \in LedgerState, NEW v \in Seq(ValidSigned)
  PROVE  /\ MintsOf(v) \in Seq(Proper)
         /\ ProcessAll(s, MintsOf(v)) = MintAll(s, v)
         /\ MintAll(s, v) \in LedgerState
<1> DEFINE n == Len(v)
<1>1. n \in Nat /\ n \in 0..n /\ 0 \in 0..n /\ \A i \in 1..n : v[i] \in ValidSigned /\ i - 1 \in 0..n /\ i \in 0..n
  OBVIOUS
<1>2. v \in Seq(SignedOperation)
  BY DEF ValidSigned
<1>3. PICK r \in [0..n -> Seq(Proper)] :
        /\ r[0] = <<>>
        /\ \A i \in 1..n : r[i] = MintsStep(r[i - 1], v[i])
        /\ MintsOf(v) = r[n]
  BY MintsRun
<1>4. PICK q \in [0..n -> LedgerState] :
        /\ q[0] = s
        /\ \A i \in 1..n : q[i] = MintStep(q[i - 1], v[i])
        /\ MintAll(s, v) = q[n]
  BY <1>2, MintAllRun
<1> HIDE DEF n
<1> DEFINE T == {i \in 0..n : ProcessAll(s, r[i]) = q[i]}
<1>5. 0 \in T
  <2>1. ProcessAll(s, <<>>) = s
    BY ProcessFirstStep DEF ProcessAll
  <2> QED
    BY <1>1, <1>3, <1>4, <2>1
<1>6. ASSUME NEW i \in 1..n, i - 1 \in T PROVE i \in T
  <2> DEFINE x == r[i - 1]
             op == v[i].operation
  <2>1. x \in Seq(Proper) /\ ProcessAll(s, x) = q[i - 1] /\ i \in 0..n
    BY <1>1, <1>3, <1>6
  <2>2. r[i] = MintsStep(x, v[i]) /\ q[i] = MintStep(q[i - 1], v[i])
    BY <1>3, <1>4
  <2> HIDE DEF x
  <2>3. CASE op.type = "Mint"
    <3>1. op \in Proper
      <4>1. op \in Operation /\ ValidOperation(v[i])
        BY <1>1 DEF ValidSigned, SignedOperation
      <4> QED
        BY <2>3, <4>1 DEF Proper, ValidOperation
    <3>2. r[i] = Append(x, op) /\ q[i] = ProcessMint(q[i - 1], op)
      BY <2>2, <2>3 DEF MintsStep, MintStep
    <3> HIDE DEF op
    <3>3. ProcessAll(s, Append(x, op)) = ProcessOperation(ProcessAll(s, x), op)
      BY <2>1, <3>1, ProcessAppend
    <3> QED
      BY <2>1, <2>3, <3>2, <3>3 DEF ProcessOperation
  <2>4. CASE op.type # "Mint"
    BY <2>1, <2>2, <2>4 DEF MintsStep, MintStep
  <2> QED
    BY <2>3, <2>4
<1> HIDE DEF T
<1>7. \A i \in 0..n : i \in T
  BY <1>1, <1>5, <1>6, CountUp, Zenon
<1>8. n \in T
  BY <1>1, <1>7
<1> QED
  BY <1>1, <1>3, <1>4, <1>8 DEF T

\* The transfers that it passes on do what the second loop does.
LEMMA TransfersDoTheSame ==
  ASSUME NEW s \in LedgerState, NEW w \in Seq(Proper),
         \A i \in 1..Len(w) : w[i].type = "Transfer"
  PROVE  ProcessAll(s, w) = TransferAll(s, w)
<1> DEFINE n == Len(w)
<1>1. n \in Nat /\ DOMAIN w = 1..n /\ \A i \in 1..n : w[i] \in Proper
  OBVIOUS
<1>2. \A i \in 1..n : /\ w[i].from \in Account /\ w[i].to \in Account
                      /\ w[i].token_id \in TokenIds /\ w[i].amount \in U64
  BY <1>1, ProperFacts
<1>3. PICK r : IsTransferRun(r, n, s, w) /\ TransferAll(s, w) = r[n]
  <2> HIDE DEF n
  <2>1. Len(w) = n
    BY DEF n
  <2> QED
    BY <1>1, <1>2, <2>1, TransferAllRun
<1>4. IsOpRun(r, n, s, w)
  BY <1>3 DEF IsTransferRun, IsOpRun, ProcessOperation
<1> QED
  BY <1>1, <1>3, <1>4, ProcessFirstRun DEF ProcessAll

\* A payload does in version 1 what its checked operations do in version 2.
LEMMA PayloadDoesTheSame ==
  ASSUME NEW s \in LedgerState, NEW batch \in Seq(SignedOperation)
  PROVE  ProcessAll(s, RefineV1(batch)) = Transition(s, Checked(batch))
<1> DEFINE v == Checked(batch)
           a == MintsOf(v)
           b == NetTransfers(StageAll(v))
<1>1. v \in Seq(ValidSigned)
  BY CheckedType
<1>2. /\ RefineV1(batch) = a \o b
      /\ Transition(s, v) = TransferAll(MintAll(s, v), b)
  BY DEF RefineV1, Transition
<1> HIDE DEF v
<1>3. /\ a \in Seq(Proper) /\ ProcessAll(s, a) = MintAll(s, v) /\ MintAll(s, v) \in LedgerState
  BY <1>1, MintsDoTheSame
<1>4. b \in Seq(Proper) /\ \A i \in 1..Len(b) : b[i].type = "Transfer"
  BY <1>1, NettedType
<1> HIDE DEF a, b
<1>5. ProcessAll(s, a \o b) = ProcessAll(ProcessAll(s, a), b)
  BY <1>3, <1>4, ProcessConcat
<1>6. ProcessAll(ProcessAll(s, a), b) = TransferAll(MintAll(s, v), b)
  BY <1>3, <1>4, TransfersDoTheSame
<1> QED
  BY <1>2, <1>5, <1>6 DEF v

-----------------------------------------------------------------------------
(* The loops of accumulate as one. *)

\* The lists of operations of the items, one after the other.
IsFlattening(f, n, lists) ==
  /\ f \in [0..n -> Seq(Proper)]
  /\ f[0] = <<>>
  /\ \A i \in 1..n : f[i] = f[i - 1] \o lists[i]

\* FlattenSeq is the end of such a run.
LEMMA FlattenRun ==
  ASSUME NEW lists \in Seq(Seq(Proper))
  PROVE  \E f : IsFlattening(f, Len(lists), lists) /\ FlattenSeq(lists) = f[Len(lists)]
<1> DEFINE n == Len(lists)
           X == Seq(Proper)
           F == [i \in 1..n |-> [x \in X |-> x \o lists[i]]]
           Rec(g) == g = [i \in 1..n |-> IF i = 1 THEN lists[i] ELSE g[i - 1] \o lists[i]]
           G == CHOOSE g : Rec(g)
<1>1. n \in Nat /\ <<>> \in X /\ \A i \in 1..n : lists[i] \in X /\ i - 1 \in 0..n /\ i \in 0..n
  OBVIOUS
<1>2. PICK f : IsRun(f, n, X, <<>>, F)
  <2>1. \A i \in 1..n, x \in X : x \o lists[i] \in X
    <3> TAKE i \in 1..n, x \in X
    <3> DEFINE y == lists[i]
    <3>1. y \in X
      BY <1>1
    <3> HIDE DEF y
    <3>2. x \o y \in X
      BY <3>1
    <3> QED
      BY <3>2 DEF y
  <2>2. F \in [1..n -> [X -> X]]
    <3> HIDE DEF n, X
    <3> QED
      BY <2>1
  <2> HIDE DEF F, X, n
  <2> QED
    BY <1>1, <2>2, LoopRuns
<1>3. f \in [0..n -> X] /\ f[0] = <<>> /\ \A i \in 1..n : f[i] = f[i - 1] \o lists[i]
  <2> HIDE DEF X, n
  <2> QED
    BY <1>1, <1>2 DEF IsRun
<1>4. IsFlattening(f, n, lists)
  BY <1>3 DEF IsFlattening
<1>5. CASE n = 0
  <2>1. lists = <<>>
    BY <1>5
  <2>2. FlattenSeq(lists) = <<>>
    BY <1>5, <2>1 DEF FlattenSeq
  <2> QED
    BY <1>3, <1>4, <1>5, <2>2
<1>6. CASE n # 0
  <2> DEFINE g == [i \in 1..n |-> f[i]]
  <2>1. f[1] = lists[1]
    <3> DEFINE y == lists[1]
    <3>1. 1 \in 1..n /\ 1 - 1 = 0
      BY <1>1, <1>6
    <3>2. y \in X /\ f[1] = <<>> \o y
      BY <1>1, <1>3, <3>1
    <3> HIDE DEF y
    <3>3. <<>> \o y = y
      BY <3>2
    <3> QED
      BY <3>2, <3>3 DEF y
  <2>2. Rec(g)
    <3>1. \A i \in 1..n : i # 1 => i - 1 \in 1..n
      BY <1>1
    <3> HIDE DEF n
    <3> QED
      BY <1>3, <2>1, <3>1
  <2>3. Rec(G)
    <3> HIDE DEF Rec, g
    <3> QED
      BY <2>2
  <2>4. FlattenSeq(lists) = G[n]
    BY <1>6 DEF FlattenSeq
  <2> HIDE DEF G
  <2> DEFINE T == {i \in 0..n : i # 0 => G[i] = f[i]}
  <2>5. 0 \in T
    BY <1>1
  <2>6. ASSUME NEW i \in 1..n, i - 1 \in T PROVE i \in T
    <3>1. G[i] = IF i = 1 THEN lists[i] ELSE G[i - 1] \o lists[i]
      BY <2>3
    <3>2. i \in 0..n /\ (i # 1 => i - 1 # 0)
      BY <1>1
    <3> HIDE DEF n
    <3>3. CASE i = 1
      BY <2>1, <3>1, <3>2, <3>3
    <3>4. CASE i # 1
      BY <1>3, <2>6, <3>1, <3>2, <3>4
    <3> QED
      BY <3>3, <3>4
  <2> HIDE DEF T, n
  <2>7. \A i \in 0..n : i \in T
    BY <1>1, <2>5, <2>6, CountUp, Zenon
  <2>8. n \in T
    BY <1>1, <2>7
  <2> QED
    BY <1>4, <1>6, <2>4, <2>8 DEF T, n
<1> QED
  BY <1>5, <1>6

\* The operations of a list of payloads.
OperationsOf(its) == FlattenSeq([i \in DOMAIN its |-> RefineV1(its[i])])

\* The payloads of an accumulation do in version 1 what their checked
\* operations do in version 2, batch after batch.
LEMMA PayloadsDoTheSame ==
  ASSUME NEW s \in LedgerState, NEW its \in Seq(Seq(SignedOperation))
  PROVE  /\ OperationsOf(its) \in Seq(Proper)
         /\ ProcessAll(s, OperationsOf(its))
              = Transitions(s, [i \in DOMAIN its |-> Checked(its[i])])
<1> DEFINE n == Len(its)
           lists == [i \in DOMAIN its |-> RefineV1(its[i])]
           batches == [i \in DOMAIN its |-> Checked(its[i])]
<1>1. n \in Nat /\ DOMAIN its = 1..n /\ \A i \in 1..n : its[i] \in Seq(SignedOperation) /\ i - 1 \in 0..n /\ i \in 0..n
  OBVIOUS
<1>2. \A i \in 1..n : /\ lists[i] = RefineV1(its[i]) /\ lists[i] \in Seq(Proper)
                      /\ batches[i] = Checked(its[i]) /\ batches[i] \in Seq(SignedOperation)
  <2> TAKE i \in 1..n
  <2>1. RefineV1(its[i]) \in Seq(Proper)
    BY <1>1, RefineV1Type
  <2>2. Checked(its[i]) \in Seq(SignedOperation)
    <3>1. Checked(its[i]) \in Seq(ValidSigned)
      BY <1>1, CheckedType
    <3> DEFINE c == Checked(its[i])
    <3> HIDE DEF c
    <3>2. c \in Seq(SignedOperation)
      BY <3>1 DEF ValidSigned, c
    <3> QED
      BY <3>2 DEF c
  <2> HIDE DEF n
  <2> QED
    BY <1>1, <2>1, <2>2
<1>3. lists \in Seq(Seq(Proper)) /\ Len(lists) = n /\ Len(batches) = n
  <2>1. lists \in [1..n -> Seq(Proper)] /\ DOMAIN batches = 1..n
    <3> HIDE DEF n
    <3> QED
      BY <1>1, <1>2
  <2> HIDE DEF lists, batches, n
  <2> QED
    BY <1>1, <2>1
<1>4. OperationsOf(its) = FlattenSeq(lists)
  BY DEF OperationsOf
<1> HIDE DEF n, lists, batches
<1>5. PICK f : IsFlattening(f, n, lists) /\ FlattenSeq(lists) = f[n]
  BY <1>3, FlattenRun
<1>6. PICK r : IsBatchRun(r, n, s, batches)
  BY <1>1, <1>2, <1>3, TransitionsRun
<1>7. Transitions(s, batches) = r[n]
  BY <1>1, <1>2, <1>3, <1>6, TransitionsRun
<1> DEFINE T == {i \in 0..n : ProcessAll(s, f[i]) = r[i]}
<1>8. 0 \in T
  <2>1. ProcessAll(s, <<>>) = s
    BY ProcessFirstStep DEF ProcessAll
  <2>2. 0 \in 0..n
    BY <1>1
  <2> QED
    BY <1>5, <1>6, <2>1, <2>2 DEF IsFlattening, IsBatchRun
<1>9. ASSUME NEW i \in 1..n, i - 1 \in T PROVE i \in T
  <2> DEFINE a == f[i - 1]
             q == r[i - 1]
             b == lists[i]
  <2>1. /\ a \in Seq(Proper) /\ q \in LedgerState /\ b \in Seq(Proper)
        /\ f[i] = a \o b /\ r[i] = Transition(q, batches[i]) /\ ProcessAll(s, a) = q
        /\ i \in 0..n
    BY <1>1, <1>2, <1>5, <1>6, <1>9 DEF IsFlattening, IsBatchRun
  <2>2. ProcessAll(q, b) = Transition(q, batches[i])
    BY <1>1, <1>2, <2>1, PayloadDoesTheSame
  <2> HIDE DEF a, q, b
  <2>3. ProcessAll(s, a \o b) = ProcessAll(ProcessAll(s, a), b)
    BY <2>1, ProcessConcat
  <2> QED
    BY <2>1, <2>2, <2>3
<1> HIDE DEF T
<1>10. \A i \in 0..n : i \in T
  BY <1>1, <1>8, <1>9, CountUp, Zenon
<1>11. n \in T /\ f[n] \in Seq(Proper)
  BY <1>1, <1>5, <1>10 DEF IsFlattening
<1> QED
  BY <1>4, <1>5, <1>7, <1>11 DEF T, batches

-----------------------------------------------------------------------------
(* Writes. *)

\* What the two kinds of write leave when the host allows them.
BalanceWritten(s, t, a, v) ==
  [ledger |-> [s.ledger EXCEPT !.bal[t][a] = v], entries |-> s.entries \cup {<<t, a>>}]
KnownWritten(s, t) == [s EXCEPT !.ledger.known = @ \cup {t}]

\* A ledger with one balance replaced.
WithBalance(l, t, a, v) ==
  [known |-> l.known, bal |-> [l.bal EXCEPT ![t] = [l.bal[t] EXCEPT ![a] = v]]]

\* They leave a storage, and its ledger is the old one with one value changed.
LEMMA WrittenTypes ==
  ASSUME NEW s \in Storage, NEW t \in TokenIds, NEW a \in Account, NEW v \in U64
  PROVE  /\ BalanceWritten(s, t, a, v) \in Storage
         /\ BalanceWritten(s, t, a, v).ledger = WithBalance(s.ledger, t, a, v)
         /\ KnownWritten(s, t) \in Storage
         /\ KnownWritten(s, t).ledger = [known |-> s.ledger.known \cup {t}, bal |-> s.ledger.bal]
<1> DEFINE l == s.ledger
           b == l.bal[t]
           c == [b EXCEPT ![a] = v]
           m == [known |-> l.known, bal |-> [l.bal EXCEPT ![t] = c]]
           k == [known |-> l.known \cup {t}, bal |-> l.bal]
<1>1. /\ s = [ledger |-> l, entries |-> s.entries] /\ l \in LedgerState
      /\ s.entries \in SUBSET Entry /\ <<t, a>> \in Entry
  BY DEF Storage, Entry
<1>2. l = [known |-> l.known, bal |-> l.bal] /\ l.known \in SUBSET TokenIds
      /\ l.bal \in [TokenIds -> [Account -> U64]] /\ b \in [Account -> U64]
  BY <1>1 DEF LedgerState
<1> HIDE DEF l, b
<1>3. c \in [Account -> U64]
  BY <1>2
<1>4. m \in LedgerState /\ k \in LedgerState
  <2> HIDE DEF c
  <2> QED
    BY <1>2, <1>3 DEF LedgerState
<1>5. [l EXCEPT !.bal[t][a] = v] = m
  BY <1>2 DEF b
<1>6. BalanceWritten(s, t, a, v) = [ledger |-> m, entries |-> s.entries \cup {<<t, a>>}]
  BY <1>5 DEF BalanceWritten, l
<1>7. KnownWritten(s, t) = [ledger |-> k, entries |-> s.entries]
  <2>1. [l EXCEPT !.known = @ \cup {t}] = k
    <3> DEFINE x == l.known \cup {t}
    <3>1. [l EXCEPT !.known = @ \cup {t}] = [l EXCEPT !.known = x] /\ k = [known |-> x, bal |-> l.bal]
      OBVIOUS
    <3> HIDE DEF x
    <3>2. [l EXCEPT !.known = x] = [known |-> x, bal |-> l.bal]
      BY <1>2
    <3> QED
      BY <3>1, <3>2
  <2>2. KnownWritten(s, t) = [s EXCEPT !.ledger = [l EXCEPT !.known = @ \cup {t}]]
    BY DEF KnownWritten, l
  <2> HIDE DEF k
  <2> QED
    BY <1>1, <2>1, <2>2
<1>8. BalanceWritten(s, t, a, v) \in Storage /\ BalanceWritten(s, t, a, v).ledger = m
  <2> HIDE DEF m
  <2> QED
    BY <1>1, <1>4, <1>6 DEF Storage
<1>9. KnownWritten(s, t) \in Storage /\ KnownWritten(s, t).ledger = k
  <2> HIDE DEF k
  <2> QED
    BY <1>1, <1>4, <1>7 DEF Storage
<1> QED
  BY <1>8, <1>9 DEF l, b, WithBalance

\* A write leaves a storage, whether the host allows it or not.
LEMMA WriteTypes ==
  ASSUME NEW s \in Storage, NEW t \in TokenIds
  PROVE  /\ WriteKnown(s, t) \in Storage
         /\ \A a \in Account, v \in U64 : WriteBalance(s, t, a, v) \in Storage
<1>1. ASSUME NEW a \in Account, NEW v \in U64
      PROVE  WriteBalance(s, t, a, v) \in Storage
  BY WrittenTypes DEF WriteBalance, Write, BalanceWritten
<1>2. WriteKnown(s, t) \in Storage
  <2>1. 1 \in Account /\ 0 \in U64
    BY TokenOpsAssumption, Ranges DEF Account
  <2>2. KnownWritten(s, t) \in Storage
    BY <2>1, WrittenTypes
  <2> QED
    BY <2>2 DEF WriteKnown, Write, KnownWritten
<1> QED
  BY <1>1, <1>2

\* The deposit of the service pays for every token and every balance there is.
RoomForAll == Cardinality(TokenIds) + Cardinality(Entry) <= Capacity

\* Then no write fails.
LEMMA WriteSucceeds ==
  ASSUME RoomForAll, NEW old, NEW new \in Storage
  PROVE  Write(old, new) = new
<1>1. IsFiniteSet(TokenIds) /\ IsFiniteSet(Entry)
  <2>1. IsFiniteSet(TokenIds) /\ IsFiniteSet(Account)
    BY TokenOpsAssumption, FS_Interval DEF Account
  <2> QED
    BY <2>1, FS_Product DEF Entry
<1>2. new.ledger.known \in SUBSET TokenIds /\ new.entries \in SUBSET Entry
  BY DEF Storage, LedgerState
<1>3. /\ IsFiniteSet(new.ledger.known) /\ IsFiniteSet(new.entries)
      /\ Cardinality(new.ledger.known) <= Cardinality(TokenIds)
      /\ Cardinality(new.entries) <= Cardinality(Entry)
  BY <1>1, <1>2, FS_Subset
<1>4. /\ Cardinality(new.ledger.known) \in Nat /\ Cardinality(new.entries) \in Nat
      /\ Cardinality(TokenIds) \in Nat /\ Cardinality(Entry) \in Nat
  BY <1>1, <1>3, FS_CardinalityType
<1>5. Footprint(new) <= Capacity
  BY <1>3, <1>4, LedgerServiceV1Assumption DEF Footprint, RoomForAll
<1> QED
  BY <1>5 DEF Write

-----------------------------------------------------------------------------
(* Types.  The operations are those of the payloads, and the calls after   *)
(* the first belong to one of them.                                        *)

ItemsInv ==
  /\ ops = OperationsOf(items)
  /\ ops \in Seq(Proper)
  /\ pc \in {"credit", "checkpoint"} => OpsLeft

TypeInv == TypeOK /\ ItemsInv

\* The payloads of an accumulation.
LEMMA ItemsFacts ==
  /\ \A its \in BoundedSeq(Payloads, MaxItems) :
       /\ its \in Seq(Seq(SignedOperation))
       /\ OperationsOf(its) \in Seq(Proper) /\ OperationsOf(its) \in Seq(Operation)
  /\ <<>> \in BoundedSeq(Payloads, MaxItems) /\ OperationsOf(<<>>) = <<>>
<1>1. ASSUME NEW its \in BoundedSeq(Payloads, MaxItems)
      PROVE  /\ its \in Seq(Seq(SignedOperation))
             /\ OperationsOf(its) \in Seq(Proper) /\ OperationsOf(its) \in Seq(Operation)
  <2>1. PICK m \in 0..MaxItems : its \in [1..m -> Payloads]
    BY <1>1 DEF BoundedSeq, SeqOf
  <2>2. m \in Nat
    BY LedgerServiceV1Assumption
  <2>3. its \in [1..m -> Seq(SignedOperation)]
    BY <2>1, LedgerServiceV1Assumption
  <2>4. its \in Seq(Seq(SignedOperation))
    BY <2>2, <2>3
  <2>5. OperationsOf(its) \in Seq(Proper)
    <3>1. EmptyLedger \in LedgerState
      BY EmptyLawful DEF Lawful
    <3> QED
      BY <2>4, <3>1, PayloadsDoTheSame
  <2> DEFINE w == OperationsOf(its)
  <2> HIDE DEF w
  <2>6. w \in Seq(Proper) => w \in Seq(Operation)
    BY DEF Proper
  <2> QED
    BY <2>4, <2>5, <2>6 DEF w
<1>2. <<>> \in BoundedSeq(Payloads, MaxItems)
  <2>1. 0 \in 0..MaxItems /\ <<>> \in [1..0 -> Payloads]
    BY LedgerServiceV1Assumption
  <2> QED
    BY <2>1 DEF BoundedSeq, SeqOf
<1>3. OperationsOf(<<>>) = <<>>
  <2> DEFINE e == [i \in DOMAIN <<>> |-> RefineV1(<<>>[i])]
  <2>1. e = <<>>
    OBVIOUS
  <2>2. FlattenSeq(<<>>) = <<>>
    BY DEF FlattenSeq
  <2>3. OperationsOf(<<>>) = FlattenSeq(e)
    BY DEF OperationsOf
  <2> HIDE DEF e
  <2> QED
    BY <2>1, <2>2, <2>3
<1> QED
  BY <1>1, <1>2, <1>3

\* What is known of the operation the loops are at.
LEMMA CurrentFacts ==
  ASSUME TypeInv, OpsLeft
  PROVE  /\ Current \in Proper /\ next \in 1..Len(ops) /\ next + 1 \in 1..(Len(ops) + 1)
         /\ Current.type \in {"Mint", "Transfer"} /\ Current.to \in Account
         /\ Current.token_id \in TokenIds /\ Current.amount \in U64
         /\ Current.type = "Transfer" => Current.from \in Account /\ Current.from # Current.to
<1>1. next \in 1..Len(ops) /\ next + 1 \in 1..(Len(ops) + 1)
  BY DEF TypeInv, TypeOK, OpsLeft
<1>2. Current \in Proper
  BY <1>1 DEF TypeInv, ItemsInv, Current
<1> QED
  BY <1>1, <1>2, ProperFacts

\* The end of an invocation.
LEMMA EndTypeInv ==
  ASSUME TypeInv, Return \/ OutOfGas
  PROVE  TypeInv'
<1>1. PICK result \in Storage : EndInvocation(result)
  BY DEF TypeInv, TypeOK, Return, OutOfGas
<1>2. TypeOK'
  <2>1. NoReads \in [from : U64, to : U64]
    BY Ranges DEF NoReads
  <2>2. 1 \in 1..(Len(<<>>) + 1) /\ <<>> \in Seq(Operation)
    OBVIOUS
  <2> QED
    BY <1>1, <2>1, <2>2, ItemsFacts DEF EndInvocation, TypeOK
<1>3. ItemsInv'
  BY <1>1, ItemsFacts DEF EndInvocation, ItemsInv
<1> QED
  BY <1>2, <1>3 DEF TypeInv

\* The steps between host calls.
LEMMA LoopTypeInv ==
  ASSUME TypeInv, (\E its \in BoundedSeq(Payloads, MaxItems) : Accumulate(its)) \/ Refuse \/ Checkpoint
  PROVE  TypeInv'
<1>1. CASE \E its \in BoundedSeq(Payloads, MaxItems) : Accumulate(its)
  <2>1. PICK its \in BoundedSeq(Payloads, MaxItems) : Accumulate(its)
    BY <1>1
  <2>2. ops' = OperationsOf(its)
    BY <2>1 DEF Accumulate, OperationsOf
  <2>3. ops' \in Seq(Proper) /\ ops' \in Seq(Operation)
    BY <2>2, ItemsFacts
  <2>4. next' \in 1..(Len(ops') + 1)
    BY <2>1, <2>3 DEF Accumulate
  <2>5. TypeOK'
    BY <2>1, <2>3, <2>4 DEF Accumulate, TypeInv, TypeOK
  <2>6. ItemsInv'
    BY <2>1, <2>2, <2>3 DEF Accumulate, ItemsInv
  <2> QED
    BY <2>5, <2>6 DEF TypeInv
<1>2. CASE Refuse
  <2>1. next + 1 \in 1..(Len(ops) + 1)
    BY <1>2, CurrentFacts DEF Refuse
  <2>2. TypeOK'
    BY <1>2, <2>1 DEF Refuse, TypeInv, TypeOK
  <2>3. ItemsInv'
    BY <1>2 DEF Refuse, TypeInv, ItemsInv
  <2> QED
    BY <2>2, <2>3 DEF TypeInv
<1>3. CASE Checkpoint
  <2>1. next + 1 \in 1..(Len(ops) + 1)
    BY <1>3, CurrentFacts DEF Checkpoint, TypeInv, ItemsInv
  <2>2. NoReads \in [from : U64, to : U64]
    BY Ranges DEF NoReads
  <2>3. TypeOK'
    BY <1>3, <2>1, <2>2 DEF Checkpoint, TypeInv, TypeOK
  <2>4. ItemsInv'
    BY <1>3 DEF Checkpoint, TypeInv, ItemsInv
  <2> QED
    BY <2>3, <2>4 DEF TypeInv
<1> QED
  BY <1>1, <1>2, <1>3

\* A balance of a storage.
LEMMA BalanceType ==
  ASSUME NEW s \in Storage, NEW t \in TokenIds, NEW a \in Account
  PROVE  s.ledger \in LedgerState /\ s.ledger.bal[t][a] \in U64
BY DEF Storage, LedgerState

\* The host calls that write.
LEMMA WriteTypeInv ==
  ASSUME TypeInv, MintKnown \/ Debit \/ Credit
  PROVE  TypeInv'
<1> DEFINE op == Current
<1>1. OpsLeft
  BY DEF MintKnown, Debit, Credit, TypeInv, ItemsInv
<1>2. /\ op.type \in {"Mint", "Transfer"} /\ op.to \in Account
      /\ op.token_id \in TokenIds /\ op.amount \in U64
      /\ op.type = "Transfer" => op.from \in Account
  BY <1>1, CurrentFacts
<1>3. store \in Storage /\ reads \in [from : U64, to : U64] /\ reads.to \in U64
  BY DEF TypeInv, TypeOK
<1>4. store' \in Storage /\ reads' \in [from : U64, to : U64]
  <2>1. CASE MintKnown
    <3>1. store.ledger.bal[op.token_id][op.to] \in U64
      BY <1>2, <1>3, BalanceType
    <3>2. reads' = [from |-> 0, to |-> store.ledger.bal[op.token_id][op.to]]
      BY <2>1 DEF MintKnown, NoReads
    <3>3. store' \in Storage
      BY <1>2, <1>3, <2>1, WriteTypes DEF MintKnown
    <3> QED
      BY <3>1, <3>2, <3>3, Ranges
  <2>2. CASE Debit
    <3> DEFINE b == store.ledger.bal[op.token_id]
    <3>1. op.type = "Transfer" /\ ~TransferRefused(store.ledger, op)
      BY <2>2 DEF Debit
    <3>2. b[op.from] \in U64 /\ b[op.to] \in U64
      BY <1>2, <1>3, <3>1, BalanceType
    <3>3. ~(b[op.from] < op.amount)
      BY <3>1 DEF TransferRefused
    <3>4. /\ reads' = [from |-> b[op.from], to |-> b[op.to]]
          /\ store' = WriteBalance(store, op.token_id, op.from, b[op.from] - op.amount)
      BY <2>2 DEF Debit
    <3> HIDE DEF b, op
    <3>5. b[op.from] - op.amount \in U64
      BY <1>2, <3>2, <3>3, Ranges
    <3> QED
      BY <1>2, <1>3, <3>1, <3>2, <3>4, <3>5, WriteTypes
  <2>3. CASE Credit
    <3>1. SaturatingAdd(reads.to, op.amount) \in U64
      BY <1>2, <1>3, SaturatingType
    <3> QED
      BY <1>2, <1>3, <2>3, <3>1, WriteTypes DEF Credit
  <2> QED
    BY <2>1, <2>2, <2>3
<1>5. /\ UNCHANGED <<saved, start, items, ops, next>>
      /\ pc' \in {"credit", "checkpoint"}
  BY DEF MintKnown, Debit, Credit
<1>6. TypeOK'
  BY <1>4, <1>5 DEF TypeInv, TypeOK
<1>7. ItemsInv'
  BY <1>1, <1>5 DEF TypeInv, ItemsInv, OpsLeft
<1> QED
  BY <1>6, <1>7 DEF TypeInv

\* No storage the service starts with is untyped.
LEMMA EmptyStorageType == EmptyStorage \in Storage /\ Lawful(EmptyStorage.ledger)
<1>1. Lawful(EmptyLedger)
  BY EmptyLawful
<1> QED
  BY <1>1 DEF EmptyStorage, Storage, Lawful

\* TypeInv is inductive.
LEMMA TypeInvariance ==
  /\ Init => TypeInv
  /\ TypeInv /\ [Next]_vars => TypeInv'
<1>1. ASSUME Init PROVE TypeInv
  <2>1. NoReads \in [from : U64, to : U64]
    BY Ranges DEF NoReads
  <2>2. 1 \in 1..(Len(<<>>) + 1) /\ <<>> \in Seq(Operation) /\ <<>> \in Seq(Proper)
    OBVIOUS
  <2>3. TypeOK
    BY <1>1, <2>1, <2>2, ItemsFacts, EmptyStorageType DEF Init, TypeOK
  <2>4. ItemsInv
    BY <1>1, <2>2, ItemsFacts DEF Init, ItemsInv
  <2> QED
    BY <2>3, <2>4 DEF TypeInv
<1>2. ASSUME TypeInv, Next PROVE TypeInv'
  BY <1>2, EndTypeInv, LoopTypeInv, WriteTypeInv DEF Next
<1>3. ASSUME TypeInv, UNCHANGED vars PROVE TypeInv'
  BY <1>3 DEF vars, TypeInv, TypeOK, ItemsInv, OpsLeft
<1> QED
  BY <1>1, <1>2, <1>3

\* The variables keep their types whatever the deposit pays for: no balance
\* leaves u64 and the loops stay within the operations they were given.
THEOREM V1Types == Spec => []TypeOK
<1>1. TypeInv => TypeOK
  BY DEF TypeInv
<1> QED
  BY <1>1, TypeInvariance, PTL DEF Spec

-----------------------------------------------------------------------------
(* Whole operations.  Between operations the invocation sees what a        *)
(* failure falls back to; within one it is one or two writes ahead.        *)

\* Does the operation return early?
Refused(s, op) ==
  \/ op.type = "Mint" /\ MintRefused(s, op)
  \/ op.type = "Transfer" /\ TransferRefused(s, op)

\* The ledger after the first of the two writes of an operation.
AfterFirstWrite(s, op) ==
  IF op.type = "Mint"
  THEN [known |-> s.known \cup {op.token_id}, bal |-> s.bal]
  ELSE WithBalance(s, op.token_id, op.from, s.bal[op.token_id][op.from] - op.amount)

ProgressInv ==
  /\ pc \in {"idle", "operation"} => store = saved
  /\ pc = "idle" => start = saved
  /\ pc = "credit" => /\ ~Refused(saved.ledger, Current)
                      /\ store.ledger = AfterFirstWrite(saved.ledger, Current)
                      /\ reads.to = saved.ledger.bal[Current.token_id][Current.to]
  /\ pc = "checkpoint" => store.ledger = ProcessOperation(saved.ledger, Current)

V1Inv == TypeInv /\ ProgressInv /\ CheckpointExact /\ Lawful(saved.ledger)

\* The second write completes the operation.
LEMMA SecondWrite ==
  ASSUME NEW l \in LedgerState, NEW op \in Proper, ~Refused(l, op)
  PROVE  ProcessOperation(l, op) =
           WithBalance(AfterFirstWrite(l, op), op.token_id, op.to,
                       SaturatingAdd(l.bal[op.token_id][op.to], op.amount))
<1> DEFINE t == op.token_id
           b == l.bal[t]
           v == SaturatingAdd(b[op.to], op.amount)
<1>1. /\ op.type \in {"Mint", "Transfer"} /\ t \in TokenIds
      /\ l.bal \in [TokenIds -> [Account -> U64]]
  BY ProperFacts DEF LedgerState
<1>2. CASE op.type = "Mint"
  <2>1. ~MintRefused(l, op)
    BY <1>2 DEF Refused
  <2> QED
    BY <1>2, <2>1 DEF ProcessOperation, ProcessMint, AfterFirstWrite, WithBalance
<1>3. CASE op.type = "Transfer"
  <2> DEFINE d == [b EXCEPT ![op.from] = b[op.from] - op.amount]
             f == [l.bal EXCEPT ![t] = d]
  <2>1. ~TransferRefused(l, op)
    BY <1>3 DEF Refused
  <2>2. AfterFirstWrite(l, op) = [known |-> l.known, bal |-> f]
    BY <1>3 DEF AfterFirstWrite, WithBalance
  <2>3. ProcessOperation(l, op) =
          [known |-> l.known, bal |-> [l.bal EXCEPT ![t] = [d EXCEPT ![op.to] = v]]]
    BY <1>3, <2>1 DEF ProcessOperation, ProcessTransfer
  <2> HIDE DEF d, v, b
  <2>4. f[t] = d /\ \A e : [f EXCEPT ![t] = e] = [l.bal EXCEPT ![t] = e]
    BY <1>1
  <2> HIDE DEF f
  <2> QED
    BY <2>2, <2>3, <2>4 DEF v, b, WithBalance
<1> QED
  BY <1>1, <1>2, <1>3

\* One operation turns a lawful ledger into a lawful successor.
LEMMA OperationFollows ==
  ASSUME NEW l, Lawful(l), NEW op \in Proper
  PROVE  Follows(l, ProcessOperation(l, op))
<1> DEFINE r == ProcessOperation(l, op)
<1>1. /\ op.type \in {"Mint", "Transfer"} /\ op.to \in Account
      /\ op.token_id \in TokenIds /\ op.amount \in U64 /\ op.amount # 0
      /\ op.type = "Transfer" => op.from \in Account /\ op.from # op.to
  BY ProperFacts
<1>2. l.known \subseteq TokenIds
  BY DEF Lawful, LedgerState
<1>3. CASE Refused(l, op)
  <2>1. r = l
    BY <1>1, <1>3 DEF Refused, ProcessOperation, ProcessMint, ProcessTransfer
  <2> QED
    BY <2>1, FollowsOn
<1>4. CASE ~Refused(l, op) /\ op.type = "Mint"
  <2>1. ~MintRefused(l, op) /\ r = ProcessMint(l, op)
    BY <1>4 DEF Refused, ProcessOperation
  <2>2. /\ Lawful(r) /\ r.known = l.known \cup {op.token_id}
        /\ Total(r.bal[op.token_id]) = op.amount
        /\ \A t \in TokenIds \ {op.token_id} : r.bal[t] = l.bal[t]
    BY <1>1, <2>1, MintSupply
  <2>3. op.token_id \notin l.known
    BY <2>1 DEF MintRefused
  <2>4. op.amount \in 1..U64Max
    BY <1>1, Ranges
  <2> HIDE DEF r
  <2>5. Follows(l, r)
    BY <1>2, <2>2, <2>3, <2>4 DEF Follows
  <2> QED
    BY <2>5 DEF r
<1>5. CASE ~Refused(l, op) /\ op.type = "Transfer"
  <2>1. ~TransferRefused(l, op) /\ r = ProcessTransfer(l, op)
    BY <1>5 DEF Refused, ProcessOperation
  <2>2. /\ Lawful(r) /\ r.known = l.known
        /\ \A t \in TokenIds : Total(r.bal[t]) = Total(l.bal[t])
    BY <1>1, <1>5, <2>1, TransferSupply
  <2> HIDE DEF r
  <2>3. Follows(l, r)
    BY <1>2, <2>2 DEF Follows
  <2> QED
    BY <2>3 DEF r
<1> QED
  BY <1>1, <1>3, <1>4, <1>5

\* The state after one operation more.
LEMMA OneOperation ==
  ASSUME V1Inv, OpsLeft
  PROVE  /\ ProcessFirst(start.ledger, next, ops) = ProcessOperation(saved.ledger, Current)
         /\ start.ledger \in LedgerState /\ saved.ledger \in LedgerState /\ Current \in Proper
<1>1. /\ next \in 1..Len(ops) /\ ops \in Seq(Proper) /\ Current \in Proper
  BY CurrentFacts DEF V1Inv, TypeInv, ItemsInv
<1>2. /\ next \in Nat /\ next # 0 /\ \A i \in 1..next : ops[i] \in Proper
  BY <1>1
<1>3. start.ledger \in LedgerState /\ saved.ledger \in LedgerState
  BY DEF V1Inv, TypeInv, TypeOK, Storage
<1>4. ProcessFirst(start.ledger, next, ops) =
        ProcessOperation(ProcessFirst(start.ledger, next - 1, ops), ops[next])
  BY <1>2, <1>3, ProcessFirstStep
<1> QED
  BY <1>1, <1>3, <1>4 DEF V1Inv, CheckpointExact, Current

\* Beginning and ending an invocation.
LEMMA BoundaryInv ==
  ASSUME V1Inv, TypeInv',
         (\E its \in BoundedSeq(Payloads, MaxItems) : Accumulate(its)) \/ Return \/ OutOfGas
  PROVE  V1Inv'
<1>1. /\ next' = 1 /\ start' = saved /\ store' = saved /\ saved' = saved
      /\ pc' \in {"idle", "operation"}
  BY DEF V1Inv, ProgressInv, Accumulate, Return, OutOfGas, EndInvocation
<1>2. saved.ledger \in LedgerState
  BY DEF V1Inv, TypeInv, TypeOK, Storage
<1>3. CheckpointExact'
  <2>1. ProcessFirst(saved.ledger, 0, ops') = saved.ledger
    BY <1>2, ProcessFirstStep
  <2>2. next' - 1 = 0
    BY <1>1
  <2> QED
    BY <1>1, <2>1, <2>2 DEF CheckpointExact
<1>4. ProgressInv'
  BY <1>1 DEF ProgressInv
<1> QED
  BY <1>1, <1>3, <1>4 DEF V1Inv

\* An operation that is refused.
LEMMA RefuseInv ==
  ASSUME V1Inv, TypeInv', Refuse
  PROVE  V1Inv'
<1>1. store = saved /\ Refused(saved.ledger, Current)
  BY DEF V1Inv, ProgressInv, Refuse, Refused
<1>2. ProcessOperation(saved.ledger, Current) = saved.ledger
  BY <1>1 DEF Refused, ProcessOperation, ProcessMint, ProcessTransfer
<1>3. /\ UNCHANGED <<store, saved, start, ops, pc>> /\ next' = next + 1 /\ pc = "operation"
      /\ (next + 1) - 1 = next
  BY DEF Refuse, V1Inv, TypeInv, TypeOK
<1>4. CheckpointExact'
  BY <1>2, <1>3, OneOperation DEF Refuse, CheckpointExact
<1>5. ProgressInv'
  BY <1>1, <1>3 DEF ProgressInv
<1> QED
  BY <1>3, <1>4, <1>5 DEF V1Inv

\* The first write of an operation.
LEMMA FirstWriteInv ==
  ASSUME RoomForAll, V1Inv, TypeInv', MintKnown \/ Debit
  PROVE  V1Inv'
<1> DEFINE op == Current
           l == saved.ledger
<1>1. /\ UNCHANGED <<saved, start, ops, next>> /\ pc' = "credit" /\ OpsLeft
      /\ store = saved /\ Current' = Current
  BY DEF V1Inv, ProgressInv, MintKnown, Debit, Current
<1>2. /\ op \in Proper /\ op.type \in {"Mint", "Transfer"} /\ op.to \in Account
      /\ op.token_id \in TokenIds /\ op.amount \in U64
      /\ op.type = "Transfer" => op.from \in Account
  BY <1>1, CurrentFacts DEF V1Inv
<1>3. saved \in Storage /\ l \in LedgerState
  BY DEF V1Inv, TypeInv, TypeOK, Storage
<1>4. ~Refused(l, op)
  BY <1>1 DEF MintKnown, Debit, Refused
<1>5. store'.ledger = AfterFirstWrite(l, op) /\ reads'.to = l.bal[op.token_id][op.to]
  <2>1. CASE MintKnown
    <3>1. 0 \in U64
      BY Ranges
    <3>2. /\ KnownWritten(saved, op.token_id) \in Storage
          /\ KnownWritten(saved, op.token_id).ledger = [known |-> l.known \cup {op.token_id}, bal |-> l.bal]
      BY <1>2, <1>3, <3>1, WrittenTypes
    <3>3. store' = KnownWritten(saved, op.token_id)
      <4>1. store' = Write(saved, KnownWritten(saved, op.token_id))
        BY <1>1, <2>1 DEF MintKnown, WriteKnown, KnownWritten
      <4> QED
        BY <3>2, <4>1, WriteSucceeds
    <3>4. op.type = "Mint" /\ reads'.to = l.bal[op.token_id][op.to]
      BY <1>1, <2>1 DEF MintKnown, NoReads
    <3> QED
      BY <3>2, <3>3, <3>4 DEF AfterFirstWrite
  <2>2. CASE Debit
    <3> DEFINE b == l.bal[op.token_id]
               w == b[op.from] - op.amount
    <3>1. op.type = "Transfer" /\ ~TransferRefused(l, op)
      BY <1>1, <2>2 DEF Debit
    <3>2. b[op.from] \in U64 /\ ~(b[op.from] < op.amount)
      BY <1>2, <1>3, <3>1, BalanceType DEF TransferRefused
    <3>3. /\ reads'.to = b[op.to]
          /\ store' = Write(saved, BalanceWritten(saved, op.token_id, op.from, w))
      BY <1>1, <2>2 DEF Debit, WriteBalance, BalanceWritten
    <3>4. w \in U64
      <4> HIDE DEF b, op
      <4> QED
        BY <1>2, <3>2, Ranges
    <3> HIDE DEF w
    <3>5. /\ BalanceWritten(saved, op.token_id, op.from, w) \in Storage
          /\ BalanceWritten(saved, op.token_id, op.from, w).ledger = WithBalance(l, op.token_id, op.from, w)
      BY <1>2, <1>3, <3>1, <3>4, WrittenTypes
    <3>6. store' = BalanceWritten(saved, op.token_id, op.from, w)
      BY <3>3, <3>5, WriteSucceeds
    <3> QED
      BY <3>1, <3>3, <3>5, <3>6 DEF AfterFirstWrite, w
  <2> QED
    BY <2>1, <2>2
<1>6. ProgressInv'
  BY <1>1, <1>4, <1>5 DEF ProgressInv
<1>7. CheckpointExact'
  BY <1>1 DEF V1Inv, CheckpointExact
<1> QED
  BY <1>1, <1>6, <1>7 DEF V1Inv

\* The second write.
LEMMA SecondWriteInv ==
  ASSUME RoomForAll, V1Inv, TypeInv', Credit
  PROVE  V1Inv'
<1> DEFINE op == Current
           t == op.token_id
           l == saved.ledger
           m == AfterFirstWrite(l, op)
           v == SaturatingAdd(l.bal[t][op.to], op.amount)
<1>1. /\ UNCHANGED <<saved, start, ops, next>> /\ pc' = "checkpoint" /\ OpsLeft
      /\ ~Refused(l, op) /\ store.ledger = m /\ reads.to = l.bal[t][op.to] /\ Current' = Current
  BY DEF V1Inv, TypeInv, ItemsInv, ProgressInv, Credit, Current
<1>2. /\ op \in Proper /\ op.to \in Account /\ t \in TokenIds /\ op.amount \in U64
  BY <1>1, CurrentFacts DEF V1Inv
<1>3. store \in Storage /\ saved \in Storage /\ l \in LedgerState
  BY DEF V1Inv, TypeInv, TypeOK, Storage
<1>4. v \in U64
  BY <1>2, <1>3, BalanceType, SaturatingType
<1>5. store' = Write(store, BalanceWritten(store, t, op.to, v))
  BY <1>1 DEF Credit, WriteBalance, BalanceWritten
<1>6. ProcessOperation(l, op) = WithBalance(m, t, op.to, v)
  BY <1>1, <1>2, <1>3, SecondWrite
<1> HIDE DEF v, m
<1>7. /\ BalanceWritten(store, t, op.to, v) \in Storage
      /\ BalanceWritten(store, t, op.to, v).ledger = ProcessOperation(l, op)
  BY <1>1, <1>2, <1>3, <1>4, <1>6, WrittenTypes
<1>8. store'.ledger = ProcessOperation(l, op)
  BY <1>5, <1>7, WriteSucceeds
<1>9. ProgressInv'
  BY <1>1, <1>8 DEF ProgressInv
<1>10. CheckpointExact'
  BY <1>1 DEF V1Inv, CheckpointExact
<1> QED
  BY <1>1, <1>9, <1>10 DEF V1Inv

\* The checkpoint keeps the operation, all of it.
LEMMA CheckpointInv ==
  ASSUME V1Inv, TypeInv', Checkpoint
  PROVE  V1Inv'
<1>1. /\ OpsLeft /\ saved' = store /\ store' = store /\ pc' = "operation"
      /\ store.ledger = ProcessOperation(saved.ledger, Current)
      /\ UNCHANGED <<start, ops>> /\ next' = next + 1 /\ (next + 1) - 1 = next
  BY DEF V1Inv, TypeInv, TypeOK, ItemsInv, ProgressInv, Checkpoint
<1>2. CheckpointExact'
  BY <1>1, OneOperation DEF CheckpointExact
<1>3. Lawful(saved'.ledger)
  <2>1. Follows(saved.ledger, ProcessOperation(saved.ledger, Current))
    BY <1>1, OneOperation, OperationFollows DEF V1Inv
  <2> QED
    BY <1>1, <2>1 DEF Follows
<1>4. ProgressInv'
  BY <1>1 DEF ProgressInv
<1> QED
  BY <1>2, <1>3, <1>4 DEF V1Inv

\* V1Inv is inductive when the deposit pays for everything.
LEMMA V1Invariance ==
  ASSUME RoomForAll
  PROVE  /\ Init => V1Inv
         /\ V1Inv /\ [Next]_vars => V1Inv'
<1>1. ASSUME Init PROVE V1Inv
  <2>1. TypeInv
    BY <1>1, TypeInvariance
  <2>2. CheckpointExact
    <3>1. EmptyStorage.ledger \in LedgerState
      BY EmptyStorageType DEF Storage
    <3>2. ProcessFirst(EmptyStorage.ledger, 0, <<>>) = EmptyStorage.ledger
      BY <3>1, ProcessFirstStep
    <3>3. 1 - 1 = 0
      OBVIOUS
    <3> QED
      BY <1>1, <3>2, <3>3 DEF Init, CheckpointExact
  <2>3. ProgressInv
    BY <1>1 DEF Init, ProgressInv
  <2>4. Lawful(saved.ledger)
    BY <1>1, EmptyStorageType DEF Init
  <2> QED
    BY <2>1, <2>2, <2>3, <2>4 DEF V1Inv
<1>2. ASSUME V1Inv, Next PROVE V1Inv'
  <2>1. TypeInv'
    BY <1>2, TypeInvariance DEF V1Inv
  <2> QED
    BY <1>2, <2>1, BoundaryInv, RefuseInv, FirstWriteInv, SecondWriteInv, CheckpointInv DEF Next
<1>3. ASSUME V1Inv, UNCHANGED vars PROVE V1Inv'
  <2>1. TypeInv'
    BY <1>3, TypeInvariance DEF V1Inv
  <2> QED
    BY <1>3, <2>1 DEF vars, V1Inv, ProgressInv, CheckpointExact, Current
<1> QED
  BY <1>1, <1>2, <1>3

\* What a failure falls back to is the exact effect of the operations
\* finished so far, at whichever host call of accumulate the gas runs out,
\* provided that the deposit pays for the storage.
THEOREM CheckpointsAreExact ==
  ASSUME RoomForAll
  PROVE  Spec => []CheckpointExact
<1>1. V1Inv => CheckpointExact
  BY DEF V1Inv
<1> QED
  BY <1>1, V1Invariance, PTL DEF Spec

\* An accumulation that runs to its end leaves what state_transition of
\* version 2 makes of the checked payloads, under the same proviso.
THEOREM V1AgreesWithV2 ==
  ASSUME RoomForAll
  PROVE  Spec => []AgreesWithV2
<1>1. ASSUME V1Inv PROVE AgreesWithV2
  <2> SUFFICES ASSUME pc = "operation", ~OpsLeft
               PROVE  store.ledger = Transitions(start.ledger, [i \in DOMAIN items |-> Checked(items[i])])
    BY DEF AgreesWithV2
  <2>1. next - 1 = Len(ops)
    BY <1>1 DEF V1Inv, TypeInv, TypeOK, OpsLeft
  <2>2. store.ledger = ProcessAll(start.ledger, ops)
    BY <1>1, <2>1 DEF V1Inv, ProgressInv, CheckpointExact, ProcessAll
  <2>3. /\ start.ledger \in LedgerState /\ ops = OperationsOf(items)
        /\ items \in Seq(Seq(SignedOperation))
    BY <1>1, ItemsFacts DEF V1Inv, TypeInv, TypeOK, ItemsInv, Storage
  <2> QED
    BY <2>2, <2>3, PayloadsDoTheSame
<1> QED
  BY <1>1, V1Invariance, PTL DEF Spec

\* The persistent storage of version 1 implements TokenSupply, through
\* failures at any host call, under the same proviso.
THEOREM V1Refinement ==
  ASSUME RoomForAll
  PROVE  Spec => ImplementsTokenSupply
<1>1. Init => Supply!Init
  BY DEF Init, EmptyStorage, Supply!Init, EmptyLedger, Supply!EmptyLedger, Account, Supply!Account
<1>2. ASSUME V1Inv, [Next]_vars
      PROVE  [Supply!Next]_(saved.ledger)
  <2>1. CASE Checkpoint
    <3>1. /\ OpsLeft /\ saved'.ledger = ProcessOperation(saved.ledger, Current)
      BY <1>2, <2>1 DEF V1Inv, TypeInv, ItemsInv, ProgressInv, Checkpoint
    <3>2. Follows(saved.ledger, saved'.ledger)
      BY <1>2, <3>1, OneOperation, OperationFollows DEF V1Inv
    <3>3. saved'.ledger \in Supply!LedgerState
      <4>1. Supply!LedgerState = LedgerState
        BY Zenon DEF LedgerState, Supply!LedgerState, Account, Supply!Account,
                     U64, Supply!U64, U64Max, Supply!U64Max
      <4> QED
        BY <3>2, <4>1 DEF Follows, Lawful
    <3>4. \A b : Supply!Total(b) = Total(b)
      BY DEF Total, Supply!Total, SumTo, Supply!SumTo
    <3>5. Supply!U64Max = U64Max
      BY DEF U64Max, Supply!U64Max
    <3>6. Supply!Change(saved.ledger, saved'.ledger)
      BY <3>2, <3>4, <3>5 DEF Supply!Change, Follows, Lawful
    <3> QED
      BY <3>3, <3>6 DEF Supply!Next
  <2>2. CASE ~Checkpoint
    BY <1>2, <2>2 DEF V1Inv, ProgressInv, Next, vars, Accumulate, Refuse, MintKnown, Debit,
                      Credit, Return, OutOfGas, EndInvocation
  <2> QED
    BY <2>1, <2>2
<1> QED
  BY <1>1, <1>2, V1Invariance, PTL DEF Spec, ImplementsTokenSupply, Supply!Spec

=============================================================================
