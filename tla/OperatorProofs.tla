--------------------------- MODULE OperatorProofs ---------------------------
(***************************************************************************)
(* Facts about the operators the machines are built from, stated once for  *)
(* all of them:                                                            *)
(*  - TokenOps: sums, and what process_mint and process_transfer do to the *)
(*    supply of a token;                                                   *)
(*  - BatchOps: what state_transition does to a ledger;                    *)
(*  - MerkleTree: what insert does to the array of hashes;                 *)
(*  - WitnessedState: what a batch does to a state on a tree, what a state *)
(*    file gives back, and why the witness is enough to repeat the batch.  *)
(* What holds for every n is proved by looking at the least n at which it  *)
(* would fail.  Nothing here about ledgers depends on the tree.            *)
(***************************************************************************)
EXTENDS WitnessedState, WellFoundedInduction, FiniteSetTheorems, SequenceTheorems, TLAPS

(***************************************************************************)
(*                             Part 1: TokenOps                            *)
(***************************************************************************)

LessThan == {p \in Nat \X Nat : p[1] < p[2]}

\* A nonempty set of naturals has a least element.
LEMMA LeastNatural ==
  ASSUME NEW T, T \subseteq Nat, T # {}
  PROVE  \E m \in T : \A k \in T : m <= k
<1>1. IsWellFoundedOn(LessThan, Nat)
  BY NatLessThanWellFounded DEF OpToRel, LessThan
<1>2. PICK m \in T : \A k \in T : ~(<<k, m>> \in LessThan)
  BY <1>1, WFMin
<1>3. \A k \in T : ~(k < m)
  BY <1>2 DEF LessThan
<1> QED
  BY <1>3

\* Induction up to n, over a set.
LEMMA CountUp ==
  ASSUME NEW n \in Nat, NEW T, 0 \in T, \A i \in 1..n : i - 1 \in T => i \in T
  PROVE  \A i \in 0..n : i \in T
<1> DEFINE U == {i \in 0..n : i \notin T}
<1>1. SUFFICES ASSUME U # {} PROVE FALSE
  OBVIOUS
<1>2. PICK m \in U : \A k \in U : m <= k
  <2>1. U \subseteq Nat
    OBVIOUS
  <2> QED
    BY <1>1, <2>1, LeastNatural
<1>3. m \in 1..n /\ m - 1 \in 0..n
  BY <1>2
<1>4. m - 1 \in T
  BY <1>2, <1>3
<1> QED
  BY <1>2, <1>3, <1>4

\* r is a run of a loop of n rounds on X, from x, whose i-th round is F[i].
IsRun(r, n, X, x, F) ==
  /\ r \in [0..n -> X]
  /\ r[0] = x
  /\ \A i \in 1..n : r[i] = F[i][r[i - 1]]

\* Such a loop has a run.
LEMMA LoopRuns ==
  ASSUME NEW n \in Nat, NEW X, NEW x \in X, NEW F \in [1..n -> [X -> X]]
  PROVE  \E r : IsRun(r, n, X, x, F)
<1> DEFINE Run(m, r) == r[0] = x /\ \A i \in 1..m : r[i] = F[i][r[i - 1]]
           T == {m \in 0..n : \E r \in [0..m -> X] : Run(m, r)}
<1>1. 0 \in T
  <2>1. [i \in 0..0 |-> x] \in [0..0 -> X] /\ Run(0, [i \in 0..0 |-> x])
    OBVIOUS
  <2> HIDE DEF Run
  <2>2. 0 \in 0..n
    OBVIOUS
  <2> QED
    BY <2>1, <2>2
<1>2. ASSUME NEW m \in 1..n, m - 1 \in T
      PROVE  m \in T
  <2>1. PICK q \in [0..(m - 1) -> X] : Run(m - 1, q)
    BY <1>2
  <2> DEFINE r == [i \in 0..m |-> IF i = m THEN F[m][q[m - 1]] ELSE q[i]]
  <2>2. q[m - 1] \in X /\ F[m][q[m - 1]] \in X
    OBVIOUS
  <2>3. r \in [0..m -> X]
    BY <2>2
  <2>4. Run(m, r)
    <3>1. r[0] = x
      BY <2>1
    <3>2. ASSUME NEW i \in 1..m PROVE r[i] = F[i][r[i - 1]]
      <4>1. CASE i = m
        BY <4>1
      <4>2. CASE i # m
        <5>1. i \in 1..(m - 1) /\ i - 1 \in 0..(m - 1)
          BY <4>2
        <5> QED
          BY <2>1, <4>2, <5>1
      <4> QED
        BY <4>1, <4>2
    <3> QED
      BY <3>1, <3>2
  <2> HIDE DEF Run, r
  <2> QED
    BY <2>3, <2>4
<1> HIDE DEF T
<1>3. n \in T
  <2>1. \A i \in 0..n : i \in T
    BY <1>1, <1>2, CountUp, Zenon
  <2> QED
    BY <2>1
<1> QED
  BY <1>3 DEF T, IsRun

\* Whatever goes through the rounds of such a loop is its run.
LEMMA LoopUnique ==
  ASSUME NEW n \in Nat, NEW X, NEW x, NEW F, NEW r, IsRun(r, n, X, x, F),
         NEW g, g[0] = x, \A i \in 1..n : g[i - 1] \in X => g[i] = F[i][g[i - 1]]
  PROVE  g[n] = r[n]
<1> DEFINE T == {i \in 0..n : g[i] = r[i]}
<1>1. 0 \in T
  BY DEF IsRun
<1>2. ASSUME NEW i \in 1..n, i - 1 \in T PROVE i \in T
  <2>1. g[i - 1] = r[i - 1] /\ r[i - 1] \in X /\ i \in 0..n
    BY <1>2 DEF IsRun
  <2>2. r[i] = F[i][r[i - 1]]
    BY DEF IsRun
  <2> QED
    BY <2>1, <2>2
<1> HIDE DEF T
<1>3. \A i \in 0..n : i \in T
  BY <1>1, <1>2, CountUp, Zenon
<1> QED
  BY <1>3 DEF T

\* The integer ranges.
LEMMA Ranges ==
  /\ I64Max \in Nat /\ U64Max = 2 * I64Max + 1 /\ U64Max \in Nat
  /\ U64 = 0..U64Max /\ I64 = (-I64Max - 1)..I64Max
  /\ Account \subseteq Nat /\ TokenIds \subseteq Nat
BY TokenOpsAssumption DEF U64Max, U64, I64, Account

-----------------------------------------------------------------------------
\* p[i] is f[1] + ... + f[i], for i up to n.
IsPrefixSum(f, n, p) ==
  p = [i \in 0..n |-> IF i = 0 THEN 0 ELSE p[i - 1] + f[i]]

\* The recursion that defines SumTo has a solution.
LEMMA PrefixSumExists ==
  ASSUME NEW f, NEW n \in Nat
  PROVE  \E p : IsPrefixSum(f, n, p)
<1> DEFINE T == {m \in Nat : ~\E p : IsPrefixSum(f, m, p)}
<1>1. SUFFICES ASSUME T # {} PROVE FALSE
  OBVIOUS
<1>2. PICK m \in T : \A k \in T : m <= k
  <2>1. T \subseteq Nat
    OBVIOUS
  <2> QED
    BY <1>1, <2>1, LeastNatural
<1>3. CASE m = 0
  <2>1. IsPrefixSum(f, 0, [i \in 0..0 |-> 0])
    BY DEF IsPrefixSum
  <2> QED
    BY <1>2, <1>3, <2>1
<1>4. CASE m # 0
  <2>1. m - 1 \in Nat /\ m - 1 \notin T
    BY <1>2, <1>4
  <2>2. PICK q : IsPrefixSum(f, m - 1, q)
    BY <2>1
  <2> DEFINE p == [i \in 0..m |-> IF i = m THEN q[m - 1] + f[m] ELSE q[i]]
  <2>3. \A i \in 0..m : p[i] = IF i = 0 THEN 0 ELSE p[i - 1] + f[i]
    <3>1. \A i \in 0..(m - 1) : q[i] = IF i = 0 THEN 0 ELSE q[i - 1] + f[i]
      BY <2>2 DEF IsPrefixSum
    <3> QED
      BY <3>1, <1>2, <1>4
  <2>4. IsPrefixSum(f, m, p)
    BY <2>3 DEF IsPrefixSum
  <2> QED
    BY <2>4, <1>2
<1> QED
  BY <1>3, <1>4

\* The solution is unique where the summands are integers.
LEMMA PrefixSumUnique ==
  ASSUME NEW f, NEW n \in Nat, NEW m \in 0..n, \A i \in 1..n : f[i] \in Int,
         NEW p, IsPrefixSum(f, n, p),
         NEW q, IsPrefixSum(f, m, q)
  PROVE  \A i \in 0..m : p[i] = q[i] /\ p[i] \in Int
<1> DEFINE T == {i \in 0..m : ~(p[i] = q[i] /\ p[i] \in Int)}
<1>1. SUFFICES ASSUME T # {} PROVE FALSE
  OBVIOUS
<1>2. PICK k \in T : \A j \in T : k <= j
  <2>1. T \subseteq Nat
    OBVIOUS
  <2> QED
    BY <1>1, <2>1, LeastNatural
<1>3. p[k] = IF k = 0 THEN 0 ELSE p[k - 1] + f[k]
  BY <1>2 DEF IsPrefixSum
<1>4. q[k] = IF k = 0 THEN 0 ELSE q[k - 1] + f[k]
  BY <1>2 DEF IsPrefixSum
<1>5. k # 0 => p[k - 1] = q[k - 1] /\ p[k - 1] \in Int
  <2>1. k # 0 => k - 1 \in 0..m /\ k - 1 \notin T
    BY <1>2
  <2> QED
    BY <2>1
<1> QED
  BY <1>2, <1>3, <1>4, <1>5

\* SumTo is the last value of the solution.
LEMMA SumToIsPrefixSum ==
  ASSUME NEW f, NEW n \in Nat
  PROVE  \E p : IsPrefixSum(f, n, p) /\ SumTo(f, n) = p[n]
<1> DEFINE P == CHOOSE p : IsPrefixSum(f, n, p)
<1>1. IsPrefixSum(f, n, P)
  BY PrefixSumExists
<1>2. SumTo(f, n) = P[n]
  BY DEF SumTo, IsPrefixSum
<1> QED
  BY <1>1, <1>2

\* The recursion equations of SumTo.
LEMMA SumToStep ==
  ASSUME NEW n \in Nat, NEW f, \A i \in 1..n : f[i] \in Int
  PROVE  /\ SumTo(f, n) \in Int
         /\ n = 0 => SumTo(f, n) = 0
         /\ n # 0 => SumTo(f, n) = SumTo(f, n - 1) + f[n]
<1>1. PICK p : IsPrefixSum(f, n, p) /\ SumTo(f, n) = p[n]
  BY SumToIsPrefixSum
<1>2. p[n] \in Int
  <2>1. n \in 0..n
    OBVIOUS
  <2> QED
    BY <1>1, <2>1, PrefixSumUnique
<1>3. CASE n = 0
  BY <1>1, <1>2, <1>3 DEF IsPrefixSum
<1>4. CASE n # 0
  <2>1. n - 1 \in Nat /\ n - 1 \in 0..n /\ n - 1 \in 0..(n - 1)
    BY <1>4
  <2>2. PICK q : IsPrefixSum(f, n - 1, q) /\ SumTo(f, n - 1) = q[n - 1]
    BY <2>1, SumToIsPrefixSum
  <2>3. p[n - 1] = q[n - 1]
    BY <1>1, <2>1, <2>2, PrefixSumUnique
  <2>4. p[n] = p[n - 1] + f[n]
    BY <1>1, <1>4 DEF IsPrefixSum
  <2> QED
    BY <1>1, <1>2, <1>4, <2>2, <2>3, <2>4
<1> QED
  BY <1>3, <1>4

-----------------------------------------------------------------------------
\* The sum of naturals is a natural, and no less than any of them.
LEMMA SumToBound ==
  ASSUME NEW N \in Nat, NEW f, \A i \in 1..N : f[i] \in Nat, NEW n \in 0..N
  PROVE  SumTo(f, n) \in Nat /\ \A i \in 1..n : f[i] <= SumTo(f, n)
<1> DEFINE T == {m \in 0..N : ~(SumTo(f, m) \in Nat /\ \A i \in 1..m : f[i] <= SumTo(f, m))}
<1>1. SUFFICES ASSUME T # {} PROVE FALSE
  OBVIOUS
<1>2. PICK m \in T : \A k \in T : m <= k
  <2>1. T \subseteq Nat
    OBVIOUS
  <2> QED
    BY <1>1, <2>1, LeastNatural
<1>3. m \in Nat /\ \A i \in 1..m : f[i] \in Int
  OBVIOUS
<1>4. CASE m = 0
  BY <1>2, <1>3, <1>4, SumToStep
<1>5. CASE m # 0
  <2>1. m - 1 \in 0..N /\ m - 1 \notin T
    BY <1>2, <1>5
  <2>2. SumTo(f, m - 1) \in Nat /\ \A i \in 1..(m - 1) : f[i] <= SumTo(f, m - 1)
    BY <2>1
  <2>3. SumTo(f, m) = SumTo(f, m - 1) + f[m]
    BY <1>3, <1>5, SumToStep
  <2>4. f[m] \in Nat
    BY <1>5
  <2>5. SumTo(f, m) \in Nat
    BY <2>2, <2>3, <2>4
  <2>6. ASSUME NEW i \in 1..m PROVE f[i] <= SumTo(f, m)
    <3>1. i = m \/ i \in 1..(m - 1)
      OBVIOUS
    <3>2. f[i] \in Nat
      OBVIOUS
    <3> QED
      BY <2>2, <2>3, <2>4, <3>1, <3>2
  <2> QED
    BY <1>2, <2>5, <2>6
<1> QED
  BY <1>4, <1>5

\* Functions that agree up to n have the same sum.
LEMMA SumToAgree ==
  ASSUME NEW N \in Nat, NEW f, NEW g,
         \A i \in 1..N : f[i] \in Int /\ g[i] = f[i],
         NEW n \in 0..N
  PROVE  SumTo(g, n) = SumTo(f, n)
<1> DEFINE T == {m \in 0..N : SumTo(g, m) # SumTo(f, m)}
<1>1. SUFFICES ASSUME T # {} PROVE FALSE
  OBVIOUS
<1>2. PICK m \in T : \A k \in T : m <= k
  <2>1. T \subseteq Nat
    OBVIOUS
  <2> QED
    BY <1>1, <2>1, LeastNatural
<1>3. m \in Nat /\ (\A i \in 1..m : f[i] \in Int) /\ (\A i \in 1..m : g[i] \in Int)
  OBVIOUS
<1>4. CASE m = 0
  BY <1>2, <1>3, <1>4, SumToStep
<1>5. CASE m # 0
  <2>1. m - 1 \in 0..N /\ m - 1 \notin T
    BY <1>2, <1>5
  <2>2. SumTo(f, m) = SumTo(f, m - 1) + f[m] /\ SumTo(g, m) = SumTo(g, m - 1) + g[m]
    BY <1>3, <1>5, SumToStep
  <2>3. g[m] = f[m]
    BY <1>5
  <2> QED
    BY <1>2, <2>1, <2>2, <2>3
<1> QED
  BY <1>4, <1>5

\* Changing one summand changes the sum by the difference.
LEMMA SumToUpdate ==
  ASSUME NEW N \in Nat, NEW f \in [1..N -> Int], NEW a \in 1..N, NEW v \in Int,
         NEW n \in 0..N
  PROVE  SumTo([f EXCEPT ![a] = v], n) =
           IF a <= n THEN SumTo(f, n) - f[a] + v ELSE SumTo(f, n)
<1> DEFINE g == [f EXCEPT ![a] = v]
           R(m) == SumTo(g, m) = IF a <= m THEN SumTo(f, m) - f[a] + v ELSE SumTo(f, m)
           T == {m \in 0..N : ~R(m)}
<1> HIDE DEF R
<1>1. SUFFICES ASSUME T # {} PROVE FALSE
  BY DEF R
<1>2. PICK m \in T : \A k \in T : m <= k
  <2>1. T \subseteq Nat
    OBVIOUS
  <2> QED
    BY <1>1, <2>1, LeastNatural
<1>3. m \in Nat /\ (\A i \in 1..m : f[i] \in Int) /\ (\A i \in 1..m : g[i] \in Int)
  OBVIOUS
<1>4. CASE m = 0
  BY <1>2, <1>3, <1>4, SumToStep DEF R
<1>5. CASE m # 0
  <2>1. m - 1 \in 0..N /\ m - 1 \notin T
    BY <1>2, <1>5
  <2>2. R(m - 1)
    BY <2>1
  <2>3. SumTo(f, m) = SumTo(f, m - 1) + f[m] /\ SumTo(g, m) = SumTo(g, m - 1) + g[m]
    BY <1>3, <1>5, SumToStep
  <2>4. SumTo(f, m - 1) \in Int
    <3>1. m - 1 \in Nat /\ \A i \in 1..(m - 1) : f[i] \in Int
      BY <1>3, <1>5
    <3> QED
      BY <3>1, SumToStep
  <2>5. g[m] = (IF m = a THEN v ELSE f[m]) /\ f[m] \in Int /\ f[a] \in Int
    BY <1>5
  <2>6. R(m)
    BY <2>2, <2>3, <2>4, <2>5 DEF R
  <2> QED
    BY <1>2, <2>6
<1> QED
  BY <1>4, <1>5

-----------------------------------------------------------------------------
\* A token nobody holds has supply 0.
LEMMA TotalZero ==
  Total([a \in Account |-> 0]) = 0
<1> DEFINE f == [a \in Account |-> 0]
           T == {m \in 0..NumAccounts : SumTo(f, m) # 0}
<1>1. NumAccounts \in Nat
  BY TokenOpsAssumption
<1>2. SUFFICES ASSUME T # {} PROVE FALSE
  BY <1>1 DEF Total
<1>3. PICK m \in T : \A k \in T : m <= k
  <2>1. T \subseteq Nat
    BY <1>1
  <2> QED
    BY <1>2, <2>1, LeastNatural
<1>4. m \in Nat /\ \A i \in 1..m : f[i] = 0
  BY <1>1 DEF Account
<1>5. m # 0 => SumTo(f, m - 1) = 0
  <2>1. m # 0 => m - 1 \in 0..NumAccounts /\ m - 1 \notin T
    BY <1>1, <1>3
  <2> QED
    BY <2>1
<1>6. SumTo(f, m) = 0
  <2>1. \A i \in 1..m : f[i] \in Int
    BY <1>4
  <2>2. m # 0 => SumTo(f, m) = SumTo(f, m - 1) + f[m]
    BY <1>4, <2>1, SumToStep
  <2>3. m = 0 => SumTo(f, m) = 0
    BY <1>4, <2>1, SumToStep
  <2>4. m # 0 => f[m] = 0
    BY <1>4
  <2> QED
    BY <1>5, <2>2, <2>3, <2>4
<1> QED
  BY <1>3, <1>6

\* The supply is a natural, and bounds what any account, and what any two
\* accounts together, hold.
LEMMA TotalBounds ==
  ASSUME NEW b \in [Account -> U64]
  PROVE  /\ Total(b) \in Nat
         /\ \A a \in Account : b[a] <= Total(b)
         /\ \A a, c \in Account : a # c => b[a] + b[c] <= Total(b)
<1>1. /\ NumAccounts \in Nat /\ NumAccounts \in 0..NumAccounts
      /\ U64 \subseteq Nat /\ U64 \subseteq Int
  BY TokenOpsAssumption DEF U64, U64Max
<1>2. Total(b) \in Nat /\ \A a \in Account : b[a] <= Total(b)
  BY <1>1, SumToBound DEF Total, Account
<1>3. ASSUME NEW a \in Account, NEW c \in Account, a # c
      PROVE  b[a] + b[c] <= Total(b)
  <2> DEFINE z == [b EXCEPT ![a] = 0]
  <2>1. b \in [1..NumAccounts -> Int] /\ a \in 1..NumAccounts /\ 0 \in Int
    <3>1. \A i \in Account : b[i] \in Int
      BY <1>1
    <3> QED
      BY <3>1 DEF Account
  <2>2. Total(z) = Total(b) - b[a]
    <3>1. SumTo(z, NumAccounts) =
            IF a <= NumAccounts THEN SumTo(b, NumAccounts) - b[a] + 0 ELSE SumTo(b, NumAccounts)
      BY <1>1, <2>1, SumToUpdate, Zenon
    <3> QED
      BY <1>1, <1>2, <2>1, <3>1 DEF Total, Account
  <2>3. z[c] <= Total(z)
    <3>1. \A i \in 1..NumAccounts : z[i] \in Nat
      BY <1>1 DEF Account
    <3> QED
      BY <1>1, <3>1, SumToBound DEF Total, Account
  <2>4. z[c] = b[c] /\ b[c] \in Nat /\ b[a] \in Nat
    BY <1>1, <1>3
  <2> QED
    BY <1>2, <2>2, <2>3, <2>4
<1> QED
  BY <1>2, <1>3

\* Writing one balance changes the supply by the difference.
LEMMA TotalUpdate ==
  ASSUME NEW b \in [Account -> U64], NEW a \in Account, NEW v \in U64
  PROVE  Total([b EXCEPT ![a] = v]) = Total(b) - b[a] + v
<1>1. NumAccounts \in Nat /\ NumAccounts \in 0..NumAccounts /\ U64 \subseteq Int
  BY TokenOpsAssumption DEF U64, U64Max
<1>2. b \in [1..NumAccounts -> Int] /\ a \in 1..NumAccounts /\ v \in Int
  <2>1. \A i \in Account : b[i] \in Int
    BY <1>1
  <2> QED
    BY <1>1, <2>1 DEF Account
<1>3. SumTo([b EXCEPT ![a] = v], NumAccounts) =
        IF a <= NumAccounts THEN SumTo(b, NumAccounts) - b[a] + v ELSE SumTo(b, NumAccounts)
  BY <1>1, <1>2, SumToUpdate
<1> QED
  BY <1>1, <1>2, <1>3 DEF Total

-----------------------------------------------------------------------------
(* What an operation does to the supply. *)

\* A state whose supplies fit a u64, with nothing held of unknown tokens.
Lawful(s) ==
  /\ s \in LedgerState
  /\ \A t \in TokenIds : Total(s.bal[t]) <= U64Max
  /\ \A t \in TokenIds \ s.known : Total(s.bal[t]) = 0

\* The empty ledger is lawful.
LEMMA EmptyLawful == Lawful(EmptyLedger)
<1>1. U64Max \in Nat /\ 0 \in U64
  BY TokenOpsAssumption DEF U64, U64Max
<1>2. EmptyLedger \in LedgerState
  BY <1>1 DEF EmptyLedger, LedgerState
<1>3. \A t \in TokenIds : EmptyLedger.bal[t] = [a \in Account |-> 0]
  BY DEF EmptyLedger
<1> QED
  BY <1>1, <1>2, <1>3, TotalZero DEF Lawful

\* process_mint leaves every other token alone; of a new token it creates
\* exactly the amount minted, and its addition does not saturate.
LEMMA MintSupply ==
  ASSUME NEW s, Lawful(s), NEW op, op.to \in Account, op.token_id \in TokenIds,
         op.amount \in U64, ~MintRefused(s, op), NEW r, r = ProcessMint(s, op)
  PROVE  /\ Lawful(r)
         /\ r.known = s.known \cup {op.token_id}
         /\ Total(r.bal[op.token_id]) = op.amount
         /\ \A t \in TokenIds \ {op.token_id} : r.bal[t] = s.bal[t]
<1> DEFINE t0 == op.token_id
           b == s.bal[t0]
           v == SaturatingAdd(b[op.to], op.amount)
<1>1. U64Max \in Nat /\ U64 = 0..U64Max
  BY TokenOpsAssumption DEF U64, U64Max
<1>2. s.bal \in [TokenIds -> [Account -> U64]] /\ b \in [Account -> U64] /\ s.known \in SUBSET TokenIds
  BY DEF Lawful, LedgerState
<1>3. t0 \notin s.known /\ Total(b) = 0
  BY DEF MintRefused, Lawful
<1>4. b[op.to] = 0
  <2>1. b[op.to] <= 0 /\ b[op.to] \in U64
    BY <1>2, <1>3, TotalBounds
  <2> QED
    BY <1>1, <2>1
<1>5. v = op.amount
  BY <1>1, <1>4 DEF SaturatingAdd
<1>6. r = [known |-> s.known \cup {t0}, bal |-> [s.bal EXCEPT ![t0] = [b EXCEPT ![op.to] = v]]]
  BY DEF ProcessMint
<1>7. Total([b EXCEPT ![op.to] = v]) = op.amount
  <2>1. Total([b EXCEPT ![op.to] = v]) = Total(b) - b[op.to] + v
    BY <1>2, <1>5, TotalUpdate
  <2> QED
    BY <1>1, <1>3, <1>4, <1>5, <2>1
<1>8. r.bal[t0] = [b EXCEPT ![op.to] = v] /\ r.known = s.known \cup {t0}
  BY <1>2, <1>6
<1>9. \A t \in TokenIds \ {t0} : r.bal[t] = s.bal[t]
  BY <1>2, <1>6
<1>10. r \in LedgerState
  <2>1. [b EXCEPT ![op.to] = v] \in [Account -> U64]
    BY <1>2, <1>5
  <2> QED
    BY <1>2, <1>6, <2>1 DEF LedgerState
<1>11. \A t \in TokenIds : Total(r.bal[t]) <= U64Max
  BY <1>1, <1>7, <1>8, <1>9 DEF Lawful
<1>12. \A t \in TokenIds \ r.known : Total(r.bal[t]) = 0
  BY <1>8, <1>9 DEF Lawful
<1> QED
  BY <1>7, <1>8, <1>9, <1>10, <1>11, <1>12 DEF Lawful

\* process_transfer between two different accounts keeps the supply of every
\* token: the receiver's addition does not saturate, because the sender's
\* balance and the receiver's fit the supply together.
LEMMA TransferSupply ==
  ASSUME NEW s, Lawful(s), NEW op, op.from \in Account, op.to \in Account,
         op.from # op.to, op.token_id \in TokenIds, op.amount \in U64,
         ~TransferRefused(s, op), NEW r, r = ProcessTransfer(s, op)
  PROVE  /\ Lawful(r)
         /\ r.known = s.known
         /\ \A t \in TokenIds : Total(r.bal[t]) = Total(s.bal[t])
         /\ \A t \in TokenIds \ {op.token_id} : r.bal[t] = s.bal[t]
         /\ \A a \in Account \ {op.from, op.to} :
              r.bal[op.token_id][a] = s.bal[op.token_id][a]
         /\ r.bal[op.token_id][op.from] = s.bal[op.token_id][op.from] - op.amount
         /\ r.bal[op.token_id][op.to] = s.bal[op.token_id][op.to] + op.amount
<1> DEFINE t0 == op.token_id
           b == s.bal[t0]
           d == [b EXCEPT ![op.from] = b[op.from] - op.amount]
           v == SaturatingAdd(b[op.to], op.amount)
           c == [d EXCEPT ![op.to] = v]
<1>1. U64Max \in Nat /\ U64 = 0..U64Max
  BY TokenOpsAssumption DEF U64, U64Max
<1>2. s.bal \in [TokenIds -> [Account -> U64]] /\ b \in [Account -> U64] /\ s.known \in SUBSET TokenIds
  BY DEF Lawful, LedgerState
<1>3. b[op.from] \in U64 /\ b[op.to] \in U64 /\ op.amount <= b[op.from]
  BY <1>1, <1>2 DEF TransferRefused
<1>4. Total(b) \in Nat /\ Total(b) <= U64Max /\ b[op.from] + b[op.to] <= Total(b)
  BY <1>2, TotalBounds DEF Lawful
<1>5. v = b[op.to] + op.amount /\ v \in U64
  BY <1>1, <1>3, <1>4 DEF SaturatingAdd
<1>6. b[op.from] - op.amount \in U64
  BY <1>1, <1>3
<1>7. d \in [Account -> U64] /\ d[op.to] = b[op.to]
  BY <1>2, <1>6
<1>8. Total(d) = Total(b) - op.amount
  <2>1. Total(d) = Total(b) - b[op.from] + (b[op.from] - op.amount)
    BY <1>2, <1>6, TotalUpdate
  <2> QED
    BY <1>1, <1>3, <1>4, <2>1
<1>9. c \in [Account -> U64] /\ Total(c) = Total(b)
  <2>1. Total(c) = Total(d) - d[op.to] + v
    BY <1>5, <1>7, TotalUpdate
  <2>2. c \in [Account -> U64]
    BY <1>5, <1>7
  <2>3. b[op.to] \in Int /\ op.amount \in Int /\ Total(b) \in Int
    BY <1>1, <1>3, <1>4
  <2>4. Total(c) = (Total(b) - op.amount) - b[op.to] + (b[op.to] + op.amount)
    BY <1>5, <1>7, <1>8, <2>1
  <2> HIDE DEF b, c
  <2> QED
    BY <2>2, <2>3, <2>4
<1>10. r = [known |-> s.known, bal |-> [s.bal EXCEPT ![t0] = c]]
  BY DEF ProcessTransfer
<1>11. r.known = s.known /\ r.bal[t0] = c /\ \A t \in TokenIds \ {t0} : r.bal[t] = s.bal[t]
  BY <1>2, <1>10
<1>12. \A t \in TokenIds : Total(r.bal[t]) = Total(s.bal[t])
  BY <1>9, <1>11
<1>13. r \in LedgerState
  BY <1>2, <1>9, <1>10 DEF LedgerState
<1>14. Lawful(r)
  BY <1>11, <1>12, <1>13 DEF Lawful
<1>15. /\ \A a \in Account \ {op.from, op.to} : c[a] = b[a]
       /\ c[op.from] = b[op.from] - op.amount
       /\ c[op.to] = b[op.to] + op.amount
  BY <1>2, <1>5, <1>7
<1> QED
  BY <1>11, <1>12, <1>14, <1>15

-----------------------------------------------------------------------------
(* Netting. *)

\* Staging keeps the sums within 64 bits, in whichever way they wrap.
LEMMA StageType ==
  ASSUME NEW st \in [StageKey -> I64], NEW op, op.from \in Account, op.to \in Account,
         op.token_id \in TokenIds, op.amount \in U64
  PROVE  /\ CanonicalKey(op) \in StageKey
         /\ op.from # op.to => CanonicalKey(op)[2] # CanonicalKey(op)[3]
         /\ Stage(st, op) \in [StageKey -> I64]
<1>1. CanonicalKey(op) \in StageKey /\ (op.from # op.to => CanonicalKey(op)[2] # CanonicalKey(op)[3])
  <2>1. op.from \in Nat /\ op.to \in Nat
    BY Ranges
  <2>2. CASE op.from < op.to
    <3>1. <<op.token_id, op.from, op.to>> \in TokenIds \X Account \X Account
      OBVIOUS
    <3> QED
      BY <2>1, <2>2, <3>1 DEF CanonicalKey, StageKey
  <2>3. CASE ~(op.from < op.to)
    <3>1. <<op.token_id, op.to, op.from>> \in TokenIds \X Account \X Account
      OBVIOUS
    <3>2. op.to <= op.from
      BY <2>1, <2>3
    <3> QED
      BY <2>1, <2>3, <3>1, <3>2 DEF CanonicalKey, StageKey
  <2> QED
    BY <2>2, <2>3
<1>2. AsI64(op.amount) \in I64
  BY Ranges DEF AsI64
<1>3. WrapI64(CanonicalAmount(op)) \in I64
  BY <1>2, Ranges DEF CanonicalAmount, WrapI64
<1>4. st[CanonicalKey(op)] \in I64
  BY <1>1
<1>5. WrapI64(StagedSum(st, op)) \in I64
  BY <1>3, <1>4, Ranges DEF StagedSum, WrapI64
<1> QED
  BY <1>1, <1>5 DEF Stage

\* The transfer a sum stands for is between the counterparts of its key.
LEMMA NetTransferFacts ==
  ASSUME NEW k \in StageKey, NEW net \in I64, NEW op, op = NetTransfer(k, net)
  PROVE  /\ op.from \in Account /\ op.to \in Account /\ (k[2] # k[3] => op.from # op.to)
         /\ op.token_id = k[1] /\ k[1] \in TokenIds /\ op.amount \in U64
<1>1. k[1] \in TokenIds /\ k[2] \in Account /\ k[3] \in Account
  BY DEF StageKey
<1>2. net > 0 => net \in U64
  BY Ranges
<1>3. ~(net > 0) => -net \in U64
  BY Ranges
<1> QED
  BY <1>1, <1>2, <1>3 DEF NetTransfer, Transfer

\* Larger sets have more sequences.
LEMMA SeqGrows ==
  ASSUME NEW S, NEW T, S \subseteq T, NEW q \in Seq(S)
  PROVE  q \in Seq(T)
OBVIOUS

\* A package leaves the queue.
LEMMA RemoveAtType ==
  ASSUME NEW S, NEW q \in Seq(S), NEW i \in DOMAIN q
  PROVE  RemoveAt(q, i) \in Seq(S)
<1>1. i \in 1..Len(q) /\ Len(q) \in Nat
  OBVIOUS
<1>2. SubSeq(q, 1, i - 1) \in Seq(S)
  BY <1>1
<1>3. SubSeq(q, i + 1, Len(q)) \in Seq(S)
  BY <1>1
<1> QED
  BY <1>2, <1>3 DEF RemoveAt

(***************************************************************************)
(*                             Part 2: BatchOps                            *)
(* Any batch leaves a ledger of the right type, and a batch that verifies  *)
(* leaves every existing supply alone and gives a new token a positive     *)
(* one.                                                                    *)
(***************************************************************************)

\* What an operation of a batch consists of.
LEMMA OperationFacts ==
  ASSUME NEW batch \in Seq(SignedOperation), NEW i \in 1..Len(batch),
         NEW op, op = batch[i].operation
  PROVE  /\ op.type \in {"Mint", "Transfer"} /\ op.to \in Account
         /\ op.token_id \in TokenIds /\ op.amount \in U64
         /\ op.type = "Transfer" => op.from \in Account
<1>1. batch[i] \in SignedOperation
  OBVIOUS
<1>2. op \in Operation
  BY <1>1 DEF SignedOperation
<1> QED
  BY <1>2 DEF Operation

-----------------------------------------------------------------------------
(* The order of the second loop. *)

\* A nonempty set of keys has a first one.
LEMMA FirstKey ==
  ASSUME NEW S, S \subseteq StageKey, S # {}
  PROVE  \E k \in S : \A l \in S : l = k \/ KeyBefore(k, l)
<1> DEFINE A == {k[1] : k \in S}
<1>1. \A k \in S : /\ k[1] \in Nat /\ k[2] \in Nat /\ k[3] \in Nat
                   /\ k = <<k[1], k[2], k[3]>>
  <2>1. \A k \in TokenIds \X Account \X Account :
          k[1] \in TokenIds /\ k[2] \in Account /\ k[3] \in Account /\ k = <<k[1], k[2], k[3]>>
    OBVIOUS
  <2> QED
    BY <2>1, Ranges DEF StageKey
<1>2. PICK a \in A : \A x \in A : a <= x
  <2>1. A \subseteq Nat /\ A # {}
    BY <1>1
  <2> QED
    BY <2>1, LeastNatural
<1> DEFINE B == {k[2] : k \in {l \in S : l[1] = a}}
<1>3. PICK b \in B : \A x \in B : b <= x
  <2>1. B \subseteq Nat /\ B # {}
    BY <1>1, <1>2
  <2> QED
    BY <2>1, LeastNatural
<1> DEFINE C == {k[3] : k \in {l \in S : l[1] = a /\ l[2] = b}}
<1>4. PICK c \in C : \A x \in C : c <= x
  <2>1. C \subseteq Nat /\ C # {}
    BY <1>1, <1>3
  <2> QED
    BY <2>1, LeastNatural
<1>5. PICK k \in S : k[1] = a /\ k[2] = b /\ k[3] = c
  BY <1>4
<1>6. ASSUME NEW l \in S PROVE l = k \/ KeyBefore(k, l)
  <2>1. a <= l[1]
    BY <1>2
  <2>2. l[1] = a => b <= l[2]
    BY <1>3
  <2>3. l[1] = a /\ l[2] = b => c <= l[3]
    BY <1>4
  <2>4. l[1] = a /\ l[2] = b /\ l[3] = c => l = k
    BY <1>1, <1>5
  <2> QED
    BY <1>1, <1>5, <2>1, <2>2, <2>3, <2>4 DEF KeyBefore
<1> QED
  BY <1>6

\* keys lists S, each key before the ones after it.
Lists(keys, S) ==
  /\ keys \in [1..Cardinality(S) -> S]
  /\ \A i, j \in DOMAIN keys : i < j => KeyBefore(keys[i], keys[j])
  /\ \A k \in S : \E i \in DOMAIN keys : keys[i] = k

\* A finite set of keys can be listed in order.
LEMMA ListExists ==
  ASSUME NEW S \in SUBSET StageKey, IsFiniteSet(S)
  PROVE  \E keys : Lists(keys, S)
<1> DEFINE N == Cardinality(S)
           T == {m \in 0..N : \A R \in SUBSET StageKey :
                   IsFiniteSet(R) /\ Cardinality(R) = m => \E keys : Lists(keys, R)}
<1>1. N \in Nat
  BY FS_CardinalityType
<1>2. 0 \in T
  <2> SUFFICES ASSUME NEW R \in SUBSET StageKey, IsFiniteSet(R), Cardinality(R) = 0
               PROVE  \E keys : Lists(keys, R)
    BY <1>1
  <2>1. R = {}
    BY FS_EmptySet
  <2>2. Lists(<<>>, {})
    <3>1. <<>> \in [1..0 -> {}] /\ Cardinality({}) = 0
      BY FS_EmptySet
    <3> QED
      BY <3>1 DEF Lists
  <2> QED
    BY <2>1, <2>2
<1>3. ASSUME NEW m \in 1..N, m - 1 \in T
      PROVE  m \in T
  <2> SUFFICES ASSUME NEW R \in SUBSET StageKey, IsFiniteSet(R), Cardinality(R) = m
               PROVE  \E keys : Lists(keys, R)
    BY <1>1
  <2>1. R # {}
    <3>1. Cardinality(R) # 0
      BY <1>1
    <3> QED
      BY <3>1, FS_EmptySet
  <2>2. PICK k0 \in R : \A l \in R : l = k0 \/ KeyBefore(k0, l)
    BY <2>1, FirstKey
  <2> DEFINE Q == R \ {k0}
  <2>3. IsFiniteSet(Q) /\ Cardinality(Q) = m - 1
    BY FS_RemoveElement
  <2>4. PICK q : Lists(q, Q)
    BY <1>3, <2>3
  <2> DEFINE keys == [i \in 1..m |-> IF i = 1 THEN k0 ELSE q[i - 1]]
  <2>5. q \in [1..(m - 1) -> Q]
    BY <2>3, <2>4 DEF Lists
  <2>6. \A i \in 1..m : i # 1 => i - 1 \in 1..(m - 1) /\ keys[i] \in Q
    BY <1>1, <2>5
  <2>7. keys \in [1..Cardinality(R) -> R] /\ DOMAIN keys = 1..m
    BY <2>6
  <2>8. ASSUME NEW i \in 1..m, NEW j \in 1..m, i < j
        PROVE  KeyBefore(keys[i], keys[j])
    <3>1. j # 1 /\ keys[j] \in Q /\ j - 1 \in 1..(m - 1)
      BY <2>6, <2>8
    <3>2. CASE i = 1
      BY <2>2, <3>1, <3>2
    <3>3. CASE i # 1
      <4>1. i - 1 \in 1..(m - 1) /\ i - 1 < j - 1
        BY <2>6, <2>8, <3>3
      <4>2. KeyBefore(q[i - 1], q[j - 1])
        BY <2>4, <2>5, <3>1, <4>1 DEF Lists
      <4> QED
        BY <3>1, <3>3, <4>2
    <3> QED
      BY <3>2, <3>3
  <2>9. ASSUME NEW k \in R PROVE \E i \in 1..m : keys[i] = k
    <3>1. CASE k = k0
      <4>1. 1 \in 1..m /\ keys[1] = k0
        OBVIOUS
      <4> QED
        BY <3>1, <4>1
    <3>2. CASE k # k0
      <4>1. PICK i \in 1..(m - 1) : q[i] = k
        BY <2>4, <2>5, <3>2 DEF Lists
      <4>2. i + 1 \in 1..m /\ i + 1 # 1 /\ (i + 1) - 1 = i
        OBVIOUS
      <4>3. keys[i + 1] = k
        BY <4>1, <4>2
      <4> QED
        BY <4>2, <4>3
    <3> QED
      BY <3>1, <3>2
  <2> HIDE DEF keys
  <2>10. Lists(keys, R)
    BY <2>7, <2>8, <2>9 DEF Lists
  <2> QED
    BY <2>10
<1> HIDE DEF T
<1>4. \A i \in 0..N : i \in T
  BY <1>1, <1>2, <1>3, CountUp, Zenon
<1>5. N \in T
  BY <1>1, <1>4
<1> QED
  BY <1>5 DEF T

\* The order exists.
LEMMA KeysInOrderFacts ==
  ASSUME NEW S \in SUBSET StageKey, IsFiniteSet(S)
  PROVE  /\ KeysInOrder(S) \in [1..Cardinality(S) -> S]
         /\ \A i, j \in DOMAIN KeysInOrder(S) : i < j => KeyBefore(KeysInOrder(S)[i], KeysInOrder(S)[j])
         /\ Cardinality(S) \in Nat
<1>1. PICK keys : Lists(keys, S)
  BY ListExists
<1>2. \E k \in [1..Cardinality(S) -> S] : \A i, j \in DOMAIN k : i < j => KeyBefore(k[i], k[j])
  BY <1>1 DEF Lists
<1>3. Cardinality(S) \in Nat
  BY FS_CardinalityType
<1> QED
  BY <1>2, <1>3 DEF KeysInOrder

\* It leaves no key out.
LEMMA KeysInOrderCover ==
  ASSUME NEW S \in SUBSET StageKey, IsFiniteSet(S)
  PROVE  \A k \in S : \E i \in 1..Cardinality(S) : KeysInOrder(S)[i] = k
<1> DEFINE n == Cardinality(S)
           keys == KeysInOrder(S)
<1>1. /\ n \in Nat /\ keys \in [1..n -> S]
      /\ \A i, j \in 1..n : i < j => KeyBefore(keys[i], keys[j])
  BY KeysInOrderFacts
<1> HIDE DEF n, keys
<1>2. \A k \in S : ~KeyBefore(k, k)
  <2> TAKE k \in S
  <2>1. k[1] \in Nat /\ k[2] \in Nat /\ k[3] \in Nat
    <3>1. k[1] \in TokenIds /\ k[2] \in Account /\ k[3] \in Account
      BY DEF StageKey
    <3> QED
      BY <3>1, Ranges
  <2> QED
    BY <2>1 DEF KeyBefore
<1>3. \A i, j \in 1..n : keys[i] = keys[j] => i = j
  <2> TAKE i, j \in 1..n
  <2>1. i < j \/ j < i \/ i = j
    BY <1>1
  <2>2. keys[i] \in S /\ keys[j] \in S
    BY <1>1
  <2> QED
    BY <1>1, <1>2, <2>1, <2>2
<1>4. keys \in Injection(1..n, S)
  BY <1>1, <1>3 DEF Injection, IsInjective
<1>5. Cardinality(1..n) = n
  <2>1. Cardinality(1..n) = IF 1 > n THEN 0 ELSE n - 1 + 1
    BY <1>1, FS_Interval
  <2> QED
    BY <1>1, <2>1
<1>6. keys \in Surjection(1..n, S)
  <2>1. Cardinality(1..n) = Cardinality(S)
    BY <1>5 DEF n
  <2> QED
    BY <1>4, <2>1, FS_Injection
<1> QED
  BY <1>6 DEF Surjection, n, keys

\* The keys are finitely many, because token ids are u32s and accounts finite.
LEMMA StageKeyFinite == IsFiniteSet(StageKey)
<1>1. IsFiniteSet(TokenIds) /\ IsFiniteSet(Account)
  BY TokenOpsAssumption, FS_Interval DEF Account
<1> DEFINE P == TokenIds \X (Account \X Account)
           f == [p \in P |-> <<p[1], p[2][1], p[2][2]>>]
<1>2. IsFiniteSet(P)
  <2>1. IsFiniteSet(Account \X Account)
    BY <1>1, FS_Product
  <2> QED
    BY <1>1, <2>1, FS_Product
<1>3. IsFiniteSet({f[p] : p \in P})
  <2>1. f \in Surjection(P, {f[p] : p \in P})
    BY DEF Surjection
  <2> HIDE DEF f, P
  <2> QED
    BY <1>2, <2>1, FS_Surjection
<1>4. StageKey \subseteq {f[p] : p \in P}
  <2> SUFFICES ASSUME NEW k \in StageKey PROVE \E p \in P : f[p] = k
    OBVIOUS
  <2>1. k \in TokenIds \X Account \X Account
    BY DEF StageKey
  <2>2. <<k[1], <<k[2], k[3]>>>> \in P /\ f[<<k[1], <<k[2], k[3]>>>>] = k
    BY <2>1
  <2> QED
    BY <2>2
<1> QED
  BY <1>3, <1>4, FS_Subset

-----------------------------------------------------------------------------
(* The loops, as runs. *)

\* process_mint and process_transfer keep the type of a ledger.
LEMMA ProcessTypes ==
  ASSUME NEW s \in LedgerState, NEW op, op.to \in Account, op.token_id \in TokenIds,
         op.amount \in U64
  PROVE  /\ ProcessMint(s, op) \in LedgerState
         /\ op.from \in Account => ProcessTransfer(s, op) \in LedgerState
<1> DEFINE b == s.bal[op.token_id]
           v == SaturatingAdd(b[op.to], op.amount)
<1>1. s.known \in SUBSET TokenIds /\ s.bal \in [TokenIds -> [Account -> U64]] /\ b \in [Account -> U64]
  BY DEF LedgerState
<1>2. v \in U64
  <2>1. b[op.to] \in U64
    BY <1>1
  <2> HIDE DEF b
  <2> QED
    BY <2>1, Ranges DEF SaturatingAdd
<1>3. ProcessMint(s, op) \in LedgerState
  <2>1. [known |-> s.known \cup {op.token_id},
         bal |-> [s.bal EXCEPT ![op.token_id] = [b EXCEPT ![op.to] = v]]] \in LedgerState
    BY <1>1, <1>2 DEF LedgerState
  <2> QED
    BY <2>1 DEF ProcessMint
<1>4. ASSUME op.from \in Account PROVE ProcessTransfer(s, op) \in LedgerState
  <2>1. CASE TransferRefused(s, op)
    BY <2>1 DEF ProcessTransfer
  <2>2. CASE ~TransferRefused(s, op)
    <3> DEFINE d == [b EXCEPT ![op.from] = b[op.from] - op.amount]
               c == [d EXCEPT ![op.to] = v]
    <3>1. b[op.from] \in U64 /\ op.amount <= b[op.from]
      <4>1. b[op.from] \in U64 /\ ~(b[op.from] < op.amount)
        BY <1>1, <1>4, <2>2 DEF TransferRefused
      <4> HIDE DEF b
      <4> QED
        BY <4>1, Ranges
    <3>2. b[op.from] - op.amount \in U64
      BY <3>1, Ranges
    <3>3. d \in [Account -> U64]
      BY <1>1, <3>2
    <3>4. c \in [Account -> U64]
      BY <1>2, <3>3
    <3>5. [known |-> s.known, bal |-> [s.bal EXCEPT ![op.token_id] = c]] \in LedgerState
      <4> HIDE DEF c
      <4> QED
        BY <1>1, <3>4 DEF LedgerState
    <3> QED
      BY <2>2, <3>5 DEF ProcessTransfer
  <2> QED
    BY <2>1, <2>2
<1> QED
  BY <1>3, <1>4

\* One round of the first loop, on the sums and on the state.
StageStep(st, so) == IF so.operation.type = "Transfer" THEN Stage(st, so.operation) ELSE st
MintStep(s, so) == IF so.operation.type = "Mint" THEN ProcessMint(s, so.operation) ELSE s

\* StageAll is the end of a run of the loop.
LEMMA StageAllRun ==
  ASSUME NEW batch \in Seq(SignedOperation)
  PROVE  \E r \in [0..Len(batch) -> [StageKey -> I64]] :
           /\ r[0] = NothingStaged
           /\ \A i \in 1..Len(batch) : r[i] = StageStep(r[i - 1], batch[i])
           /\ StageAll(batch) = r[Len(batch)]
<1> DEFINE n == Len(batch)
           X == [StageKey -> I64]
           F == [i \in 1..n |-> [st \in X |-> StageStep(st, batch[i])]]
           Rec(g) == g = [i \in 0..n |-> IF i = 0 THEN NothingStaged
                                         ELSE IF batch[i].operation.type = "Transfer"
                                              THEN Stage(g[i - 1], batch[i].operation)
                                              ELSE g[i - 1]]
           G == CHOOSE g : Rec(g)
<1>1. n \in Nat
  OBVIOUS
<1>2. NothingStaged \in X
  BY Ranges DEF NothingStaged
<1>3. \A i \in 1..n, st \in X : StageStep(st, batch[i]) \in X
  <2> TAKE i \in 1..n, st \in X
  <2> DEFINE op == batch[i].operation
  <2>1. /\ op.to \in Account /\ op.token_id \in TokenIds /\ op.amount \in U64
        /\ op.type = "Transfer" => op.from \in Account
    BY OperationFacts
  <2> HIDE DEF op
  <2>2. op.type = "Transfer" => Stage(st, op) \in X
    BY <2>1, StageType
  <2> QED
    BY <2>2 DEF StageStep, op
<1>4. PICK r : IsRun(r, n, X, NothingStaged, F)
  <2>1. F \in [1..n -> [X -> X]]
    BY <1>3
  <2> HIDE DEF F, X, n
  <2> QED
    BY <1>1, <1>2, <2>1, LoopRuns
<1>5. \A i \in 1..n : r[i] = StageStep(r[i - 1], batch[i])
  <2> TAKE i \in 1..n
  <2>1. i - 1 \in 0..n
    BY <1>1
  <2> HIDE DEF X, n
  <2> QED
    BY <1>4, <2>1 DEF IsRun
<1>6. Rec(r)
  BY <1>4, <1>5 DEF StageStep, IsRun
<1>7. Rec(G)
  <2> HIDE DEF Rec
  <2> QED
    BY <1>6
<1>8. StageAll(batch) = G[n]
  BY DEF StageAll
<1>9. G[n] = r[n]
  <2> DEFINE T == {i \in 0..n : G[i] = r[i]}
  <2> HIDE DEF G
  <2>1. 0 \in T
    BY <1>4, <1>7 DEF IsRun
  <2>2. ASSUME NEW i \in 1..n, i - 1 \in T PROVE i \in T
    <3>1. i \in 0..n /\ i # 0
      BY <1>1
    <3>2. G[i] = StageStep(G[i - 1], batch[i])
      <4> HIDE DEF n
      <4> QED
        BY <1>7, <3>1 DEF StageStep
    <3> QED
      BY <1>5, <2>2, <3>1, <3>2
  <2> HIDE DEF T
  <2>3. \A i \in 0..n : i \in T
    BY <1>1, <2>1, <2>2, CountUp, Zenon
  <2> QED
    BY <1>1, <2>3 DEF T
<1> QED
  BY <1>4, <1>5, <1>8, <1>9 DEF IsRun

\* MintAll is the end of a run of the loop.
LEMMA MintAllRun ==
  ASSUME NEW s \in LedgerState, NEW batch \in Seq(SignedOperation)
  PROVE  \E r \in [0..Len(batch) -> LedgerState] :
           /\ r[0] = s
           /\ \A i \in 1..Len(batch) : r[i] = MintStep(r[i - 1], batch[i])
           /\ MintAll(s, batch) = r[Len(batch)]
<1> DEFINE n == Len(batch)
           X == LedgerState
           F == [i \in 1..n |-> [l \in X |-> MintStep(l, batch[i])]]
           Rec(g) == g = [i \in 0..n |-> IF i = 0 THEN s
                                         ELSE IF batch[i].operation.type = "Mint"
                                              THEN ProcessMint(g[i - 1], batch[i].operation)
                                              ELSE g[i - 1]]
           G == CHOOSE g : Rec(g)
<1>1. n \in Nat
  OBVIOUS
<1>3. \A i \in 1..n, l \in X : MintStep(l, batch[i]) \in X
  <2> TAKE i \in 1..n, l \in X
  <2> DEFINE op == batch[i].operation
  <2>1. op.to \in Account /\ op.token_id \in TokenIds /\ op.amount \in U64
    BY OperationFacts
  <2> HIDE DEF op
  <2>2. ProcessMint(l, op) \in X
    BY <2>1, ProcessTypes
  <2> QED
    BY <2>2 DEF MintStep, op
<1>4. PICK r : IsRun(r, n, X, s, F)
  <2>1. F \in [1..n -> [X -> X]]
    BY <1>3
  <2> HIDE DEF F, n
  <2> QED
    BY <1>1, <2>1, LoopRuns
<1>5. \A i \in 1..n : r[i] = MintStep(r[i - 1], batch[i])
  <2> TAKE i \in 1..n
  <2>1. i - 1 \in 0..n
    BY <1>1
  <2> HIDE DEF X, n
  <2> QED
    BY <1>4, <2>1 DEF IsRun
<1>6. Rec(r)
  BY <1>4, <1>5 DEF MintStep, IsRun
<1>7. Rec(G)
  <2> HIDE DEF Rec
  <2> QED
    BY <1>6
<1>8. MintAll(s, batch) = G[n]
  BY DEF MintAll
<1>9. G[n] = r[n]
  <2> DEFINE T == {i \in 0..n : G[i] = r[i]}
  <2> HIDE DEF G
  <2>1. 0 \in T
    BY <1>4, <1>7 DEF IsRun
  <2>2. ASSUME NEW i \in 1..n, i - 1 \in T PROVE i \in T
    <3>1. i \in 0..n /\ i # 0
      BY <1>1
    <3>2. G[i] = MintStep(G[i - 1], batch[i])
      <4> HIDE DEF n
      <4> QED
        BY <1>7, <3>1 DEF MintStep
    <3> QED
      BY <1>5, <2>2, <3>1, <3>2
  <2> HIDE DEF T
  <2>3. \A i \in 0..n : i \in T
    BY <1>1, <2>1, <2>2, CountUp, Zenon
  <2> QED
    BY <1>1, <2>3 DEF T
<1> QED
  BY <1>4, <1>5, <1>8, <1>9 DEF IsRun

\* r is a run of the second loop on n transfers.
IsTransferRun(r, n, s, ops) ==
  /\ r \in [0..n -> LedgerState]
  /\ r[0] = s
  /\ \A i \in 1..n : r[i] = ProcessTransfer(r[i - 1], ops[i])

\* TransferAll is the end of a run of the second loop.
LEMMA TransferAllRun ==
  ASSUME NEW s \in LedgerState, NEW n \in Nat, NEW ops, DOMAIN ops = 1..n, Len(ops) = n,
         \A i \in 1..n : /\ ops[i].from \in Account /\ ops[i].to \in Account
                         /\ ops[i].token_id \in TokenIds /\ ops[i].amount \in U64
  PROVE  \E r : IsTransferRun(r, n, s, ops) /\ TransferAll(s, ops) = r[n]
<1> DEFINE X == LedgerState
           F == [i \in 1..n |-> [l \in X |-> ProcessTransfer(l, ops[i])]]
           Rec(g) == g = [i \in 0..n |-> IF i = 0 THEN s ELSE ProcessTransfer(g[i - 1], ops[i])]
           G == CHOOSE g : Rec(g)
<1>3. \A i \in 1..n, l \in X : ProcessTransfer(l, ops[i]) \in X
  BY ProcessTypes
<1>4. PICK r : IsRun(r, n, X, s, F)
  <2>1. F \in [1..n -> [X -> X]]
    BY <1>3
  <2> HIDE DEF F
  <2> QED
    BY <2>1, LoopRuns
<1>5. \A i \in 1..n : r[i] = ProcessTransfer(r[i - 1], ops[i])
  <2> TAKE i \in 1..n
  <2>1. i - 1 \in 0..n
    OBVIOUS
  <2> HIDE DEF X
  <2> QED
    BY <1>4, <2>1 DEF IsRun
<1>6. Rec(r)
  BY <1>4, <1>5 DEF IsRun
<1>7. Rec(G)
  <2> HIDE DEF Rec
  <2> QED
    BY <1>6
<1>8. TransferAll(s, ops) = G[n]
  BY DEF TransferAll
<1>9. G[n] = r[n]
  <2> DEFINE T == {i \in 0..n : G[i] = r[i]}
  <2> HIDE DEF G
  <2>1. 0 \in T
    BY <1>4, <1>7 DEF IsRun
  <2>2. ASSUME NEW i \in 1..n, i - 1 \in T PROVE i \in T
    <3>1. G[i] = ProcessTransfer(G[i - 1], ops[i])
      BY <1>7
    <3> QED
      BY <1>5, <2>2, <3>1
  <2> HIDE DEF T
  <2>3. \A i \in 0..n : i \in T
    BY <2>1, <2>2, CountUp, Zenon
  <2> QED
    BY <2>3 DEF T
<1> QED
  BY <1>4, <1>5, <1>8, <1>9 DEF IsRun, IsTransferRun

-----------------------------------------------------------------------------
(* The whole transition. *)

\* The transfers of the second loop.
LEMMA NetTransfersFacts ==
  ASSUME NEW st \in [StageKey -> I64], NEW ops, ops = NetTransfers(st)
  PROVE  /\ Len(ops) \in Nat /\ DOMAIN ops = 1..Len(ops)
         /\ \A i \in 1..Len(ops) : \E k \in StageKey : st[k] # 0 /\ ops[i] = NetTransfer(k, st[k])
<1> DEFINE S == {k \in StageKey : st[k] # 0}
           keys == KeysInOrder(S)
<1>1. IsFiniteSet(S)
  BY StageKeyFinite, FS_Subset
<1>2. keys \in [1..Cardinality(S) -> S] /\ Cardinality(S) \in Nat
  BY <1>1, KeysInOrderFacts
<1> HIDE DEF keys
<1>3. ops = [i \in 1..Cardinality(S) |-> NetTransfer(keys[i], st[keys[i]])]
  BY <1>2 DEF NetTransfers, keys
<1>4. \A i \in 1..Cardinality(S) : keys[i] \in StageKey /\ st[keys[i]] # 0
                                     /\ ops[i] = NetTransfer(keys[i], st[keys[i]])
  BY <1>2, <1>3
<1> HIDE DEF S
<1>5. Len(ops) = Cardinality(S) /\ DOMAIN ops = 1..Cardinality(S)
  BY <1>2, <1>3
<1> QED
  BY <1>2, <1>4, <1>5

\* state_transition leaves a ledger, whatever it is given.
LEMMA TransitionType ==
  ASSUME NEW s \in LedgerState, NEW batch \in Seq(SignedOperation)
  PROVE  Transition(s, batch) \in LedgerState
<1>1. MintAll(s, batch) \in LedgerState
  <2>1. Len(batch) \in 0..Len(batch)
    OBVIOUS
  <2> QED
    BY <2>1, MintAllRun
<1>2. StageAll(batch) \in [StageKey -> I64]
  <2>1. Len(batch) \in 0..Len(batch)
    OBVIOUS
  <2> QED
    BY <2>1, StageAllRun
<1> DEFINE ops == NetTransfers(StageAll(batch))
<1>3. /\ Len(ops) \in Nat /\ DOMAIN ops = 1..Len(ops)
      /\ \A i \in 1..Len(ops) : \E k \in StageKey : ops[i] = NetTransfer(k, StageAll(batch)[k])
  BY <1>2, NetTransfersFacts
<1> HIDE DEF ops
<1>4. \A i \in 1..Len(ops) : /\ ops[i].from \in Account /\ ops[i].to \in Account
                             /\ ops[i].token_id \in TokenIds /\ ops[i].amount \in U64
  <2> TAKE i \in 1..Len(ops)
  <2>1. PICK k \in StageKey : ops[i] = NetTransfer(k, StageAll(batch)[k])
    BY <1>3
  <2>2. StageAll(batch)[k] \in I64
    BY <1>2
  <2> QED
    BY <2>1, <2>2, NetTransferFacts
<1>5. TransferAll(MintAll(s, batch), ops) \in LedgerState
  <2>1. PICK r : IsTransferRun(r, Len(ops), MintAll(s, batch), ops)
                   /\ TransferAll(MintAll(s, batch), ops) = r[Len(ops)]
    BY <1>1, <1>3, <1>4, TransferAllRun
  <2>2. Len(ops) \in 0..Len(ops)
    BY <1>3
  <2> QED
    BY <2>1, <2>2 DEF IsTransferRun
<1> QED
  BY <1>5 DEF Transition, ops

\* r is a lawful successor of s: what TokenSupply allows in one step.
Follows(s, r) ==
  /\ Lawful(r)
  /\ s.known \subseteq r.known
  /\ \A t \in s.known : Total(r.bal[t]) = Total(s.bal[t])
  /\ \A t \in r.known \ s.known : Total(r.bal[t]) \in 1..U64Max

\* Successors of successors are successors.
LEMMA FollowsOn ==
  /\ \A s : Lawful(s) => Follows(s, s)
  /\ \A s, q, r : Follows(s, q) /\ Follows(q, r) => Follows(s, r)
BY DEF Follows

\* Without transfers from an account to itself there is no such sum.
LEMMA NoSelfSum ==
  ASSUME NEW batch \in Seq(SignedOperation),
         \A i \in 1..Len(batch) : batch[i].operation.type = "Transfer" =>
                                   batch[i].operation.from # batch[i].operation.to
  PROVE  /\ StageAll(batch) \in [StageKey -> I64]
         /\ \A k \in StageKey : k[2] = k[3] => StageAll(batch)[k] = 0
<1> DEFINE n == Len(batch)
           st == StageAll(batch)
<1>1. n \in Nat /\ n \in 0..n
  OBVIOUS
<1>2. PICK r \in [0..n -> [StageKey -> I64]] :
        /\ r[0] = NothingStaged /\ \A i \in 1..n : r[i] = StageStep(r[i - 1], batch[i])
        /\ st = r[n]
  BY StageAllRun
<1> DEFINE T == {i \in 0..n : \A k \in StageKey : k[2] = k[3] => r[i][k] = 0}
<1>3. 0 \in T
  BY <1>1, <1>2 DEF NothingStaged
<1>4. ASSUME NEW i \in 1..n, i - 1 \in T PROVE i \in T
  <2> DEFINE op == batch[i].operation
             q == r[i - 1]
  <2>1. /\ op.to \in Account /\ op.token_id \in TokenIds /\ op.amount \in U64
        /\ op.type = "Transfer" => op.from \in Account /\ op.from # op.to
    BY OperationFacts
  <2>2. i \in 0..n /\ q \in [StageKey -> I64] /\ \A k \in StageKey : k[2] = k[3] => q[k] = 0
    BY <1>1, <1>4
  <2>3. r[i] = IF op.type = "Transfer" THEN Stage(q, op) ELSE q
    BY <1>2 DEF StageStep
  <2> HIDE DEF op, q
  <2>4. \A k \in StageKey : k[2] = k[3] => r[i][k] = 0
    <3>1. CASE op.type = "Transfer"
      <4>1. CanonicalKey(op)[2] # CanonicalKey(op)[3]
        BY <2>1, <2>2, <3>1, StageType
      <4>2. \A k \in StageKey : k # CanonicalKey(op) => r[i][k] = q[k]
        BY <2>2, <2>3, <3>1 DEF Stage
      <4> QED
        BY <2>2, <4>1, <4>2
    <3>2. CASE op.type # "Transfer"
      BY <2>2, <2>3, <3>2
    <3> QED
      BY <3>1, <3>2
  <2> QED
    BY <2>2, <2>4
<1> HIDE DEF T
<1>5. \A i \in 0..n : i \in T
  BY <1>1, <1>3, <1>4, CountUp, Zenon
<1> QED
  BY <1>1, <1>2, <1>5 DEF T

\* A batch that verifies takes a lawful ledger to a lawful successor: neither
\* the order of mints and transfers nor netting changes a supply.
LEMMA TransitionFollows ==
  ASSUME NEW s, Lawful(s), NEW batch \in Seq(SignedOperation), VerifyOperations(batch)
  PROVE  Follows(s, Transition(s, batch))
<1> DEFINE n == Len(batch)
<1>1. n \in Nat /\ n \in 0..n /\ DOMAIN batch = 1..n /\ s \in LedgerState
  BY DEF Lawful
<1>2. \A i \in 1..n : VerifyOperation(batch[i])
  BY <1>1 DEF VerifyOperations
<1>3. Follows(s, MintAll(s, batch))
  <2>1. PICK r \in [0..n -> LedgerState] :
          /\ r[0] = s /\ \A i \in 1..n : r[i] = MintStep(r[i - 1], batch[i])
          /\ MintAll(s, batch) = r[n]
    BY <1>1, MintAllRun
  <2> DEFINE T == {i \in 0..n : Follows(s, r[i])}
  <2>2. 0 \in T
    BY <1>1, <2>1, FollowsOn
  <2>3. ASSUME NEW i \in 1..n, i - 1 \in T PROVE i \in T
    <3> DEFINE op == batch[i].operation
    <3>1. /\ op.to \in Account /\ op.token_id \in TokenIds /\ op.amount \in U64
          /\ op.type = "Mint" => op.amount # 0
      BY <1>2, OperationFacts DEF VerifyOperation
    <3> DEFINE q == r[i - 1]
    <3>2. Follows(s, q) /\ Lawful(q) /\ i \in 0..n
      BY <1>1, <2>3 DEF Follows
    <3>3. r[i] = IF op.type = "Mint" THEN ProcessMint(q, op) ELSE q
      BY <2>1 DEF MintStep
    <3> HIDE DEF op, q
    <3>4. CASE op.type = "Mint" /\ ~MintRefused(q, op)
      <4>1. /\ Lawful(r[i]) /\ r[i].known = q.known \cup {op.token_id}
            /\ Total(r[i].bal[op.token_id]) = op.amount
            /\ \A t \in TokenIds \ {op.token_id} : r[i].bal[t] = q.bal[t]
        BY <3>1, <3>2, <3>3, <3>4, MintSupply
      <4>2. op.token_id \notin q.known /\ q.known \subseteq TokenIds
        BY <3>2, <3>4 DEF MintRefused, Lawful, LedgerState
      <4>3. op.amount \in 1..U64Max
        BY <3>1, <3>4, Ranges
      <4>4. Follows(q, r[i])
        BY <4>1, <4>2, <4>3 DEF Follows
      <4> QED
        BY <3>2, <4>4, FollowsOn
    <3>5. CASE ~(op.type = "Mint" /\ ~MintRefused(q, op))
      <4>1. r[i] = q
        BY <3>3, <3>5 DEF ProcessMint
      <4> QED
        BY <3>2, <4>1
    <3> QED
      BY <3>4, <3>5
  <2> HIDE DEF T
  <2>4. \A i \in 0..n : i \in T
    BY <1>1, <2>2, <2>3, CountUp, Zenon
  <2> QED
    BY <1>1, <2>1, <2>4 DEF T
<1> DEFINE st == StageAll(batch)
<1>4. st \in [StageKey -> I64] /\ \A k \in StageKey : k[2] = k[3] => st[k] = 0
  <2>1. \A i \in 1..n : batch[i].operation.type = "Transfer" =>
                          batch[i].operation.from # batch[i].operation.to
    BY <1>2 DEF VerifyOperation
  <2> QED
    BY <2>1, NoSelfSum
<1> DEFINE ops == NetTransfers(st)
           m == Len(ops)
<1> HIDE DEF st
<1>5. /\ m \in Nat /\ DOMAIN ops = 1..m
      /\ \A i \in 1..m : \E k \in StageKey : st[k] # 0 /\ ops[i] = NetTransfer(k, st[k])
  BY <1>4, NetTransfersFacts
<1> HIDE DEF ops
<1>6. \A i \in 1..m : /\ ops[i].from \in Account /\ ops[i].to \in Account /\ ops[i].from # ops[i].to
                      /\ ops[i].token_id \in TokenIds /\ ops[i].amount \in U64
  <2> TAKE i \in 1..m
  <2>1. PICK k \in StageKey : st[k] # 0 /\ ops[i] = NetTransfer(k, st[k])
    BY <1>5
  <2>2. st[k] \in I64 /\ k[2] # k[3]
    BY <1>4, <2>1
  <2> QED
    BY <2>1, <2>2, NetTransferFacts
<1> DEFINE s1 == MintAll(s, batch)
<1> HIDE DEF s1
<1>7. Follows(s1, TransferAll(s1, ops))
  <2>1. s1 \in LedgerState /\ Lawful(s1)
    BY <1>3 DEF s1, Follows, Lawful
  <2>2. PICK r : IsTransferRun(r, m, s1, ops) /\ TransferAll(s1, ops) = r[m]
    <3>1. \A i \in 1..m : /\ ops[i].from \in Account /\ ops[i].to \in Account
                          /\ ops[i].token_id \in TokenIds /\ ops[i].amount \in U64
      BY <1>6
    <3>2. m \in Nat /\ DOMAIN ops = 1..m /\ Len(ops) = m
      BY <1>5
    <3> HIDE DEF m
    <3> QED
      BY <2>1, <3>1, <3>2, TransferAllRun
  <2> DEFINE T == {i \in 0..m : Follows(s1, r[i])}
  <2>3. 0 \in T
    BY <1>5, <2>1, <2>2, FollowsOn DEF IsTransferRun
  <2>4. ASSUME NEW i \in 1..m, i - 1 \in T PROVE i \in T
    <3> DEFINE op == ops[i]
               q == r[i - 1]
    <3>1. Follows(s1, q) /\ Lawful(q) /\ i \in 0..m
      BY <1>5, <2>4 DEF Follows
    <3>2. r[i] = ProcessTransfer(q, op)
      BY <2>2 DEF IsTransferRun
    <3>3. op.from \in Account /\ op.to \in Account /\ op.from # op.to
            /\ op.token_id \in TokenIds /\ op.amount \in U64
      BY <1>6
    <3> HIDE DEF op, q
    <3>4. CASE ~TransferRefused(q, op)
      <4>1. Lawful(r[i]) /\ r[i].known = q.known
              /\ \A t \in TokenIds : Total(r[i].bal[t]) = Total(q.bal[t])
        BY <3>1, <3>2, <3>3, <3>4, TransferSupply
      <4>2. q.known \subseteq TokenIds
        BY <3>1 DEF Lawful, LedgerState
      <4>3. Follows(q, r[i])
        BY <4>1, <4>2 DEF Follows
      <4> QED
        BY <3>1, <4>3, FollowsOn
    <3>5. CASE TransferRefused(q, op)
      <4>1. r[i] = q
        BY <3>2, <3>5 DEF ProcessTransfer
      <4> QED
        BY <3>1, <4>1
    <3> QED
      BY <3>4, <3>5
  <2> HIDE DEF T
  <2>5. \A i \in 0..m : i \in T
    BY <1>5, <2>3, <2>4, CountUp, Zenon
  <2> QED
    BY <1>5, <2>2, <2>5 DEF T
<1> QED
  BY <1>3, <1>7, FollowsOn DEF Transition, st, ops, s1

-----------------------------------------------------------------------------
(* Batch after batch. *)

IsBatchRun(r, n, s, batches) ==
  /\ r \in [0..n -> LedgerState]
  /\ r[0] = s
  /\ \A i \in 1..n : r[i] = Transition(r[i - 1], batches[i])

\* Transitions is the end of such a run.
LEMMA TransitionsRun ==
  ASSUME NEW s \in LedgerState, NEW n \in Nat, NEW batches, Len(batches) = n,
         \A i \in 1..n : batches[i] \in Seq(SignedOperation)
  PROVE  /\ \E r : IsBatchRun(r, n, s, batches)
         /\ \A r : IsBatchRun(r, n, s, batches) => Transitions(s, batches) = r[n]
<1> DEFINE X == LedgerState
           F == [i \in 1..n |-> [l \in X |-> Transition(l, batches[i])]]
           Rec(g) == g = [i \in 0..n |-> IF i = 0 THEN s ELSE Transition(g[i - 1], batches[i])]
           G == CHOOSE g : Rec(g)
<1>1. F \in [1..n -> [X -> X]]
  BY TransitionType
<1>2. PICK r : IsRun(r, n, X, s, F)
  <2> HIDE DEF F
  <2> QED
    BY <1>1, LoopRuns
<1>3. \A q : IsBatchRun(q, n, s, batches) <=> IsRun(q, n, X, s, F)
  <2> TAKE q
  <2>1. ASSUME q \in [0..n -> X]
        PROVE  \A i \in 1..n : F[i][q[i - 1]] = Transition(q[i - 1], batches[i])
    <3> TAKE i \in 1..n
    <3>1. q[i - 1] \in X
      BY <2>1
    <3> HIDE DEF X
    <3> QED
      BY <3>1
  <2> HIDE DEF F
  <2> QED
    BY <2>1 DEF IsBatchRun, IsRun
<1>4. ASSUME NEW q, IsBatchRun(q, n, s, batches)
      PROVE  Transitions(s, batches) = q[n]
  <2>1. Rec(G)
    <3>1. Rec(q)
      BY <1>4 DEF IsBatchRun
    <3> HIDE DEF Rec
    <3> QED
      BY <3>1
  <2>2. Transitions(s, batches) = G[n]
    BY DEF Transitions
  <2> HIDE DEF G
  <2>3. G[0] = s /\ \A i \in 1..n : G[i] = Transition(G[i - 1], batches[i])
    BY <2>1
  <2>4. \A i \in 1..n : G[i - 1] \in X => G[i] = F[i][G[i - 1]]
    <3> HIDE DEF X
    <3> QED
      BY <2>3
  <2> HIDE DEF F, X
  <2> QED
    BY <1>3, <1>4, <2>2, <2>3, <2>4, LoopUnique
<1> QED
  BY <1>2, <1>3, <1>4

(***************************************************************************)
(*                  Part 3: MerkleTree and WitnessedState                  *)
(* For a tree of any depth: where the nodes are, what insert changes, that *)
(* the hashes always are those of the tree over the entries, that a root   *)
(* determines the entries, that a state file loads, that a run does to the *)
(* balances what state_transition does to a ledger, and that a witness     *)
(* leads refinement through the same run.                                  *)
(***************************************************************************)

\* The keys whose index is that of a leaf.  In the code the wrong bit is cleared
\* and some keys have an index beyond the leaves (see HighIndex.cfg), for which
\* nothing is claimed.
LowIndices == \A k \in Key : TreeIndexFromKey(k) \in 0..(TREE_SIZE - 1)

-----------------------------------------------------------------------------
(* The layout of the array of hashes. *)

LEMMA Depth == TREE_DEPTH \in Nat /\ TREE_DEPTH # 0 /\ TREE_DEPTH + 1 \in Nat
BY MerkleTreeAssumption

\* The recursion of Pow2.
LEMMA Pow2Facts ==
  /\ Pow2 \in [0..(TREE_DEPTH + 1) -> Nat \ {0}]
  /\ Pow2[0] = 1
  /\ \A n \in 1..(TREE_DEPTH + 1) : Pow2[n] = 2 * Pow2[n - 1]
<1> DEFINE N == TREE_DEPTH + 1
           X == Nat \ {0}
           F == [i \in 1..N |-> [x \in X |-> 2 * x]]
           Rec(g) == g = [n \in 0..N |-> IF n = 0 THEN 1 ELSE 2 * g[n - 1]]
           G == CHOOSE g : Rec(g)
<1>1. N \in Nat /\ 1 \in X /\ \A i \in 1..N : i \in 0..N /\ i # 0 /\ i - 1 \in 0..N
  BY Depth
<1>2. F \in [1..N -> [X -> X]]
  OBVIOUS
<1>3. PICK r : IsRun(r, N, X, 1, F)
  <2> HIDE DEF F, X, N
  <2> QED
    BY <1>1, <1>2, LoopRuns
<1>4. r \in [0..N -> X] /\ r[0] = 1 /\ \A i \in 1..N : r[i] = 2 * r[i - 1]
  <2> HIDE DEF N
  <2> QED
    BY <1>1, <1>3 DEF IsRun
<1>5. Rec(r)
  <2> HIDE DEF N
  <2>1. \A i \in 0..N : i # 0 => i \in 1..N
    BY <1>1
  <2> HIDE DEF X
  <2> QED
    BY <1>4, <2>1
<1>6. Rec(G)
  <2> HIDE DEF Rec
  <2> QED
    BY <1>5
<1>7. Pow2 = G
  BY DEF Pow2
<1> HIDE DEF G
<1>8. G = [n \in 0..N |-> G[n]] /\ G[0] = 1 /\ \A i \in 1..N : G[i] = 2 * G[i - 1]
  <2> HIDE DEF N
  <2> QED
    BY <1>1, <1>6
<1> DEFINE T == {i \in 0..N : G[i] \in X}
<1>9. 0 \in T
  BY <1>1, <1>8
<1>10. ASSUME NEW i \in 1..N, i - 1 \in T PROVE i \in T
  <2>1. G[i] = 2 * G[i - 1] /\ G[i - 1] \in Nat /\ G[i - 1] # 0 /\ i \in 0..N
    BY <1>1, <1>8, <1>10
  <2>2. G[i] \in X
    BY <2>1
  <2> QED
    BY <2>1, <2>2
<1> HIDE DEF T, N
<1>11. \A i \in 0..N : i \in T
  BY <1>1, <1>9, <1>10, CountUp, Zenon
<1> HIDE DEF X
<1>12. G \in [0..N -> X]
  BY <1>8, <1>11 DEF T
<1> QED
  BY <1>7, <1>8, <1>12 DEF N, X

LEMMA Pow2Grows ==
  ASSUME NEW m \in 0..(TREE_DEPTH + 1), NEW n \in 0..(TREE_DEPTH + 1), m <= n
  PROVE  Pow2[m] <= Pow2[n]
<1> DEFINE k == n - m
           T == {i \in 0..k : Pow2[m] <= Pow2[m + i]}
<1>1. k \in Nat /\ m + k = n /\ m + 0 = m /\ m + k \in 0..(TREE_DEPTH + 1)
  BY Depth
<1>2. 0 \in T
  BY <1>1, Pow2Facts
<1>3. ASSUME NEW i \in 1..k, i - 1 \in T PROVE i \in T
  <2>1. m + i \in 1..(TREE_DEPTH + 1) /\ m + (i - 1) = (m + i) - 1 /\ m + (i - 1) \in 0..(TREE_DEPTH + 1)
    BY <1>1, Depth
  <2>2. Pow2[m + i] = 2 * Pow2[m + (i - 1)] /\ Pow2[m + (i - 1)] \in Nat /\ Pow2[m] \in Nat
    BY <2>1, Pow2Facts
  <2>3. Pow2[m] <= Pow2[m + (i - 1)] /\ i \in 0..k
    BY <1>3
  <2>4. Pow2[m] <= Pow2[m + i]
    BY <2>2, <2>3
  <2> QED
    BY <2>3, <2>4
<1> HIDE DEF T
<1>4. \A i \in 0..k : i \in T
  <2> HIDE DEF k
  <2> QED
    BY <1>1, <1>2, <1>3, CountUp, Zenon
<1>5. k \in T
  BY <1>1, <1>4
<1> QED
  BY <1>1, <1>5 DEF T

\* The number of nodes at a depth.
Width(d) == Pow2[TREE_DEPTH - d]

LEMMA WidthFacts ==
  /\ \A d \in 0..TREE_DEPTH : Width(d) \in Nat \ {0}
  /\ \A d \in 1..TREE_DEPTH : Width(d - 1) = 2 * Width(d)
  /\ Width(0) = TREE_SIZE /\ Width(TREE_DEPTH) = 1
  /\ \A d, e \in 0..TREE_DEPTH : d <= e => Width(e) <= Width(d)
<1>1. \A d \in 0..TREE_DEPTH : TREE_DEPTH - d \in 0..(TREE_DEPTH + 1)
  BY Depth
<1>2. \A d \in 0..TREE_DEPTH : Width(d) \in Nat \ {0}
  BY <1>1, Pow2Facts DEF Width
<1>3. \A d \in 1..TREE_DEPTH : Width(d - 1) = 2 * Width(d)
  <2> TAKE d \in 1..TREE_DEPTH
  <2>1. TREE_DEPTH - (d - 1) \in 1..(TREE_DEPTH + 1) /\ (TREE_DEPTH - (d - 1)) - 1 = TREE_DEPTH - d
    BY Depth
  <2> QED
    BY <2>1, Pow2Facts DEF Width
<1>4. Width(0) = TREE_SIZE /\ Width(TREE_DEPTH) = 1
  <2>1. TREE_DEPTH - 0 = TREE_DEPTH /\ TREE_DEPTH - TREE_DEPTH = 0
    BY Depth
  <2> QED
    BY <2>1, Pow2Facts DEF Width, TREE_SIZE
<1>5. \A d, e \in 0..TREE_DEPTH : d <= e => Width(e) <= Width(d)
  <2> SUFFICES ASSUME NEW d \in 0..TREE_DEPTH, NEW e \in 0..TREE_DEPTH, d <= e
               PROVE  Width(e) <= Width(d)
    OBVIOUS
  <2>1. TREE_DEPTH - e <= TREE_DEPTH - d
    BY Depth
  <2> QED
    BY <1>1, <2>1, Pow2Grows DEF Width
<1> QED
  BY <1>2, <1>3, <1>4, <1>5

LEMMA OffsetFacts ==
  /\ \A d \in 0..TREE_DEPTH : Offset[d] \in Nat /\ Offset[d] = 2 * TREE_SIZE - 2 * Width(d)
  /\ Offset[0] = 0 /\ Offset[TREE_DEPTH] = RootIndex
  /\ TREE_SIZE \in Nat \ {0} /\ RootIndex = 2 * TREE_SIZE - 2 /\ TreeIndex = 0..(2 * TREE_SIZE - 1)
<1> DEFINE N == TREE_DEPTH
           X == Nat
           F == [i \in 1..N |-> [x \in X |-> x + Pow2[N - (i - 1)]]]
           Rec(g) == g = [d \in 0..N |-> IF d = 0 THEN 0 ELSE g[d - 1] + Pow2[N - (d - 1)]]
           G == CHOOSE g : Rec(g)
<1>1. N \in Nat /\ 0 \in X /\ \A i \in 1..N : i \in 0..N /\ i # 0 /\ i - 1 \in 0..N
  BY Depth
<1>2. \A i \in 1..N : Pow2[N - (i - 1)] = Width(i - 1) /\ Width(i - 1) \in Nat
  BY <1>1, WidthFacts DEF Width
<1>3. F \in [1..N -> [X -> X]]
  <2> HIDE DEF N
  <2> QED
    BY <1>2
<1>4. PICK r : IsRun(r, N, X, 0, F)
  <2> HIDE DEF F, X, N
  <2> QED
    BY <1>1, <1>3, LoopRuns
<1>5. r \in [0..N -> X] /\ r[0] = 0 /\ \A i \in 1..N : r[i] = r[i - 1] + Pow2[N - (i - 1)]
  <2> HIDE DEF N
  <2> QED
    BY <1>1, <1>4 DEF IsRun
<1>6. Rec(r)
  <2> HIDE DEF N
  <2>1. \A i \in 0..N : i # 0 => i \in 1..N
    BY <1>1
  <2> HIDE DEF X
  <2> QED
    BY <1>5, <2>1
<1>7. Rec(G)
  <2> HIDE DEF Rec
  <2> QED
    BY <1>6
<1>8. Offset = G
  BY DEF Offset
<1> HIDE DEF G
<1>9. G[0] = 0 /\ \A i \in 1..N : G[i] = G[i - 1] + Width(i - 1)
  <2>1. \A i \in 1..N : G[i] = G[i - 1] + Pow2[N - (i - 1)]
    <3> HIDE DEF N
    <3> QED
      BY <1>1, <1>7
  <2> QED
    BY <1>1, <1>2, <1>7, <2>1
<1>10. TREE_SIZE \in Nat \ {0} /\ RootIndex = 2 * TREE_SIZE - 2 /\ TreeIndex = 0..(2 * TREE_SIZE - 1)
  <2>1. TREE_SIZE \in Nat \ {0}
    BY WidthFacts, <1>1
  <2> QED
    BY <2>1 DEF RootIndex, TREE_HASHES, TreeIndex
<1> DEFINE T == {i \in 0..N : G[i] = 2 * TREE_SIZE - 2 * Width(i)}
<1>11. 0 \in T
  <2>1. Width(0) = TREE_SIZE
    BY WidthFacts
  <2> QED
    BY <1>1, <1>9, <1>10, <2>1
<1>12. ASSUME NEW i \in 1..N, i - 1 \in T PROVE i \in T
  <2>1. Width(i - 1) = 2 * Width(i) /\ Width(i) \in Nat /\ Width(i - 1) \in Nat
    BY <1>1, WidthFacts
  <2>2. G[i - 1] = 2 * TREE_SIZE - 2 * Width(i - 1) /\ G[i] = G[i - 1] + Width(i - 1)
    BY <1>9, <1>12
  <2>3. G[i] = 2 * TREE_SIZE - 2 * Width(i)
    BY <1>10, <2>1, <2>2
  <2> QED
    BY <1>1, <2>3
<1> HIDE DEF T
<1>13. \A i \in 0..N : i \in T
  <2> HIDE DEF N
  <2> QED
    BY <1>1, <1>11, <1>12, CountUp, Zenon
<1>14. \A d \in 0..N : Offset[d] \in Nat /\ Offset[d] = 2 * TREE_SIZE - 2 * Width(d)
  <2> TAKE d \in 0..N
  <2>1. G[d] = 2 * TREE_SIZE - 2 * Width(d)
    BY <1>13 DEF T
  <2>2. Width(d) \in Nat /\ Width(d) <= Width(0) /\ Width(0) = TREE_SIZE /\ 0 \in 0..N
    BY <1>1, WidthFacts
  <2> QED
    BY <1>8, <1>10, <2>1, <2>2
<1>15. Offset[0] = 0 /\ Offset[N] = RootIndex
  <2>1. Width(N) = 1 /\ N \in 0..N
    BY <1>1, WidthFacts
  <2> QED
    BY <1>8, <1>9, <1>10, <1>14, <2>1
<1> QED
  BY <1>10, <1>14, <1>15

\* The i-th node at a depth.
Node(d, i) == Offset[d] + i

\* No two nodes share a slot.
LEMMA NodesApart ==
  ASSUME NEW d \in 0..TREE_DEPTH, NEW e \in 0..TREE_DEPTH,
         NEW i \in 0..(Width(d) - 1), NEW j \in 0..(Width(e) - 1)
  PROVE  /\ Node(d, i) \in TreeIndex
         /\ Node(d, i) = Node(e, j) => d = e /\ i = j
<1>1. /\ Offset[d] \in Nat /\ Offset[d] = 2 * TREE_SIZE - 2 * Width(d)
      /\ Offset[e] \in Nat /\ Offset[e] = 2 * TREE_SIZE - 2 * Width(e)
      /\ Width(d) \in Nat \ {0} /\ Width(e) \in Nat \ {0}
      /\ TREE_SIZE \in Nat /\ TreeIndex = 0..(2 * TREE_SIZE - 1)
  BY OffsetFacts, WidthFacts
<1>2. Node(d, i) \in TreeIndex
  BY <1>1 DEF Node
<1>3. ASSUME d < e PROVE 2 * Width(e) <= Width(d)
  <2>1. e \in 1..TREE_DEPTH /\ e - 1 \in 0..TREE_DEPTH /\ d <= e - 1
    BY <1>3, Depth
  <2> QED
    BY <2>1, WidthFacts
<1>4. ASSUME e < d PROVE 2 * Width(d) <= Width(e)
  <2>1. d \in 1..TREE_DEPTH /\ d - 1 \in 0..TREE_DEPTH /\ e <= d - 1
    BY <1>4, Depth
  <2> QED
    BY <2>1, WidthFacts
<1>5. CASE d < e
  <2> DEFINE w == Width(d)
             x == Width(e)
  <2>0. 2 * x <= w
    BY <1>3, <1>5
  <2>1. Node(d, i) < Node(e, j)
    <3> HIDE DEF w, x
    <3>1. /\ Offset[d] = 2 * TREE_SIZE - 2 * w /\ Offset[e] = 2 * TREE_SIZE - 2 * x
          /\ w \in Nat /\ x \in Nat /\ i < w /\ i \in Nat /\ j \in Nat
      BY <1>1 DEF w, x
    <3> QED
      BY <1>1, <2>0, <3>1 DEF Node
  <2> QED
    BY <1>1, <1>2, <2>1 DEF Node
<1>6. CASE e < d
  <2> DEFINE w == Width(d)
             x == Width(e)
  <2>0. 2 * w <= x
    BY <1>4, <1>6
  <2>1. Node(e, j) < Node(d, i)
    <3> HIDE DEF w, x
    <3>1. /\ Offset[d] = 2 * TREE_SIZE - 2 * w /\ Offset[e] = 2 * TREE_SIZE - 2 * x
          /\ w \in Nat /\ x \in Nat /\ j < x /\ i \in Nat /\ j \in Nat
      BY <1>1 DEF w, x
    <3> QED
      BY <1>1, <2>0, <3>1 DEF Node
  <2> QED
    BY <1>1, <1>2, <2>1 DEF Node
<1>7. CASE d = e
  BY <1>1, <1>2, <1>7 DEF Node
<1> QED
  BY <1>5, <1>6, <1>7, Depth

\* The path from a leaf to the root.
LEMMA AtFacts ==
  ASSUME NEW ix \in 0..(TREE_SIZE - 1)
  PROVE  /\ PathAt(ix)[0] = ix
         /\ \A d \in 0..TREE_DEPTH : /\ PathAt(ix)[d] \in 0..(Width(d) - 1)
                                     /\ Slot(ix, d) = Node(d, PathAt(ix)[d])
         /\ \A d \in 1..TREE_DEPTH : PathAt(ix)[d] = PathAt(ix)[d - 1] \div 2
<1> DEFINE N == TREE_DEPTH
           X == Nat
           F == [i \in 1..N |-> [x \in X |-> x \div 2]]
           Rec(g) == g = [d \in 0..N |-> IF d = 0 THEN ix ELSE g[d - 1] \div 2]
           G == CHOOSE g : Rec(g)
<1>1. N \in Nat /\ ix \in X /\ \A i \in 1..N : i \in 0..N /\ i # 0 /\ i - 1 \in 0..N
  BY Depth, OffsetFacts
<1>2. F \in [1..N -> [X -> X]]
  OBVIOUS
<1>3. PICK r : IsRun(r, N, X, ix, F)
  <2> HIDE DEF F, X, N
  <2> QED
    BY <1>1, <1>2, LoopRuns
<1>4. r \in [0..N -> X] /\ r[0] = ix /\ \A i \in 1..N : r[i] = r[i - 1] \div 2
  <2> HIDE DEF N
  <2> QED
    BY <1>1, <1>3 DEF IsRun
<1>5. Rec(r)
  <2> HIDE DEF N
  <2>1. \A i \in 0..N : i # 0 => i \in 1..N
    BY <1>1
  <2> HIDE DEF X
  <2> QED
    BY <1>4, <2>1
<1>6. Rec(G)
  <2> HIDE DEF Rec
  <2> QED
    BY <1>5
<1>7. PathAt(ix) = G
  BY DEF PathAt
<1> HIDE DEF G
<1>8. G[0] = ix /\ \A i \in 1..N : G[i] = G[i - 1] \div 2
  <2> HIDE DEF N
  <2> QED
    BY <1>1, <1>6
<1> DEFINE T == {i \in 0..N : G[i] \in 0..(Width(i) - 1)}
<1>9. 0 \in T
  <2>1. Width(0) = TREE_SIZE
    BY WidthFacts
  <2> QED
    BY <1>1, <1>8, <2>1
<1>10. ASSUME NEW i \in 1..N, i - 1 \in T PROVE i \in T
  <2>1. G[i - 1] \in 0..(Width(i - 1) - 1) /\ G[i] = G[i - 1] \div 2
    BY <1>8, <1>10
  <2>2. Width(i - 1) = 2 * Width(i) /\ Width(i) \in Nat
    BY <1>1, WidthFacts
  <2>3. \A a, w \in Nat : a < 2 * w => a \div 2 \in 0..(w - 1)
    OBVIOUS
  <2>4. G[i - 1] \in Nat /\ G[i - 1] < 2 * Width(i)
    BY <2>1, <2>2
  <2>5. G[i] \in 0..(Width(i) - 1)
    BY <2>1, <2>2, <2>3, <2>4
  <2> QED
    BY <1>1, <2>5
<1> HIDE DEF T
<1>11. \A i \in 0..N : i \in T
  <2> HIDE DEF N
  <2> QED
    BY <1>1, <1>9, <1>10, CountUp, Zenon
<1>12. \A d \in 0..N : PathAt(ix)[d] \in 0..(Width(d) - 1)
  BY <1>7, <1>11 DEF T
<1> QED
  BY <1>7, <1>8, <1>12 DEF Slot, Node

\* The other child of the node above: its place at the depth.
Mate(ix, d) == IF PathAt(ix)[d] % 2 = 0 THEN PathAt(ix)[d] + 1 ELSE PathAt(ix)[d] - 1

\* The two children of the node at depth d of a path.
LEMMA Children ==
  ASSUME NEW ix \in 0..(TREE_SIZE - 1), NEW d \in 1..TREE_DEPTH
  PROVE  /\ Mate(ix, d - 1) \in 0..(Width(d - 1) - 1)
         /\ Mate(ix, d - 1) # PathAt(ix)[d - 1]
         /\ Sibling(ix, d - 1) = Node(d - 1, Mate(ix, d - 1))
         /\ PathAt(ix)[d - 1] % 2 = 0 => /\ PathAt(ix)[d - 1] = 2 * PathAt(ix)[d]
                                     /\ Mate(ix, d - 1) = 2 * PathAt(ix)[d] + 1
         /\ PathAt(ix)[d - 1] % 2 # 0 => /\ PathAt(ix)[d - 1] = 2 * PathAt(ix)[d] + 1
                                     /\ Mate(ix, d - 1) = 2 * PathAt(ix)[d]
<1> DEFINE a == PathAt(ix)[d - 1]
           u == PathAt(ix)[d]
<1>1. d - 1 \in 0..TREE_DEPTH /\ d \in 0..TREE_DEPTH
  BY Depth
<1>2. a \in Nat /\ a < Width(d - 1) /\ u \in Nat /\ u < Width(d) /\ u = a \div 2
      /\ Slot(ix, d - 1) = Node(d - 1, a)
      /\ Width(d - 1) = 2 * Width(d) /\ Width(d) \in Nat /\ Offset[d - 1] \in Nat
  <2>1. /\ a \in 0..(Width(d - 1) - 1) /\ u \in 0..(Width(d) - 1)
        /\ Slot(ix, d - 1) = Node(d - 1, a) /\ u = a \div 2
    BY <1>1, AtFacts
  <2>2. Width(d - 1) = 2 * Width(d) /\ Width(d) \in Nat /\ Offset[d - 1] \in Nat
    BY <1>1, WidthFacts, OffsetFacts
  <2> HIDE DEF a, u
  <2> QED
    BY <2>1, <2>2
<1> HIDE DEF a, u
<1>3. Mate(ix, d - 1) = IF a % 2 = 0 THEN a + 1 ELSE a - 1
  BY DEF Mate, a
<1>4. Sibling(ix, d - 1) = IF a % 2 = 0 THEN Slot(ix, d - 1) + 1 ELSE Slot(ix, d - 1) - 1
  BY DEF Sibling, a
<1>5. (a % 2 = 0 => a = 2 * u) /\ (a % 2 # 0 => a = 2 * u + 1)
  BY <1>2
<1>6. CASE a % 2 = 0
  <2>1. Mate(ix, d - 1) = a + 1 /\ a = 2 * u /\ Sibling(ix, d - 1) = Node(d - 1, a) + 1
    BY <1>2, <1>3, <1>4, <1>5, <1>6
  <2>2. Mate(ix, d - 1) = 2 * u + 1 /\ Mate(ix, d - 1) \in 0..(Width(d - 1) - 1) /\ Mate(ix, d - 1) # a
    BY <1>2, <2>1
  <2>3. Sibling(ix, d - 1) = Node(d - 1, Mate(ix, d - 1))
    BY <1>2, <2>1 DEF Node
  <2> QED
    BY <1>6, <2>1, <2>2, <2>3 DEF a, u
<1>7. CASE a % 2 # 0
  <2>1. Mate(ix, d - 1) = a - 1 /\ a = 2 * u + 1 /\ Sibling(ix, d - 1) = Node(d - 1, a) - 1
    BY <1>2, <1>3, <1>4, <1>5, <1>7
  <2>2. Mate(ix, d - 1) = 2 * u /\ Mate(ix, d - 1) \in 0..(Width(d - 1) - 1) /\ Mate(ix, d - 1) # a
    BY <1>2, <2>1
  <2>3. Sibling(ix, d - 1) = Node(d - 1, Mate(ix, d - 1))
    BY <1>2, <2>1 DEF Node
  <2> QED
    BY <1>7, <2>1, <2>2, <2>3 DEF a, u
<1> QED
  BY <1>6, <1>7

\* A path and its siblings have nothing in common.
LEMMA SiblingOffPath ==
  ASSUME NEW ix \in 0..(TREE_SIZE - 1), NEW d \in 1..TREE_DEPTH, NEW e \in 0..TREE_DEPTH
  PROVE  /\ Sibling(ix, d - 1) # Slot(ix, e)
         /\ Sibling(ix, d - 1) \in TreeIndex /\ Slot(ix, e) \in TreeIndex
<1>1. d - 1 \in 0..TREE_DEPTH
  BY Depth
<1>2. /\ PathAt(ix)[e] \in 0..(Width(e) - 1) /\ Slot(ix, e) = Node(e, PathAt(ix)[e])
      /\ Mate(ix, d - 1) \in 0..(Width(d - 1) - 1) /\ Sibling(ix, d - 1) = Node(d - 1, Mate(ix, d - 1))
      /\ Mate(ix, d - 1) # PathAt(ix)[d - 1]
  BY AtFacts, Children
<1>3. Node(d - 1, Mate(ix, d - 1)) \in TreeIndex
      /\ (Node(d - 1, Mate(ix, d - 1)) = Node(e, PathAt(ix)[e]) => d - 1 = e /\ Mate(ix, d - 1) = PathAt(ix)[e])
  BY <1>1, <1>2, NodesApart
<1>4. Node(e, PathAt(ix)[e]) \in TreeIndex
  BY <1>2, NodesApart
<1> QED
  BY <1>2, <1>3, <1>4

-----------------------------------------------------------------------------
(* Loops over values of no particular type. *)

\* A round of one of the loops below.
Round(loop, c, i, x) ==
  CASE loop = "insert" -> Climb(x, c, i)
    [] loop = "set" -> SetEntry(x, c[i])
    [] loop = "operations" -> OpOn(x, c[i])
    [] loop = "ledgers" -> LedgerOp(x, c[i])

IsLoop(g, loop, c, n, x) ==
  g = [i \in 0..n |-> IF i = 0 THEN x ELSE Round(loop, c, i, g[i - 1])]

LEMMA LoopExists ==
  ASSUME NEW loop, NEW c, NEW n \in Nat, NEW x
  PROVE  \E g : IsLoop(g, loop, c, n, x)
<1> DEFINE T == {m \in 0..n : \E g : IsLoop(g, loop, c, m, x)}
<1>1. 0 \in T
  <2> DEFINE g == [i \in 0..0 |-> x]
  <2>1. IsLoop(g, loop, c, 0, x)
    <3>1. \A i \in 0..0 : i = 0
      OBVIOUS
    <3> QED
      BY <3>1 DEF IsLoop
  <2> HIDE DEF g
  <2>2. 0 \in 0..n
    OBVIOUS
  <2> QED
    BY <2>1, <2>2
<1>2. ASSUME NEW m \in 1..n, m - 1 \in T PROVE m \in T
  <2>1. PICK q : IsLoop(q, loop, c, m - 1, x)
    BY <1>2
  <2> DEFINE g == [i \in 0..m |-> IF i = m THEN Round(loop, c, m, q[m - 1]) ELSE q[i]]
  <2>2. \A i \in 0..m : i # m => i \in 0..(m - 1)
    OBVIOUS
  <2>3. \A i \in 0..m : i # 0 => i - 1 \in 0..(m - 1) /\ i - 1 \in 0..m /\ i - 1 # m
    OBVIOUS
  <2>4. \A i \in 0..(m - 1) : q[i] = IF i = 0 THEN x ELSE Round(loop, c, i, q[i - 1])
    BY <2>1 DEF IsLoop
  <2>5. \A i \in 0..m : g[i] = IF i = 0 THEN x ELSE Round(loop, c, i, g[i - 1])
    <3> TAKE i \in 0..m
    <3>1. m # 0
      OBVIOUS
    <3>2. CASE i = m
      <4>1. g[i] = Round(loop, c, i, q[i - 1]) /\ g[i - 1] = q[i - 1]
        BY <2>3, <3>1, <3>2
      <4> QED
        BY <3>1, <3>2, <4>1
    <3>3. CASE i # m
      <4>1. g[i] = q[i]
        BY <3>3
      <4>2. i # 0 => g[i - 1] = q[i - 1]
        BY <2>3
      <4> QED
        BY <2>2, <2>4, <3>3, <4>1, <4>2
    <3> QED
      BY <3>2, <3>3
  <2>6. g = [i \in 0..m |-> g[i]]
    OBVIOUS
  <2> HIDE DEF g
  <2>7. IsLoop(g, loop, c, m, x)
    BY <2>5, <2>6 DEF IsLoop
  <2> QED
    BY <2>7
<1> HIDE DEF T
<1>3. \A i \in 0..n : i \in T
  BY <1>1, <1>2, CountUp, Zenon
<1>4. n \in T
  BY <1>3
<1> QED
  BY <1>4 DEF T

-----------------------------------------------------------------------------
(* What insert does. *)

\* An array of hashes, or of entries.
IsArray(H) == H = [i \in TreeIndex |-> H[i]]

\* The hash of the node at depth d of a path, from that of its child on the path
\* and that of the other one.
Up(ix, d, x, y) == IF PathAt(ix)[d - 1] % 2 = 0 THEN HashPair(x, y) ELSE HashPair(y, x)

\* The hashes that inserting vh at ix writes, from the leaf to the root.
IsPath(c, H, ix, vh) ==
  /\ c[0] = vh
  /\ \A d \in 1..TREE_DEPTH : c[d] = Up(ix, d, c[d - 1], H[Sibling(ix, d - 1)])

LEMMA SlotsApart ==
  ASSUME NEW ix \in 0..(TREE_SIZE - 1), NEW d \in 0..TREE_DEPTH, NEW e \in 0..TREE_DEPTH,
         Slot(ix, d) = Slot(ix, e)
  PROVE  d = e
BY AtFacts, NodesApart

LEMMA ClimbFacts ==
  ASSUME NEW g, NEW ix, NEW d
  PROVE  /\ Climb(g, ix, d).hash = Up(ix, d, g.hash, g.hashes[Sibling(ix, d - 1)])
         /\ Climb(g, ix, d).hashes =
              [g.hashes EXCEPT ![Slot(ix, d)] = Up(ix, d, g.hash, g.hashes[Sibling(ix, d - 1)])]
<1> DEFINE y == IF PathAt(ix)[d - 1] % 2 = 0 THEN HashPair(g.hash, g.hashes[Sibling(ix, d - 1)])
                                         ELSE HashPair(g.hashes[Sibling(ix, d - 1)], g.hash)
<1>1. Up(ix, d, g.hash, g.hashes[Sibling(ix, d - 1)]) = y
  BY DEF Up
<1>2. Climb(g, ix, d) = [hashes |-> [g.hashes EXCEPT ![Slot(ix, d)] = y], hash |-> y]
  BY DEF Climb
<1> HIDE DEF y
<1> QED
  BY <1>1, <1>2

\* insert writes the path and nothing beside it.
LEMMA InsertFacts ==
  ASSUME NEW H, IsArray(H), NEW ix \in 0..(TREE_SIZE - 1), NEW vh
  PROVE  /\ IsArray(Insert(H, ix, vh))
         /\ \E c : /\ IsPath(c, H, ix, vh)
                   /\ \A d \in 0..TREE_DEPTH : Insert(H, ix, vh)[Slot(ix, d)] = c[d]
         /\ \A j \in TreeIndex : (\A d \in 0..TREE_DEPTH : j # Slot(ix, d))
                                   => Insert(H, ix, vh)[j] = H[j]
<1> DEFINE N == TREE_DEPTH
           x == [hashes |-> [H EXCEPT ![Slot(ix, 0)] = vh], hash |-> vh]
           Rec(g) == g = [d \in 0..N |-> IF d = 0 THEN x ELSE Climb(g[d - 1], ix, d)]
           G == CHOOSE g : Rec(g)
           c == [d \in 0..N |-> G[d].hash]
           P(d) == /\ IsArray(G[d].hashes)
                   /\ \A e \in 0..d : G[d].hashes[Slot(ix, e)] = c[e]
                   /\ \A j \in TreeIndex : (\A e \in 0..d : j # Slot(ix, e))
                                             => G[d].hashes[j] = H[j]
           T == {d \in 0..N : P(d)}
<1>1. N \in Nat /\ 0 \in 0..N /\ N \in 0..N /\ \A i \in 1..N : i \in 0..N /\ i # 0 /\ i - 1 \in 0..N
  BY Depth
<1>2. Insert(H, ix, vh) = G[N].hashes
  BY DEF Insert
<1> HIDE DEF N
<1>3. Rec(G)
  <2>1. PICK g : IsLoop(g, "insert", ix, N, x)
    <3> HIDE DEF x
    <3> QED
      BY <1>1, LoopExists
  <2>2. \A i, y : Round("insert", ix, i, y) = Climb(y, ix, i)
    BY DEF Round
  <2> HIDE DEF x
  <2>3. Rec(g)
    BY <2>1, <2>2 DEF IsLoop
  <2> HIDE DEF Rec
  <2> QED
    BY <2>3
<1> HIDE DEF G
<1>4. G[0] = x /\ \A d \in 1..N : G[d] = Climb(G[d - 1], ix, d)
  <2> HIDE DEF x
  <2> QED
    BY <1>1, <1>3
<1>5. Slot(ix, 0) \in TreeIndex /\ \A e \in 0..N : Slot(ix, e) \in TreeIndex
  <2>1. 1 \in 1..N
    BY <1>1, Depth DEF N
  <2> QED
    BY <1>1, <2>1, SiblingOffPath DEF N
<1>6. 0 \in T
  <2>1. G[0].hashes = [H EXCEPT ![Slot(ix, 0)] = vh] /\ G[0].hash = vh /\ c[0] = vh
    BY <1>1, <1>4
  <2>2. P(0)
    <3>1. \A e \in 0..0 : e = 0
      OBVIOUS
    <3>2. 0 \in 0..0
      OBVIOUS
    <3>3. IsArray(G[0].hashes) /\ G[0].hashes[Slot(ix, 0)] = vh
          /\ \A j \in TreeIndex : j # Slot(ix, 0) => G[0].hashes[j] = H[j]
      BY <1>5, <2>1 DEF IsArray
    <3> QED
      BY <2>1, <3>1, <3>2, <3>3
  <2> QED
    BY <1>1, <2>2
<1>7. ASSUME NEW d \in 1..N, d - 1 \in T PROVE d \in T
  <2> DEFINE h == G[d - 1].hashes
             hash == Up(ix, d, G[d - 1].hash, h[Sibling(ix, d - 1)])
  <2>1. G[d].hashes = [h EXCEPT ![Slot(ix, d)] = hash] /\ G[d].hash = hash
    <3>1. G[d] = Climb(G[d - 1], ix, d)
      BY <1>4
    <3> HIDE DEF hash
    <3>2. hash = Up(ix, d, G[d - 1].hash, G[d - 1].hashes[Sibling(ix, d - 1)])
      BY DEF hash
    <3>3. /\ Climb(G[d - 1], ix, d).hash = hash
          /\ Climb(G[d - 1], ix, d).hashes = [G[d - 1].hashes EXCEPT ![Slot(ix, d)] = hash]
      BY <3>2, ClimbFacts
    <3> QED
      BY <3>1, <3>3
  <2>2. P(d - 1)
    BY <1>7
  <2>3. c[d] = hash
    BY <1>1, <2>1
  <2> HIDE DEF hash, h, c
  <2>4. IsArray(h) /\ Slot(ix, d) \in TreeIndex
    BY <1>1, <1>5, <2>2 DEF h
  <2>5. IsArray(G[d].hashes) /\ G[d].hashes[Slot(ix, d)] = hash
        /\ \A j \in TreeIndex : j # Slot(ix, d) => G[d].hashes[j] = h[j]
    BY <2>1, <2>4 DEF IsArray
  <2>6. \A e \in 0..d : e # d => e \in 0..(d - 1) /\ e \in 0..N /\ Slot(ix, e) # Slot(ix, d)
    BY <1>1, SlotsApart DEF N
  <2>7. \A e \in 0..d : G[d].hashes[Slot(ix, e)] = c[e]
    <3> TAKE e \in 0..d
    <3>1. CASE e = d
      BY <2>3, <2>5, <3>1
    <3>2. CASE e # d
      BY <1>5, <2>2, <2>5, <2>6, <3>2 DEF h
    <3> QED
      BY <3>1, <3>2
  <2>8. ASSUME NEW j \in TreeIndex, \A e \in 0..d : j # Slot(ix, e)
        PROVE  G[d].hashes[j] = H[j]
    <3>1. d \in 0..d /\ \A e \in 0..(d - 1) : e \in 0..d
      BY <1>1
    <3> QED
      BY <2>2, <2>5, <2>8, <3>1 DEF h
  <2> QED
    BY <1>1, <2>5, <2>7, <2>8
<1> HIDE DEF T
<1>8. \A d \in 0..N : d \in T
  BY <1>1, <1>6, <1>7, CountUp, Zenon
<1>9. \A d \in 0..N : P(d)
  BY <1>8 DEF T
<1>10. IsPath(c, H, ix, vh)
  <2>1. c[0] = vh
    BY <1>1, <1>4
  <2>2. ASSUME NEW d \in 1..N
        PROVE  c[d] = Up(ix, d, c[d - 1], H[Sibling(ix, d - 1)])
    <3>1. c[d] = G[d].hash /\ c[d - 1] = G[d - 1].hash
      BY <1>1
    <3>2. G[d - 1].hashes[Sibling(ix, d - 1)] = H[Sibling(ix, d - 1)]
      <4>1. \A e \in 0..N : Sibling(ix, d - 1) # Slot(ix, e) /\ Sibling(ix, d - 1) \in TreeIndex
        BY SiblingOffPath DEF N
      <4>2. \A e \in 0..(d - 1) : e \in 0..N
        BY <1>1
      <4> HIDE DEF c
      <4> QED
        BY <1>1, <1>9, <4>1, <4>2
    <3> QED
      <4>1. G[d] = Climb(G[d - 1], ix, d)
        BY <1>4
      <4> HIDE DEF c
      <4>2. G[d].hash = Up(ix, d, G[d - 1].hash, G[d - 1].hashes[Sibling(ix, d - 1)])
        <5>1. Climb(G[d - 1], ix, d).hash = Up(ix, d, G[d - 1].hash, G[d - 1].hashes[Sibling(ix, d - 1)])
          BY DEF Climb, Up
        <5> QED
          BY <4>1, <5>1
      <4> QED
        BY <3>1, <3>2, <4>2
  <2> QED
    BY <2>1, <2>2 DEF IsPath, N
<1> QED
  <2> HIDE DEF c
  <2>1. P(N)
    BY <1>1, <1>9
  <2> QED
    BY <1>2, <1>10, <2>1 DEF N

\* Two arrays with the same hashes beside a path get the same path.
LEMMA SamePath ==
  ASSUME NEW H, NEW K, NEW ix \in 0..(TREE_SIZE - 1), NEW vh,
         \A j \in Siblings(ix) : H[j] = K[j],
         NEW c, IsPath(c, H, ix, vh), NEW b, IsPath(b, K, ix, vh)
  PROVE  \A d \in 0..TREE_DEPTH : c[d] = b[d]
<1> DEFINE T == {d \in 0..TREE_DEPTH : c[d] = b[d]}
<1>1. TREE_DEPTH \in Nat /\ \A d \in 1..TREE_DEPTH : d \in 0..TREE_DEPTH /\ d - 1 \in 0..(TREE_DEPTH - 1)
  BY Depth
<1>2. 0 \in T
  BY <1>1 DEF IsPath
<1>3. ASSUME NEW d \in 1..TREE_DEPTH, d - 1 \in T PROVE d \in T
  <2>1. H[Sibling(ix, d - 1)] = K[Sibling(ix, d - 1)]
    BY <1>1 DEF Siblings
  <2>2. c[d] = b[d]
    BY <1>3, <2>1 DEF IsPath
  <2> QED
    BY <1>1, <2>2
<1> HIDE DEF T
<1>4. \A d \in 0..TREE_DEPTH : d \in T
  BY <1>1, <1>2, <1>3, CountUp, Zenon
<1> QED
  BY <1>4 DEF T

-----------------------------------------------------------------------------
(* Hashes that are those of the tree over the entries. *)

\* Hashes that are equal are hashes of the same things.
LEMMA HashPairFacts ==
  /\ \A l, r, x, y : HashPair(l, r) = HashPair(x, y) => l = x /\ r = y
  /\ \A l, r : HashPair(l, r) = EMPTY_HASH <=> l = EMPTY_HASH /\ r = EMPTY_HASH
<1>1. \A l, r : [left |-> l, right |-> r] # EMPTY_HASH
  BY DEF EMPTY_HASH
<1>2. \A l, r, x, y : [left |-> l, right |-> r] = [left |-> x, right |-> y] => l = x /\ r = y
  OBVIOUS
<1>3. \A l, r : HashPair(l, r) = IF l = EMPTY_HASH /\ r = EMPTY_HASH THEN EMPTY_HASH
                                 ELSE [left |-> l, right |-> r]
  BY DEF HashPair
<1> QED
  BY <1>1, <1>2, <1>3

LEMMA MatchesNodes ==
  ASSUME NEW H, NEW kv
  PROVE  Matches(H, kv) <=>
           /\ \A i \in 0..(TREE_SIZE - 1) : H[Node(0, i)] = EntryHash(kv[i])
           /\ \A d \in 1..TREE_DEPTH : \A i \in 0..(Width(d) - 1) :
                H[Node(d, i)] = HashPair(H[Node(d - 1, 2 * i)], H[Node(d - 1, 2 * i + 1)])
<1>1. \A i \in 0..(TREE_SIZE - 1) : Node(0, i) = i
  BY OffsetFacts DEF Node
<1>2. Matches(H, kv) <=>
        /\ \A i \in 0..(TREE_SIZE - 1) : H[i] = EntryHash(kv[i])
        /\ \A d \in 1..TREE_DEPTH : \A i \in 0..(Width(d) - 1) :
                H[Node(d, i)] = HashPair(H[Node(d - 1, 2 * i)], H[Node(d - 1, 2 * i + 1)])
  BY DEF Matches, Node, Width
<1> QED
  BY <1>1, <1>2

\* insert keeps them so.
LEMMA InsertMatches ==
  ASSUME NEW H, IsArray(H), NEW kv, IsArray(kv), Matches(H, kv),
         NEW ix \in 0..(TREE_SIZE - 1), NEW e
  PROVE  Matches(Insert(H, ix, EntryHash(e)), [kv EXCEPT ![ix] = e])
<1> DEFINE K == Insert(H, ix, EntryHash(e))
           lv == [kv EXCEPT ![ix] = e]
<1>1. PICK c : /\ IsPath(c, H, ix, EntryHash(e))
               /\ \A d \in 0..TREE_DEPTH : K[Slot(ix, d)] = c[d]
  BY InsertFacts
<1>2. \A j \in TreeIndex : (\A d \in 0..TREE_DEPTH : j # Slot(ix, d)) => K[j] = H[j]
  BY InsertFacts
<1> HIDE DEF K
<1>3. ASSUME NEW d \in 0..TREE_DEPTH, NEW i \in 0..(Width(d) - 1)
      PROVE  /\ i = PathAt(ix)[d] => K[Node(d, i)] = c[d]
             /\ i # PathAt(ix)[d] => K[Node(d, i)] = H[Node(d, i)]
  <2>1. i = PathAt(ix)[d] => K[Node(d, i)] = c[d]
    BY <1>1, AtFacts
  <2>2. ASSUME i # PathAt(ix)[d] PROVE K[Node(d, i)] = H[Node(d, i)]
    <3>1. ASSUME NEW f \in 0..TREE_DEPTH PROVE Node(d, i) # Slot(ix, f)
      <4>1. PathAt(ix)[f] \in 0..(Width(f) - 1) /\ Slot(ix, f) = Node(f, PathAt(ix)[f])
        BY AtFacts
      <4> QED
        BY <2>2, <4>1, NodesApart
    <3>2. Node(d, i) \in TreeIndex
      BY NodesApart
    <3> QED
      BY <1>2, <3>1, <3>2
  <2> QED
    BY <2>1, <2>2
<1>4. /\ \A i \in 0..(TREE_SIZE - 1) : H[Node(0, i)] = EntryHash(kv[i])
      /\ \A d \in 1..TREE_DEPTH : \A i \in 0..(Width(d) - 1) :
           H[Node(d, i)] = HashPair(H[Node(d - 1, 2 * i)], H[Node(d - 1, 2 * i + 1)])
  BY MatchesNodes
<1>5. ASSUME NEW i \in 0..(TREE_SIZE - 1) PROVE K[Node(0, i)] = EntryHash(lv[i])
  <2>1. 0 \in 0..TREE_DEPTH /\ i \in 0..(Width(0) - 1) /\ PathAt(ix)[0] = ix
    BY WidthFacts, AtFacts, Depth
  <2>2. i \in TreeIndex /\ ix \in TreeIndex
    BY OffsetFacts
  <2>3. lv[i] = IF i = ix THEN e ELSE kv[i]
    BY <2>2 DEF IsArray
  <2>4. CASE i = ix
    BY <1>1, <1>3, <2>1, <2>3, <2>4 DEF IsPath
  <2>5. CASE i # ix
    BY <1>3, <1>4, <2>1, <2>3, <2>5
  <2> QED
    BY <2>4, <2>5
<1>6. ASSUME NEW d \in 1..TREE_DEPTH, NEW i \in 0..(Width(d) - 1)
      PROVE  K[Node(d, i)] = HashPair(K[Node(d - 1, 2 * i)], K[Node(d - 1, 2 * i + 1)])
  <2>1. /\ d \in 0..TREE_DEPTH /\ d - 1 \in 0..TREE_DEPTH /\ Width(d - 1) = 2 * Width(d)
        /\ Width(d) \in Nat
    BY WidthFacts, Depth
  <2>2. 2 * i \in 0..(Width(d - 1) - 1) /\ 2 * i + 1 \in 0..(Width(d - 1) - 1)
    BY <2>1
  <2> DEFINE a == PathAt(ix)[d - 1]
             u == PathAt(ix)[d]
             m == Mate(ix, d - 1)
  <2>3. /\ m \in 0..(Width(d - 1) - 1) /\ m # a /\ Sibling(ix, d - 1) = Node(d - 1, m)
        /\ a % 2 = 0 => a = 2 * u /\ m = 2 * u + 1
        /\ a % 2 # 0 => a = 2 * u + 1 /\ m = 2 * u
    BY Children
  <2>4. a \in 0..(Width(d - 1) - 1) /\ u \in 0..(Width(d) - 1) /\ u = a \div 2
    BY <2>1, AtFacts
  <2>5. c[d] = Up(ix, d, c[d - 1], H[Node(d - 1, m)])
    BY <1>1, <2>3 DEF IsPath
  <2>6. Up(ix, d, c[d - 1], H[Node(d - 1, m)]) =
          IF a % 2 = 0 THEN HashPair(c[d - 1], H[Node(d - 1, m)]) ELSE HashPair(H[Node(d - 1, m)], c[d - 1])
    BY DEF Up
  <2>7. /\ i = u => K[Node(d, i)] = c[d]
        /\ i # u => K[Node(d, i)] = H[Node(d, i)]
    BY <1>3, <2>1
  <2>8. \A n \in 0..(Width(d - 1) - 1) : /\ n = a => K[Node(d - 1, n)] = c[d - 1]
                                         /\ n # a => K[Node(d - 1, n)] = H[Node(d - 1, n)]
    BY <1>3, <2>1
  <2> HIDE DEF a, u, m
  <2>9. CASE i = u /\ a % 2 = 0
    <3>1. K[Node(d - 1, 2 * i)] = c[d - 1]
      BY <2>2, <2>3, <2>8, <2>9
    <3>2. K[Node(d - 1, 2 * i + 1)] = H[Node(d - 1, m)]
      BY <2>2, <2>3, <2>8, <2>9
    <3> QED
      BY <2>5, <2>6, <2>7, <2>9, <3>1, <3>2
  <2>10. CASE i = u /\ a % 2 # 0
    <3>1. K[Node(d - 1, 2 * i + 1)] = c[d - 1]
      BY <2>2, <2>3, <2>8, <2>10
    <3>2. K[Node(d - 1, 2 * i)] = H[Node(d - 1, m)]
      BY <2>2, <2>3, <2>8, <2>10
    <3> QED
      BY <2>5, <2>6, <2>7, <2>10, <3>1, <3>2
  <2>11. CASE i # u
    <3>1. 2 * i # a /\ 2 * i + 1 # a
      BY <2>1, <2>4, <2>11
    <3>2. /\ K[Node(d - 1, 2 * i)] = H[Node(d - 1, 2 * i)]
          /\ K[Node(d - 1, 2 * i + 1)] = H[Node(d - 1, 2 * i + 1)]
      BY <2>2, <2>8, <3>1
    <3> QED
      BY <1>4, <2>7, <2>11, <3>2
  <2> QED
    BY <2>9, <2>10, <2>11
<1> HIDE DEF lv
<1>7. Matches(K, lv)
  BY <1>5, <1>6, MatchesNodes
<1> QED
  BY <1>7 DEF K, lv

\* The hashes along a path are what inserting the leaf's entry again would write.
LEMMA MatchingPath ==
  ASSUME NEW H, NEW kv, Matches(H, kv), NEW ix \in 0..(TREE_SIZE - 1)
  PROVE  IsPath([d \in 0..TREE_DEPTH |-> H[Slot(ix, d)]], H, ix, EntryHash(kv[ix]))
<1> DEFINE c == [d \in 0..TREE_DEPTH |-> H[Slot(ix, d)]]
<1>1. \A d \in 0..TREE_DEPTH : c[d] = H[Node(d, PathAt(ix)[d])]
  BY AtFacts
<1> HIDE DEF c
<1>2. /\ \A i \in 0..(TREE_SIZE - 1) : H[Node(0, i)] = EntryHash(kv[i])
      /\ \A d \in 1..TREE_DEPTH : \A i \in 0..(Width(d) - 1) :
           H[Node(d, i)] = HashPair(H[Node(d - 1, 2 * i)], H[Node(d - 1, 2 * i + 1)])
  BY MatchesNodes
<1>3. c[0] = EntryHash(kv[ix])
  <2>1. 0 \in 0..TREE_DEPTH /\ PathAt(ix)[0] = ix
    BY Depth, AtFacts
  <2> QED
    BY <1>1, <1>2, <2>1
<1>4. ASSUME NEW d \in 1..TREE_DEPTH
      PROVE  c[d] = Up(ix, d, c[d - 1], H[Sibling(ix, d - 1)])
  <2> DEFINE a == PathAt(ix)[d - 1]
             u == PathAt(ix)[d]
             m == Mate(ix, d - 1)
  <2>1. d \in 0..TREE_DEPTH /\ d - 1 \in 0..TREE_DEPTH
    BY Depth
  <2>2. u \in 0..(Width(d) - 1)
    BY <2>1, AtFacts
  <2>3. /\ Sibling(ix, d - 1) = Node(d - 1, m)
        /\ a % 2 = 0 => a = 2 * u /\ m = 2 * u + 1
        /\ a % 2 # 0 => a = 2 * u + 1 /\ m = 2 * u
    BY Children
  <2>4. c[d] = H[Node(d, u)] /\ c[d - 1] = H[Node(d - 1, a)]
    BY <1>1, <2>1
  <2>5. c[d] = HashPair(H[Node(d - 1, 2 * u)], H[Node(d - 1, 2 * u + 1)])
    BY <1>2, <2>2, <2>4
  <2>6. Up(ix, d, c[d - 1], H[Node(d - 1, m)]) =
          IF a % 2 = 0 THEN HashPair(c[d - 1], H[Node(d - 1, m)]) ELSE HashPair(H[Node(d - 1, m)], c[d - 1])
    BY DEF Up
  <2> HIDE DEF a, u, m
  <2>7. CASE a % 2 = 0
    BY <2>3, <2>4, <2>5, <2>6, <2>7
  <2>8. CASE a % 2 # 0
    BY <2>3, <2>4, <2>5, <2>6, <2>8
  <2> QED
    BY <2>7, <2>8
<1> QED
  BY <1>3, <1>4 DEF IsPath, c

\* Equal entries have equal hashes.
LEMMA EntriesDetermine ==
  ASSUME NEW H, NEW kv, Matches(H, kv), NEW K, Matches(K, kv)
  PROVE  H[RootIndex] = K[RootIndex]
<1> DEFINE P(d) == \A i \in 0..(Width(d) - 1) : H[Node(d, i)] = K[Node(d, i)]
           T == {d \in 0..TREE_DEPTH : P(d)}
<1>1. /\ \A i \in 0..(TREE_SIZE - 1) : H[Node(0, i)] = K[Node(0, i)]
      /\ \A d \in 1..TREE_DEPTH : \A i \in 0..(Width(d) - 1) :
           /\ H[Node(d, i)] = HashPair(H[Node(d - 1, 2 * i)], H[Node(d - 1, 2 * i + 1)])
           /\ K[Node(d, i)] = HashPair(K[Node(d - 1, 2 * i)], K[Node(d - 1, 2 * i + 1)])
  BY MatchesNodes
<1>2. TREE_DEPTH \in Nat /\ \A d \in 1..TREE_DEPTH : d \in 0..TREE_DEPTH /\ d - 1 \in 0..TREE_DEPTH
  BY Depth
<1>3. 0 \in T
  BY <1>1, <1>2, WidthFacts
<1>4. ASSUME NEW d \in 1..TREE_DEPTH, d - 1 \in T PROVE d \in T
  <2>1. P(d - 1) /\ Width(d - 1) = 2 * Width(d) /\ Width(d) \in Nat
    BY <1>2, <1>4, WidthFacts
  <2>2. ASSUME NEW i \in 0..(Width(d) - 1) PROVE H[Node(d, i)] = K[Node(d, i)]
    <3>1. 2 * i \in 0..(Width(d - 1) - 1) /\ 2 * i + 1 \in 0..(Width(d - 1) - 1)
      BY <2>1
    <3> QED
      BY <1>1, <2>1, <3>1
  <2> QED
    BY <1>2, <2>2
<1> HIDE DEF T
<1>5. \A d \in 0..TREE_DEPTH : d \in T
  BY <1>2, <1>3, <1>4, CountUp, Zenon
<1>6. P(TREE_DEPTH) /\ Width(TREE_DEPTH) = 1 /\ Offset[TREE_DEPTH] = RootIndex /\ RootIndex \in Nat
  <2>1. TREE_DEPTH \in 0..TREE_DEPTH
    BY <1>2
  <2>2. P(TREE_DEPTH)
    BY <1>5, <2>1 DEF T
  <2> QED
    BY <2>1, <2>2, WidthFacts, OffsetFacts
<1>7. 0 \in 0..(Width(TREE_DEPTH) - 1) /\ Node(TREE_DEPTH, 0) = RootIndex
  BY <1>6 DEF Node
<1> QED
  BY <1>6, <1>7

\* An entry that can be stored.
LeafEntry == [key : Key, value : U64]

LEMMA EntryHashFacts ==
  ASSUME NEW e \in LeafEntry \cup {NoEntry}, NEW f \in LeafEntry \cup {NoEntry}
  PROVE  /\ EntryHash(e) = EntryHash(f) => e = f
         /\ e # NoEntry => EntryHash(e) # EMPTY_HASH
<1>1. \A k, v : LeafHash(k, v) # EMPTY_HASH
  BY DEF LeafHash, EMPTY_HASH
<1>2. e # NoEntry => e = [key |-> e.key, value |-> e.value]
  BY DEF LeafEntry
<1>3. f # NoEntry => f = [key |-> f.key, value |-> f.value]
  BY DEF LeafEntry
<1>4. e # NoEntry => EntryHash(e) = e
  BY <1>2 DEF EntryHash, LeafHash
<1>5. f # NoEntry => EntryHash(f) = f
  BY <1>3 DEF EntryHash, LeafHash
<1>6. /\ e = NoEntry => EntryHash(e) = EMPTY_HASH
      /\ f = NoEntry => EntryHash(f) = EMPTY_HASH
  BY DEF EntryHash
<1>7. /\ e # NoEntry => EntryHash(e) # EMPTY_HASH
      /\ f # NoEntry => EntryHash(f) # EMPTY_HASH
  BY <1>1 DEF EntryHash
<1> QED
  BY <1>4, <1>5, <1>6, <1>7

\* A root stands for one set of entries.
LEMMA RootDetermines ==
  ASSUME NEW H, NEW kv, Matches(H, kv), NEW K, NEW lv, Matches(K, lv),
         H[RootIndex] = K[RootIndex],
         NEW i \in 0..(TREE_SIZE - 1), kv[i] \in LeafEntry \cup {NoEntry}, lv[i] \in LeafEntry \cup {NoEntry}
  PROVE  kv[i] = lv[i]
<1> DEFINE N == TREE_DEPTH
           P(d) == \A j \in 0..(Width(d) - 1) : H[Node(d, j)] = K[Node(d, j)]
           T == {m \in 0..N : P(N - m)}
<1>1. /\ \A j \in 0..(TREE_SIZE - 1) : H[Node(0, j)] = EntryHash(kv[j]) /\ K[Node(0, j)] = EntryHash(lv[j])
      /\ \A d \in 1..TREE_DEPTH : \A j \in 0..(Width(d) - 1) :
           /\ H[Node(d, j)] = HashPair(H[Node(d - 1, 2 * j)], H[Node(d - 1, 2 * j + 1)])
           /\ K[Node(d, j)] = HashPair(K[Node(d - 1, 2 * j)], K[Node(d - 1, 2 * j + 1)])
  BY MatchesNodes
<1>2. N \in Nat /\ N - N = 0 /\ N - 0 = N /\ 0 \in 0..N /\ N \in 0..N
      /\ \A m \in 1..N : m \in 0..N /\ m - 1 \in 0..N
  BY Depth
<1>3. 0 \in T
  <2>1. Width(N) = 1 /\ Offset[N] = RootIndex /\ RootIndex \in Nat
    BY <1>2, WidthFacts, OffsetFacts
  <2>2. \A j \in 0..(Width(N) - 1) : Node(N, j) = RootIndex
    BY <2>1 DEF Node
  <2>3. P(N)
    BY <2>2
  <2> QED
    BY <1>2, <2>3
<1>4. ASSUME NEW m \in 1..N, m - 1 \in T PROVE m \in T
  <2> DEFINE d == N - (m - 1)
  <2>1. d \in 1..N /\ d - 1 = N - m
    BY <1>2
  <2>2. P(d)
    BY <1>4
  <2> HIDE DEF d
  <2>3. Width(d - 1) = 2 * Width(d) /\ Width(d) \in Nat
    BY <1>2, <2>1, WidthFacts
  <2>4. ASSUME NEW j \in 0..(Width(d - 1) - 1) PROVE H[Node(d - 1, j)] = K[Node(d - 1, j)]
    <3> DEFINE u == j \div 2
    <3>1. u \in 0..(Width(d) - 1) /\ (j = 2 * u \/ j = 2 * u + 1)
      BY <2>3
    <3> HIDE DEF u
    <3>2. H[Node(d, u)] = K[Node(d, u)]
      BY <2>2, <3>1
    <3>3. /\ H[Node(d - 1, 2 * u)] = K[Node(d - 1, 2 * u)]
          /\ H[Node(d - 1, 2 * u + 1)] = K[Node(d - 1, 2 * u + 1)]
      BY <1>1, <2>1, <3>1, <3>2, HashPairFacts
    <3> QED
      BY <3>1, <3>3
  <2> QED
    BY <1>2, <2>1, <2>4
<1> HIDE DEF T
<1>5. \A m \in 0..N : m \in T
  <2> HIDE DEF N
  <2> QED
    BY <1>2, <1>3, <1>4, CountUp, Zenon
<1>6. P(0)
  BY <1>2, <1>5 DEF T
<1>7. EntryHash(kv[i]) = EntryHash(lv[i])
  BY <1>1, <1>6, WidthFacts
<1> QED
  BY <1>7, EntryHashFacts

-----------------------------------------------------------------------------
(* Trees: every entry is at the index of its key. *)

TreeShape(t) ==
  /\ t = [hashes |-> t.hashes, key_values |-> t.key_values]
  /\ IsArray(t.hashes) /\ IsArray(t.key_values)
  /\ \A i \in TreeIndex :
       \/ t.key_values[i] = NoEntry
       \/ t.key_values[i] \in LeafEntry /\ TreeIndexFromKey(t.key_values[i].key) = i

TreeOK(t) == TreeShape(t) /\ Matches(t.hashes, t.key_values)

LEMMA EmptyTreeOK ==
  /\ TreeOK(EmptyTree) /\ EmptyTree.hashes[RootIndex] = EMPTY_HASH
  /\ EmptyTree.key_values = [i \in TreeIndex |-> NoEntry]
  /\ EmptyTree.hashes = [i \in TreeIndex |-> EMPTY_HASH]
<1> DEFINE H == [i \in TreeIndex |-> EMPTY_HASH]
           kv == [i \in TreeIndex |-> NoEntry]
<1>1. EmptyTree = [hashes |-> H, key_values |-> kv]
  BY DEF EmptyTree
<1>2. \A d \in 0..TREE_DEPTH : \A i \in 0..(Width(d) - 1) : H[Node(d, i)] = EMPTY_HASH
  BY NodesApart
<1>3. \A i \in 0..(TREE_SIZE - 1) : kv[i] = NoEntry
  <2>1. \A i \in 0..(TREE_SIZE - 1) : i \in TreeIndex
    BY OffsetFacts
  <2> QED
    BY <2>1
<1>4. RootIndex \in TreeIndex
  BY OffsetFacts
<1>5. IsArray(H) /\ IsArray(kv) /\ H[RootIndex] = EMPTY_HASH /\ \A i \in TreeIndex : kv[i] = NoEntry
  BY <1>4 DEF IsArray
<1> HIDE DEF H, kv
<1>6. \A i \in 0..(TREE_SIZE - 1) : H[Node(0, i)] = EntryHash(kv[i])
  <2>1. 0 \in 0..TREE_DEPTH /\ Width(0) = TREE_SIZE
    BY Depth, WidthFacts
  <2> QED
    BY <1>2, <1>3, <2>1 DEF EntryHash
<1>7. ASSUME NEW d \in 1..TREE_DEPTH, NEW i \in 0..(Width(d) - 1)
      PROVE  H[Node(d, i)] = HashPair(H[Node(d - 1, 2 * i)], H[Node(d - 1, 2 * i + 1)])
  <2>1. /\ d \in 0..TREE_DEPTH /\ d - 1 \in 0..TREE_DEPTH /\ Width(d - 1) = 2 * Width(d)
        /\ Width(d) \in Nat
    BY WidthFacts, Depth
  <2>2. 2 * i \in 0..(Width(d - 1) - 1) /\ 2 * i + 1 \in 0..(Width(d - 1) - 1)
    BY <2>1
  <2>3. /\ H[Node(d, i)] = EMPTY_HASH /\ H[Node(d - 1, 2 * i)] = EMPTY_HASH
        /\ H[Node(d - 1, 2 * i + 1)] = EMPTY_HASH
    BY <1>2, <2>1, <2>2
  <2> QED
    BY <2>3, HashPairFacts
<1>8. Matches(H, kv)
  BY <1>6, <1>7, MatchesNodes
<1> QED
  BY <1>1, <1>5, <1>8 DEF TreeOK, TreeShape, H, kv

LEMMA KeyFacts ==
  ASSUME LowIndices, NEW k \in Key
  PROVE  TreeIndexFromKey(k) \in 0..(TREE_SIZE - 1) /\ TreeIndexFromKey(k) \in TreeIndex
BY OffsetFacts DEF LowIndices

\* No value is an absent entry.
LEMMA NewEntry ==
  ASSUME NEW k, NEW v
  PROVE  /\ [key |-> k, value |-> v] # NoEntry
         /\ EntryHash([key |-> k, value |-> v]) = LeafHash(k, v)
         /\ k \in Key /\ v \in U64 => [key |-> k, value |-> v] \in LeafEntry
<1>1. [key |-> k, value |-> v] # NoEntry
  BY DEF NoEntry
<1> QED
  BY <1>1 DEF EntryHash, LeafEntry

\* set, unless another key has the leaf.
LEMMA SetFacts ==
  ASSUME LowIndices, NEW t, TreeShape(t), NEW k \in Key, NEW v \in U64, ~Collides(t, k),
         NEW ix, ix = TreeIndexFromKey(k), NEW r, r = Set(t, k, v)
  PROVE  /\ TreeShape(r)
         /\ \A i \in TreeIndex : r.key_values[i] = IF i = ix THEN [key |-> k, value |-> v]
                                                         ELSE t.key_values[i]
         /\ r.hashes = Insert(t.hashes, ix, EntryHash([key |-> k, value |-> v]))
         /\ Matches(t.hashes, t.key_values) => Matches(r.hashes, r.key_values)
<1> DEFINE e == [key |-> k, value |-> v]
           kv == t.key_values
<1>1. ix \in 0..(TREE_SIZE - 1) /\ ix \in TreeIndex
  BY KeyFacts
<1>2. e # NoEntry /\ EntryHash(e) = LeafHash(k, v) /\ e \in LeafEntry /\ e.key = k
  BY NewEntry
<1>3. r = [hashes |-> Insert(t.hashes, ix, LeafHash(k, v)), key_values |-> [kv EXCEPT ![ix] = e]]
  BY DEF Set
<1> HIDE DEF e
<1>4. r.key_values = [kv EXCEPT ![ix] = e] /\ r.hashes = Insert(t.hashes, ix, EntryHash(e))
      /\ r = [hashes |-> r.hashes, key_values |-> r.key_values]
  BY <1>2, <1>3
<1>5. IsArray(kv) /\ IsArray(t.hashes)
  BY DEF TreeShape
<1>6. IsArray(r.hashes)
  BY <1>1, <1>4, <1>5, InsertFacts
<1>7. IsArray(r.key_values) /\ \A i \in TreeIndex : r.key_values[i] = IF i = ix THEN e ELSE kv[i]
  BY <1>1, <1>4, <1>5 DEF IsArray
<1>8. TreeShape(r)
  BY <1>2, <1>4, <1>6, <1>7 DEF TreeShape
<1>9. Matches(t.hashes, kv) => Matches(r.hashes, r.key_values)
  BY <1>1, <1>4, <1>5, InsertMatches
<1> QED
  BY <1>4, <1>7, <1>8, <1>9 DEF e

LEMMA SetOK ==
  ASSUME LowIndices, NEW t, TreeShape(t), NEW k \in Key, NEW v \in U64, ~Collides(t, k)
  PROVE  /\ TreeShape(Set(t, k, v))
         /\ Matches(t.hashes, t.key_values) => Matches(Set(t, k, v).hashes, Set(t, k, v).key_values)
<1> DEFINE r == Set(t, k, v)
           ix == TreeIndexFromKey(k)
<1>1. ix = TreeIndexFromKey(k) /\ r = Set(t, k, v)
  OBVIOUS
<1> HIDE DEF r, ix
<1>2. TreeShape(r) /\ (Matches(t.hashes, t.key_values) => Matches(r.hashes, r.key_values))
  BY <1>1, SetFacts
<1> QED
  BY <1>2 DEF r

LEMMA GetFacts ==
  ASSUME LowIndices, NEW t, TreeShape(t), NEW k \in Key
  PROVE  Get(t, k) \in U64 /\ (Collides(t, k) => Get(t, k) = 0)
<1> DEFINE e == t.key_values[TreeIndexFromKey(k)]
<1>1. e = NoEntry \/ e \in LeafEntry
  BY KeyFacts DEF TreeShape
<1>2. Get(t, k) = IF e # NoEntry /\ e.key = k THEN e.value ELSE 0
  BY DEF Get, Stored
<1>3. Collides(t, k) <=> e # NoEntry /\ e.key # k
  BY DEF Collides
<1>4. 0 \in U64
  BY Ranges
<1> HIDE DEF e
<1>5. e \in LeafEntry => e.value \in U64
  BY DEF LeafEntry
<1> QED
  BY <1>1, <1>2, <1>3, <1>4, <1>5

\* What is read after a write.
LEMMA GetSet ==
  ASSUME LowIndices, NEW t, TreeShape(t), NEW k \in Key, NEW v \in U64, ~Collides(t, k),
         NEW l \in Key
  PROVE  Get(Set(t, k, v), l) = IF l = k THEN v ELSE Get(t, l)
<1> DEFINE r == Set(t, k, v)
           x == [key |-> k, value |-> v]
           ix == TreeIndexFromKey(k)
           il == TreeIndexFromKey(l)
           e == t.key_values[il]
           f == r.key_values[il]
<1>1. /\ TreeShape(r)
      /\ \A i \in TreeIndex : r.key_values[i] = IF i = ix THEN x ELSE t.key_values[i]
  <2>1. ix = TreeIndexFromKey(k) /\ r = Set(t, k, v)
    OBVIOUS
  <2> HIDE DEF r, ix, il, e, f
  <2> QED
    BY <2>1, SetFacts
<1>2. il \in TreeIndex /\ ix \in TreeIndex
  BY KeyFacts
<1>3. Get(r, l) = IF f # NoEntry /\ f.key = l THEN f.value ELSE 0
  BY DEF Get, Stored
<1>4. Get(t, l) = IF e # NoEntry /\ e.key = l THEN e.value ELSE 0
  BY DEF Get, Stored
<1>5. x # NoEntry /\ x.key = k /\ x.value = v
  BY NewEntry
<1>6. il = ix => e = NoEntry \/ e.key = k
  BY DEF Collides
<1>7. l = k => il = ix
  OBVIOUS
<1> HIDE DEF x
<1>8. f = IF il = ix THEN x ELSE e
  <2> HIDE DEF r, ix, il
  <2> QED
    BY <1>1, <1>2
<1> HIDE DEF r, ix, il, e, f
<1>9. Get(r, l) = IF l = k THEN v ELSE Get(t, l)
  <2>1. CASE il = ix
    BY <1>3, <1>4, <1>5, <1>6, <1>8, <2>1
  <2>2. CASE il # ix
    BY <1>3, <1>4, <1>7, <1>8, <2>2
  <2> QED
    BY <2>1, <2>2
<1> QED
  BY <1>9 DEF r

\* The balances in a tree.
BalOf(t) == [token \in TokenIds |-> [a \in Account |-> Get(t, <<token, a>>)]]

LEMMA BalOfSet ==
  ASSUME LowIndices, NEW t, TreeShape(t), NEW token \in TokenIds, NEW a \in Account, NEW v \in U64,
         ~Collides(t, <<token, a>>)
  PROVE  BalOf(Set(t, <<token, a>>, v)) =
           [BalOf(t) EXCEPT ![token] = [BalOf(t)[token] EXCEPT ![a] = v]]
<1> DEFINE r == Set(t, <<token, a>>, v)
<1>1. \A p \in TokenIds, c \in Account :
        Get(r, <<p, c>>) = IF p = token /\ c = a THEN v ELSE Get(t, <<p, c>>)
  <2> TAKE p \in TokenIds, c \in Account
  <2>1. <<p, c>> \in Key /\ <<token, a>> \in Key
    BY DEF Key
  <2>2. <<p, c>> = <<token, a>> <=> p = token /\ c = a
    OBVIOUS
  <2> QED
    BY <2>1, <2>2, GetSet
<1> HIDE DEF r
<1>2. BalOf(r) = [BalOf(t) EXCEPT ![token] = [BalOf(t)[token] EXCEPT ![a] = v]]
  BY <1>1 DEF BalOf
<1> QED
  BY <1>2 DEF r

-----------------------------------------------------------------------------
(* States. *)

IsRec(b) ==
  b = [tree |-> b.tree, tokens |-> b.tokens, initial |-> b.initial,
       hashes |-> b.hashes, entries |-> b.entries, panicked |-> b.panicked]

StateShape(b) ==
  /\ IsRec(b) /\ TreeShape(b.tree) /\ b.tokens \in Seq(TokenIds) /\ b.panicked \in BOOLEAN

\* A hash of the witness after some nodes have been recorded.
Recorded(b, nodes, i) ==
  IF i \in nodes /\ b.tree.hashes[i] # EMPTY_HASH /\ b.initial[i] # EMPTY_HASH
  THEN b.initial[i] ELSE b.hashes[i]

LEMMA RecordHashesFacts ==
  ASSUME NEW b, IsRec(b), NEW nodes, NEW r, r = RecordHashes(b, nodes)
  PROVE  /\ IsRec(r) /\ r.tree = b.tree /\ r.tokens = b.tokens /\ r.initial = b.initial
         /\ r.entries = b.entries /\ r.panicked = b.panicked
         /\ IsArray(r.hashes) /\ \A i \in TreeIndex : r.hashes[i] = Recorded(b, nodes, i)
<1> DEFINE h == [i \in TreeIndex |-> Recorded(b, nodes, i)]
<1>1. r = [b EXCEPT !.hashes = h]
  BY DEF RecordHashes, Recorded
<1>2. IsArray(h) /\ \A i \in TreeIndex : h[i] = Recorded(b, nodes, i)
  BY DEF IsArray
<1> HIDE DEF h
<1>3. r = [tree |-> b.tree, tokens |-> b.tokens, initial |-> b.initial,
           hashes |-> h, entries |-> b.entries, panicked |-> b.panicked]
  BY <1>1 DEF IsRec
<1> QED
  BY <1>2, <1>3 DEF IsRec

LEMMA RecordReadFacts ==
  ASSUME NEW b, IsRec(b), NEW k, NEW r, r = RecordRead(b, k),
         NEW ix, ix = TreeIndexFromKey(k)
  PROVE  /\ IsRec(r) /\ r.tree = b.tree /\ r.tokens = b.tokens /\ r.initial = b.initial
         /\ r.panicked = b.panicked
         /\ IsArray(r.hashes) /\ \A i \in TreeIndex : r.hashes[i] = Recorded(b, Siblings(ix), i)
         /\ \/ /\ b.tree.key_values[ix] # NoEntry
               /\ \A w \in b.entries : w.key # b.tree.key_values[ix].key
               /\ r.entries = b.entries \cup {b.tree.key_values[ix]}
            \/ /\ b.tree.key_values[ix] = NoEntry
                  \/ \E w \in b.entries : w.key = b.tree.key_values[ix].key
               /\ r.entries = b.entries
<1> DEFINE e == b.tree.key_values[ix]
           q == RecordHashes(b, Siblings(ix))
<1>1. /\ IsRec(q) /\ q.tree = b.tree /\ q.tokens = b.tokens /\ q.initial = b.initial
      /\ q.entries = b.entries /\ q.panicked = b.panicked
      /\ IsArray(q.hashes) /\ \A i \in TreeIndex : q.hashes[i] = Recorded(b, Siblings(ix), i)
  BY RecordHashesFacts
<1>2. r = IF e # NoEntry /\ \A w \in b.entries : w.key # e.key
          THEN [q EXCEPT !.entries = @ \cup {e}] ELSE q
  BY DEF RecordRead
<1> HIDE DEF e, q
<1>3. CASE e # NoEntry /\ \A w \in b.entries : w.key # e.key
  <2>1. r = [q EXCEPT !.entries = q.entries \cup {e}]
    BY <1>2, <1>3
  <2> DEFINE s == q.entries \cup {e}
  <2> HIDE DEF s
  <2>2. r = [tree |-> q.tree, tokens |-> q.tokens, initial |-> q.initial,
             hashes |-> q.hashes, entries |-> s, panicked |-> q.panicked]
    BY <1>1, <2>1 DEF IsRec, s
  <2>3. /\ IsRec(r) /\ r.tree = b.tree /\ r.tokens = b.tokens /\ r.initial = b.initial
        /\ r.panicked = b.panicked /\ r.hashes = q.hashes /\ r.entries = s
    BY <1>1, <2>2 DEF IsRec
  <2> QED
    BY <1>1, <1>3, <2>3 DEF e, s
<1>4. CASE ~(e # NoEntry /\ \A w \in b.entries : w.key # e.key)
  <2>1. r = q
    BY <1>2, <1>4
  <2> QED
    BY <1>1, <1>4, <2>1 DEF e
<1> QED
  BY <1>3, <1>4

LEMMA SetBalanceFacts ==
  ASSUME NEW b, IsRec(b), NEW k, NEW v, NEW r, r = SetBalance(b, k, v)
  PROVE  /\ IsRec(r) /\ r.tokens = b.tokens /\ r.initial = b.initial /\ r.entries = b.entries
         /\ IsArray(r.hashes)
         /\ \A i \in TreeIndex : r.hashes[i] = Recorded(b, Siblings(TreeIndexFromKey(k)), i)
         /\ Collides(b.tree, k) => r.tree = b.tree
         /\ ~Collides(b.tree, k) => r.tree = Set(b.tree, k, v)
<1> DEFINE q == RecordHashes(b, Siblings(TreeIndexFromKey(k)))
           t == Set(b.tree, k, v)
<1>1. /\ IsRec(q) /\ q.tree = b.tree /\ q.tokens = b.tokens /\ q.initial = b.initial
      /\ q.entries = b.entries /\ q.panicked = b.panicked
      /\ IsArray(q.hashes)
      /\ \A i \in TreeIndex : q.hashes[i] = Recorded(b, Siblings(TreeIndexFromKey(k)), i)
  BY RecordHashesFacts
<1>2. r = IF Collides(b.tree, k) THEN [q EXCEPT !.panicked = TRUE] ELSE [q EXCEPT !.tree = t]
  BY DEF SetBalance
<1> HIDE DEF q, t
<1>3. CASE Collides(b.tree, k)
  <2>1. r = [tree |-> q.tree, tokens |-> q.tokens, initial |-> q.initial,
             hashes |-> q.hashes, entries |-> q.entries, panicked |-> TRUE]
    BY <1>1, <1>2, <1>3 DEF IsRec
  <2>2. /\ IsRec(r) /\ r.tree = b.tree /\ r.tokens = b.tokens /\ r.initial = b.initial
        /\ r.panicked = TRUE /\ r.hashes = q.hashes /\ r.entries = b.entries
    BY <1>1, <2>1 DEF IsRec
  <2> QED
    BY <1>1, <1>3, <2>2
<1>4. CASE ~Collides(b.tree, k)
  <2>1. r = [tree |-> t, tokens |-> q.tokens, initial |-> q.initial,
             hashes |-> q.hashes, entries |-> q.entries, panicked |-> q.panicked]
    BY <1>1, <1>2, <1>4 DEF IsRec
  <2>2. /\ IsRec(r) /\ r.tree = t /\ r.tokens = b.tokens /\ r.initial = b.initial
        /\ r.panicked = b.panicked /\ r.hashes = q.hashes /\ r.entries = b.entries
    BY <1>1, <2>1 DEF IsRec
  <2> QED
    BY <1>1, <1>4, <2>2 DEF t
<1> QED
  BY <1>3, <1>4

\* The panic of set_balance.
LEMMA SetBalancePanic ==
  ASSUME NEW b, IsRec(b), NEW k, NEW v, NEW r, r = SetBalance(b, k, v)
  PROVE  /\ Collides(b.tree, k) => r.panicked = TRUE
         /\ ~Collides(b.tree, k) => r.panicked = b.panicked
<1> DEFINE q == RecordHashes(b, Siblings(TreeIndexFromKey(k)))
           t == Set(b.tree, k, v)
<1>1. IsRec(q) /\ q.panicked = b.panicked
  BY RecordHashesFacts
<1>2. r = IF Collides(b.tree, k) THEN [q EXCEPT !.panicked = TRUE] ELSE [q EXCEPT !.tree = t]
  BY DEF SetBalance
<1> HIDE DEF q, t
<1> QED
  BY <1>1, <1>2 DEF IsRec

\* The steps of process_mint that is not refused.
LEMMA MintOnSteps ==
  ASSUME NEW b, IsRec(b), NEW op, ~b.panicked, ~Contains(b.tokens, op.token_id),
         NEW k, k = <<op.token_id, op.to>>, NEW q, q = RecordRead(b, k),
         NEW v, v = SaturatingAdd(Get(b.tree, k), op.amount)
  PROVE  /\ IsRec(q) /\ q.tree = b.tree /\ q.tokens = b.tokens /\ q.initial = b.initial
         /\ q.panicked = b.panicked
         /\ \E p : /\ IsRec(p) /\ p.tree = b.tree /\ p.tokens = Append(b.tokens, op.token_id)
                   /\ p.initial = b.initial /\ p.hashes = q.hashes /\ p.entries = q.entries
                   /\ p.panicked = b.panicked
                   /\ MintOn(b, op) = SetBalance(p, k, v)
<1> DEFINE s == Append(q.tokens, op.token_id)
           p == [q EXCEPT !.tokens = s]
<1>1. /\ IsRec(q) /\ q.tree = b.tree /\ q.tokens = b.tokens /\ q.initial = b.initial
      /\ q.panicked = b.panicked
  BY RecordReadFacts
<1>2. /\ IsRec(p) /\ p.tree = q.tree /\ p.tokens = Append(q.tokens, op.token_id)
      /\ p.initial = q.initial /\ p.hashes = q.hashes /\ p.entries = q.entries
      /\ p.panicked = q.panicked
  <2> HIDE DEF s
  <2>1. p = [tree |-> q.tree, tokens |-> s, initial |-> q.initial,
             hashes |-> q.hashes, entries |-> q.entries, panicked |-> q.panicked]
    BY <1>1 DEF IsRec
  <2> HIDE DEF p
  <2> QED
    BY <2>1 DEF IsRec, s
<1>3. MintOn(b, op) = SetBalance(p, k, v)
  BY DEF MintOn
<1> HIDE DEF p
<1> QED
  BY <1>1, <1>2, <1>3

\* The steps of process_transfer that is not refused.
LEMMA TransferOnSteps ==
  ASSUME NEW b, IsRec(b), NEW op, ~b.panicked, Contains(b.tokens, op.token_id),
         NEW from, from = <<op.token_id, op.from>>, NEW to, to = <<op.token_id, op.to>>,
         ~(Get(b.tree, from) < op.amount),
         NEW sender, sender = RecordRead(b, from), NEW both, both = RecordRead(sender, to),
         NEW v, v = Get(b.tree, from) - op.amount, NEW debited, debited = SetBalance(both, from, v),
         NEW w, w = SaturatingAdd(Get(b.tree, to), op.amount)
  PROVE  /\ IsRec(sender) /\ sender.tree = b.tree /\ sender.tokens = b.tokens
         /\ sender.initial = b.initial /\ sender.panicked = b.panicked
         /\ IsRec(both) /\ both.tree = b.tree /\ both.tokens = b.tokens
         /\ both.initial = b.initial /\ both.panicked = b.panicked
         /\ IsRec(debited)
         /\ TransferOn(b, op) = IF debited.panicked THEN debited ELSE SetBalance(debited, to, w)
<1>1. /\ IsRec(sender) /\ sender.tree = b.tree /\ sender.tokens = b.tokens
      /\ sender.initial = b.initial /\ sender.panicked = b.panicked
  BY RecordReadFacts
<1>2. /\ IsRec(both) /\ both.tree = sender.tree /\ both.tokens = sender.tokens
      /\ both.initial = sender.initial /\ both.panicked = sender.panicked
  BY <1>1, RecordReadFacts
<1>3. IsRec(debited)
  BY <1>2, SetBalanceFacts
<1>4. TransferOn(b, op) = IF debited.panicked THEN debited ELSE SetBalance(debited, to, w)
  BY DEF TransferOn, CreditOn
<1> QED
  BY <1>1, <1>2, <1>3, <1>4

-----------------------------------------------------------------------------
(* What an operation does to a state. *)

StateOK(b) == StateShape(b) /\ Matches(b.tree.hashes, b.tree.key_values)

\* What OpsOf and OpsIn give.
IsOp(op) ==
  \/ op.type = "Staged" \/ op.type = "Overflow"
  \/ op.type = "Mint" /\ op.to \in Account /\ op.token_id \in TokenIds /\ op.amount \in U64
  \/ /\ op.type = "Transfer" /\ op.from \in Account /\ op.to \in Account
     /\ op.token_id \in TokenIds /\ op.amount \in U64

LEMMA SetBalanceOK ==
  ASSUME LowIndices, NEW b, StateOK(b), NEW k \in Key, NEW v \in U64,
         NEW r, r = SetBalance(b, k, v)
  PROVE  StateOK(r)
<1>1. IsRec(b) /\ TreeShape(b.tree) /\ Matches(b.tree.hashes, b.tree.key_values)
  BY DEF StateOK, StateShape
<1>2. /\ IsRec(r) /\ r.tokens = b.tokens
      /\ Collides(b.tree, k) => r.tree = b.tree
      /\ ~Collides(b.tree, k) => r.tree = Set(b.tree, k, v)
  BY <1>1, SetBalanceFacts
<1>3. TreeShape(r.tree) /\ Matches(r.tree.hashes, r.tree.key_values)
  <2>1. CASE Collides(b.tree, k)
    BY <1>1, <1>2, <2>1
  <2>2. CASE ~Collides(b.tree, k)
    <3>1. r.tree = Set(b.tree, k, v)
      BY <1>2, <2>2
    <3> QED
      BY <1>1, <2>2, <3>1, SetOK
  <2> QED
    BY <2>1, <2>2
<1>4. r.panicked \in BOOLEAN
  <2>1. /\ Collides(b.tree, k) => r.panicked = TRUE
        /\ ~Collides(b.tree, k) => r.panicked = b.panicked
    BY <1>1, SetBalancePanic
  <2> QED
    BY <2>1 DEF StateOK, StateShape
<1>5. b.tokens \in Seq(TokenIds)
  BY DEF StateOK, StateShape
<1> QED
  BY <1>2, <1>3, <1>4, <1>5 DEF StateOK, StateShape

\* What is the same in two states.
LEMMA SameOK ==
  ASSUME NEW b, StateOK(b), NEW r, IsRec(r), r.tree = b.tree, r.tokens \in Seq(TokenIds),
         r.panicked = b.panicked
  PROVE  StateOK(r)
BY DEF StateOK, StateShape

LEMMA SaturatingType ==
  ASSUME NEW x \in U64, NEW y \in U64
  PROVE  SaturatingAdd(x, y) \in U64 /\ (y <= x => x - y \in U64)
BY Ranges DEF SaturatingAdd

LEMMA MintOnOK ==
  ASSUME LowIndices, NEW b, StateOK(b), NEW op, IsOp(op), op.type = "Mint",
         NEW r, r = MintOn(b, op)
  PROVE  StateOK(r) /\ r.initial = b.initial /\ (b.panicked => r = b)
<1>1. CASE b.panicked \/ Contains(b.tokens, op.token_id)
  BY <1>1 DEF MintOn
<1>2. CASE ~b.panicked /\ ~Contains(b.tokens, op.token_id)
  <2>1. op.to \in Account /\ op.token_id \in TokenIds /\ op.amount \in U64
    BY DEF IsOp
  <2> DEFINE k == <<op.token_id, op.to>>
             q == RecordRead(b, k)
             v == SaturatingAdd(Get(b.tree, k), op.amount)
  <2>2. k \in Key
    BY <2>1 DEF Key
  <2>3. IsRec(b) /\ TreeShape(b.tree) /\ b.tokens \in Seq(TokenIds)
    BY DEF StateOK, StateShape
  <2>4. PICK p :
        /\ IsRec(p) /\ p.tree = b.tree /\ p.tokens = Append(b.tokens, op.token_id)
        /\ p.initial = b.initial /\ p.panicked = b.panicked
        /\ r = SetBalance(p, k, v)
    BY <1>2, <2>3, MintOnSteps
  <2>5. v \in U64
    BY <2>1, <2>2, <2>3, GetFacts, SaturatingType
  <2> HIDE DEF k, q, v
  <2>6. Append(b.tokens, op.token_id) \in Seq(TokenIds)
    BY <2>1, <2>3
  <2>7. StateOK(p)
    BY <2>4, <2>6, SameOK
  <2>8. StateOK(r) /\ r.initial = p.initial
    BY <2>2, <2>4, <2>5, <2>7, SetBalanceOK, SetBalanceFacts
  <2> QED
    BY <1>2, <2>4, <2>8
<1> QED
  BY <1>1, <1>2

LEMMA TransferOnOK ==
  ASSUME LowIndices, NEW b, StateOK(b), NEW op, IsOp(op), op.type = "Transfer",
         NEW r, r = TransferOn(b, op)
  PROVE  StateOK(r) /\ r.initial = b.initial /\ (b.panicked => r = b)
<1> DEFINE from == <<op.token_id, op.from>>
           to == <<op.token_id, op.to>>
           sender == RecordRead(b, from)
           both == RecordRead(sender, to)
           v == Get(b.tree, from) - op.amount
           debited == SetBalance(both, from, v)
           w == SaturatingAdd(Get(b.tree, to), op.amount)
<1>1. /\ op.from \in Account /\ op.to \in Account
      /\ op.token_id \in TokenIds /\ op.amount \in U64
  BY DEF IsOp
<1>2. from \in Key /\ to \in Key
  BY <1>1 DEF Key
<1>3. IsRec(b) /\ TreeShape(b.tree) /\ b.tokens \in Seq(TokenIds)
  BY DEF StateOK, StateShape
<1>4. CASE b.panicked \/ ~Contains(b.tokens, op.token_id)
  BY <1>4 DEF TransferOn
<1>5. CASE /\ ~(b.panicked \/ ~Contains(b.tokens, op.token_id))
           /\ Get(b.tree, from) < op.amount
  <2>1. r = sender
    BY <1>5 DEF TransferOn
  <2>2. /\ IsRec(r) /\ r.tree = b.tree /\ r.tokens = b.tokens /\ r.initial = b.initial
        /\ r.panicked = b.panicked
    BY <1>3, <2>1, RecordReadFacts
  <2> QED
    BY <1>3, <1>5, <2>2, SameOK
<1>6. CASE /\ ~b.panicked /\ Contains(b.tokens, op.token_id)
           /\ ~(Get(b.tree, from) < op.amount)
  <2>1. /\ IsRec(both) /\ both.tree = b.tree /\ both.tokens = b.tokens
        /\ both.initial = b.initial /\ both.panicked = b.panicked
        /\ r = IF debited.panicked THEN debited ELSE SetBalance(debited, to, w)
    BY <1>3, <1>6, TransferOnSteps
  <2>2. Get(b.tree, from) \in U64 /\ Get(b.tree, to) \in U64
    BY <1>2, <1>3, GetFacts
  <2>3. v \in U64 /\ w \in U64
    <3> DEFINE x == Get(b.tree, from)
    <3> HIDE DEF x
    <3>1. op.amount <= x
      BY <1>1, <1>6, <2>2, Ranges DEF x
    <3> QED
      BY <1>1, <2>2, <3>1, SaturatingType DEF x
  <2>4. StateOK(both)
    BY <1>3, <2>1, SameOK
  <2>5. debited = SetBalance(both, from, v)
    OBVIOUS
  <2> HIDE DEF from, to, sender, both, v, debited, w
  <2>6. StateOK(debited) /\ debited.initial = both.initial
    BY <1>2, <2>1, <2>3, <2>4, <2>5, SetBalanceOK, SetBalanceFacts
  <2>7. CASE debited.panicked
    BY <1>6, <2>1, <2>6, <2>7
  <2>8. CASE ~debited.panicked
    <3>1. r = SetBalance(debited, to, w) /\ IsRec(debited)
      BY <2>1, <2>6, <2>8 DEF StateOK, StateShape
    <3>2. StateOK(r) /\ r.initial = debited.initial
      BY <1>2, <2>3, <2>6, <3>1, SetBalanceOK, SetBalanceFacts
    <3> QED
      BY <1>6, <2>1, <2>6, <3>2
  <2> QED
    BY <2>7, <2>8
<1> QED
  BY <1>4, <1>5, <1>6

\* An operation keeps the tree whole, and nothing runs after a panic.
LEMMA OpOnOK ==
  ASSUME LowIndices, NEW b, StateOK(b), NEW op, IsOp(op), NEW r, r = OpOn(b, op)
  PROVE  StateOK(r) /\ r.initial = b.initial /\ (b.panicked => r = b)
<1>1. CASE op.type = "Mint"
  BY <1>1, MintOnOK DEF OpOn
<1>2. CASE op.type = "Transfer"
  BY <1>2, TransferOnOK DEF OpOn
<1>3. CASE op.type = "Overflow"
  <2>1. r = [b EXCEPT !.panicked = TRUE] /\ IsRec(b) /\ b.tokens \in Seq(TokenIds)
    BY <1>3 DEF OpOn, StateOK, StateShape
  <2>2. r = [tree |-> b.tree, tokens |-> b.tokens, initial |-> b.initial,
             hashes |-> b.hashes, entries |-> b.entries, panicked |-> TRUE]
    BY <2>1 DEF IsRec
  <2>3. IsRec(r) /\ r.tree = b.tree /\ r.tokens = b.tokens /\ r.initial = b.initial /\ r.panicked = TRUE
    BY <2>2 DEF IsRec
  <2>4. b.panicked => r = b
    <3> HAVE b.panicked
    <3>1. b.panicked = TRUE
      BY DEF StateOK, StateShape
    <3> QED
      BY <2>1, <2>2, <3>1 DEF IsRec
  <2> QED
    BY <2>1, <2>3, <2>4 DEF StateOK, StateShape
<1>4. CASE op.type \notin {"Mint", "Transfer", "Overflow"}
  BY <1>4 DEF OpOn
<1> QED
  BY <1>1, <1>2, <1>3, <1>4

-----------------------------------------------------------------------------
(* An operation that does not panic does to the balances what it does to a *)
(* ledger.                                                                 *)

LEMMA LedgerOfFacts ==
  ASSUME NEW b
  PROVE  LedgerOf(b) = [known |-> ToSet(b.tokens), bal |-> BalOf(b.tree)]
BY DEF LedgerOf, BalOf

LEMMA LedgerType ==
  ASSUME LowIndices, NEW b, StateOK(b)
  PROVE  LedgerOf(b) \in LedgerState
<1>1. TreeShape(b.tree) /\ b.tokens \in Seq(TokenIds)
  BY DEF StateOK, StateShape
<1>2. ASSUME NEW t \in TokenIds, NEW a \in Account
      PROVE  Get(b.tree, <<t, a>>) \in U64
  <2>1. <<t, a>> \in Key
    BY DEF Key
  <2> QED
    BY <1>1, <2>1, GetFacts
<1>3. BalOf(b.tree) \in [TokenIds -> [Account -> U64]]
  BY <1>2 DEF BalOf
<1>4. ToSet(b.tokens) \in SUBSET TokenIds
  BY <1>1 DEF ToSet
<1> QED
  BY <1>3, <1>4, LedgerOfFacts DEF LedgerState

LEMMA TokenFacts ==
  ASSUME NEW s \in Seq(TokenIds), NEW t \in TokenIds
  PROVE  /\ Contains(s, t) <=> t \in ToSet(s)
         /\ ToSet(Append(s, t)) = ToSet(s) \cup {t}
<1>1. DOMAIN s = 1..Len(s) /\ Len(s) \in Nat
  OBVIOUS
<1>2. Contains(s, t) <=> t \in ToSet(s)
  BY <1>1 DEF Contains, ToSet
<1> DEFINE u == Append(s, t)
<1>3. /\ DOMAIN u = 1..(Len(s) + 1) /\ u[Len(s) + 1] = t
      /\ \A i \in 1..Len(s) : u[i] = s[i]
  OBVIOUS
<1> HIDE DEF u
<1>4. ToSet(u) = ToSet(s) \cup {t}
  <2>1. ASSUME NEW x \in ToSet(u)
        PROVE  x \in ToSet(s) \cup {t}
    <3>1. PICK i \in 1..(Len(s) + 1) : x = u[i]
      BY <1>3 DEF ToSet
    <3>2. i = Len(s) + 1 \/ i \in 1..Len(s)
      BY <1>1
    <3> QED
      BY <1>1, <1>3, <3>1, <3>2 DEF ToSet
  <2>2. ASSUME NEW x \in ToSet(s) \cup {t}
        PROVE  x \in ToSet(u)
    <3>1. CASE x = t
      <4>1. Len(s) + 1 \in 1..(Len(s) + 1)
        BY <1>1
      <4> QED
        BY <1>3, <3>1, <4>1 DEF ToSet
    <3>2. CASE x \in ToSet(s)
      <4>1. PICK i \in 1..Len(s) : x = s[i]
        BY <1>1, <3>2 DEF ToSet
      <4>2. i \in 1..(Len(s) + 1)
        BY <1>1
      <4> QED
        BY <1>3, <4>1, <4>2 DEF ToSet
    <3> QED
      BY <3>1, <3>2
  <2> QED
    BY <2>1, <2>2
<1> QED
  BY <1>2, <1>4 DEF u

LEMMA MintOnLedger ==
  ASSUME LowIndices, NEW b, StateOK(b), NEW op, IsOp(op), op.type = "Mint", ~b.panicked,
         NEW r, r = MintOn(b, op), ~r.panicked
  PROVE  LedgerOf(r) = ProcessMint(LedgerOf(b), op)
<1>1. op.to \in Account /\ op.token_id \in TokenIds /\ op.amount \in U64
  BY DEF IsOp
<1>2. IsRec(b) /\ TreeShape(b.tree) /\ b.tokens \in Seq(TokenIds)
  BY DEF StateOK, StateShape
<1> DEFINE L == LedgerOf(b)
<1>3. L.known = ToSet(b.tokens) /\ L.bal = BalOf(b.tree)
  BY LedgerOfFacts
<1>4. MintRefused(L, op) <=> Contains(b.tokens, op.token_id)
  BY <1>1, <1>2, <1>3, TokenFacts DEF MintRefused
<1> HIDE DEF L
<1>5. CASE Contains(b.tokens, op.token_id)
  BY <1>4, <1>5 DEF MintOn, ProcessMint, L
<1>6. CASE ~Contains(b.tokens, op.token_id)
  <2> DEFINE k == <<op.token_id, op.to>>
             q == RecordRead(b, k)
             v == SaturatingAdd(Get(b.tree, k), op.amount)
  <2>1. k \in Key
    BY <1>1 DEF Key
  <2>2. PICK p :
        /\ IsRec(p) /\ p.tree = b.tree /\ p.tokens = Append(b.tokens, op.token_id)
        /\ r = SetBalance(p, k, v)
    BY <1>2, <1>6, MintOnSteps
  <2>3. v \in U64
    BY <1>1, <1>2, <2>1, GetFacts, SaturatingType
  <2>4. v = SaturatingAdd(L.bal[op.token_id][op.to], op.amount)
    BY <1>1, <1>3 DEF BalOf
  <2>5. k = <<op.token_id, op.to>>
    OBVIOUS
  <2> HIDE DEF k, q, v
  <2>6. ~Collides(b.tree, k)
    <3>1. Collides(p.tree, k) => r.panicked = TRUE
      BY <2>2, SetBalancePanic
    <3> QED
      BY <2>2, <3>1
  <2>7. r.tree = Set(b.tree, k, v) /\ r.tokens = Append(b.tokens, op.token_id)
    BY <2>2, <2>6, SetBalanceFacts
  <2>8. BalOf(r.tree) = [L.bal EXCEPT ![op.token_id] = [L.bal[op.token_id] EXCEPT ![op.to] = v]]
    <3> DEFINE B == L.bal
    <3>1. B = BalOf(b.tree)
      BY <1>3
    <3> HIDE DEF B
    <3>2. BalOf(r.tree) = [B EXCEPT ![op.token_id] = [B[op.token_id] EXCEPT ![op.to] = v]]
      <4>1. BalOf(Set(b.tree, k, v)) =
              [BalOf(b.tree) EXCEPT ![op.token_id] = [BalOf(b.tree)[op.token_id] EXCEPT ![op.to] = v]]
        <5> DEFINE x == op.token_id
                   y == op.to
                   u == b.tree
        <5>1. x \in TokenIds /\ y \in Account /\ TreeShape(u) /\ ~Collides(u, <<x, y>>) /\ k = <<x, y>>
          BY <1>1, <1>2, <2>5, <2>6
        <5> HIDE DEF x, y, u
        <5>2. BalOf(Set(u, <<x, y>>, v)) = [BalOf(u) EXCEPT ![x] = [BalOf(u)[x] EXCEPT ![y] = v]]
          BY <2>3, <5>1, BalOfSet
        <5>3. BalOf(Set(u, k, v)) = [BalOf(u) EXCEPT ![x] = [BalOf(u)[x] EXCEPT ![y] = v]]
          BY <5>1, <5>2
        <5> QED
          BY <5>3 DEF x, y, u
      <4> QED
        BY <2>7, <3>1, <4>1
    <3> QED
      BY <3>2 DEF B
  <2>9. ToSet(r.tokens) = L.known \cup {op.token_id}
    BY <1>1, <1>2, <1>3, <2>7, TokenFacts
  <2>10. LedgerOf(r) = [known |-> ToSet(r.tokens), bal |-> BalOf(r.tree)]
    BY LedgerOfFacts
  <2>11. ProcessMint(L, op) = [known |-> L.known \cup {op.token_id},
             bal |-> [L.bal EXCEPT ![op.token_id] = [L.bal[op.token_id] EXCEPT ![op.to] = v]]]
    BY <1>4, <1>6, <2>4 DEF ProcessMint
  <2> QED
    BY <2>8, <2>9, <2>10, <2>11 DEF L
<1> QED
  BY <1>5, <1>6

LEMMA TransferOnLedger ==
  ASSUME LowIndices, NEW b, StateOK(b), NEW op, IsOp(op), op.type = "Transfer", ~b.panicked,
         NEW r, r = TransferOn(b, op), ~r.panicked
  PROVE  LedgerOf(r) = ProcessTransfer(LedgerOf(b), op)
<1> DEFINE from == <<op.token_id, op.from>>
           to == <<op.token_id, op.to>>
           sender == RecordRead(b, from)
           both == RecordRead(sender, to)
           v == Get(b.tree, from) - op.amount
           debited == SetBalance(both, from, v)
           w == SaturatingAdd(Get(b.tree, to), op.amount)
           L == LedgerOf(b)
<1>1. /\ op.from \in Account /\ op.to \in Account
      /\ op.token_id \in TokenIds /\ op.amount \in U64
  BY DEF IsOp
<1>2. from \in Key /\ to \in Key
  BY <1>1 DEF Key
<1>3. IsRec(b) /\ TreeShape(b.tree) /\ b.tokens \in Seq(TokenIds)
  BY DEF StateOK, StateShape
<1>4. /\ L.known = ToSet(b.tokens) /\ L.bal = BalOf(b.tree)
      /\ L = [known |-> L.known, bal |-> L.bal]
  BY LedgerOfFacts
<1>5. L.bal[op.token_id][op.from] = Get(b.tree, from) /\ L.bal[op.token_id][op.to] = Get(b.tree, to)
  BY <1>1, <1>4 DEF BalOf
<1>6. TransferRefused(L, op) <=>
        ~Contains(b.tokens, op.token_id) \/ Get(b.tree, from) < op.amount
  <2>1. Contains(b.tokens, op.token_id) <=> op.token_id \in L.known
    BY <1>1, <1>3, <1>4, TokenFacts
  <2> QED
    BY <1>5, <2>1 DEF TransferRefused
<1>7. CASE ~Contains(b.tokens, op.token_id)
  BY <1>6, <1>7 DEF TransferOn, ProcessTransfer
<1>8. CASE Contains(b.tokens, op.token_id) /\ Get(b.tree, from) < op.amount
  <2>1. r = sender
    BY <1>8 DEF TransferOn
  <2>2. r.tree = b.tree /\ r.tokens = b.tokens
    BY <1>3, <2>1, RecordReadFacts
  <2>3. LedgerOf(r) = L
    BY <2>2, LedgerOfFacts
  <2> QED
    BY <1>6, <1>8, <2>3 DEF ProcessTransfer
<1>9. CASE Contains(b.tokens, op.token_id) /\ ~(Get(b.tree, from) < op.amount)
  <2>1. /\ IsRec(both) /\ both.tree = b.tree /\ both.tokens = b.tokens
        /\ IsRec(debited)
        /\ r = IF debited.panicked THEN debited ELSE SetBalance(debited, to, w)
    BY <1>3, <1>9, TransferOnSteps
  <2>2. Get(b.tree, from) \in U64 /\ Get(b.tree, to) \in U64
    BY <1>2, <1>3, GetFacts
  <2>3. v \in U64 /\ w \in U64
    <3> DEFINE x == Get(b.tree, from)
    <3> HIDE DEF x
    <3>1. op.amount <= x
      BY <1>1, <1>9, <2>2, Ranges DEF x
    <3> QED
      BY <1>1, <2>2, <3>1, SaturatingType DEF x
  <2>4. debited = SetBalance(both, from, v)
    OBVIOUS
  <2>5. from = <<op.token_id, op.from>> /\ to = <<op.token_id, op.to>>
    OBVIOUS
  <2> DEFINE B == L.bal
             D == [B[op.token_id] EXCEPT ![op.from] = v]
             C == [D EXCEPT ![op.to] = w]
  <2>6. ProcessTransfer(L, op) = [known |-> L.known, bal |-> [B EXCEPT ![op.token_id] = C]]
    BY <1>5, <1>6, <1>9 DEF ProcessTransfer
  <2>7. B \in [TokenIds -> [Account -> U64]]
    <3>1. L \in LedgerState
      BY LedgerType
    <3> QED
      BY <3>1 DEF LedgerState
  <2> HIDE DEF from, to, sender, both, v, debited, w, L, B
  <2>8. ~debited.panicked
    BY <2>1
  <2>9. r = SetBalance(debited, to, w)
    BY <2>1, <2>8
  <2>10. ~Collides(b.tree, from)
    <3>1. Collides(both.tree, from) => debited.panicked = TRUE
      BY <2>1, <2>4, SetBalancePanic
    <3> QED
      BY <2>1, <2>8, <3>1
  <2>11. debited.tree = Set(b.tree, from, v) /\ debited.tokens = b.tokens
    BY <2>1, <2>4, <2>10, SetBalanceFacts
  <2>12. TreeShape(debited.tree)
    BY <1>2, <1>3, <2>3, <2>10, <2>11, SetOK
  <2>13. ~Collides(debited.tree, to)
    <3>1. Collides(debited.tree, to) => r.panicked = TRUE
      BY <2>1, <2>9, SetBalancePanic
    <3> QED
      BY <3>1
  <2>14. r.tree = Set(debited.tree, to, w) /\ r.tokens = debited.tokens
    BY <2>1, <2>9, <2>13, SetBalanceFacts
  <2>15. BalOf(debited.tree) = [B EXCEPT ![op.token_id] = D]
    BY <1>1, <1>3, <1>4, <2>3, <2>5, <2>10, <2>11, BalOfSet DEF B
  <2>16. BalOf(r.tree) = [BalOf(debited.tree) EXCEPT ![op.token_id] =
                            [BalOf(debited.tree)[op.token_id] EXCEPT ![op.to] = w]]
    BY <1>1, <2>3, <2>5, <2>12, <2>13, <2>14, BalOfSet
  <2>17. BalOf(r.tree) = [B EXCEPT ![op.token_id] = C]
    BY <1>1, <2>7, <2>15, <2>16
  <2>18. LedgerOf(r) = [known |-> ToSet(r.tokens), bal |-> BalOf(r.tree)]
    BY LedgerOfFacts
  <2> QED
    BY <1>4, <2>6, <2>11, <2>14, <2>17, <2>18 DEF L
<1> QED
  BY <1>7, <1>8, <1>9

LEMMA OpOnLedger ==
  ASSUME LowIndices, NEW b, StateOK(b), NEW op, IsOp(op), NEW r, r = OpOn(b, op), ~r.panicked
  PROVE  ~b.panicked /\ LedgerOf(r) = LedgerOp(LedgerOf(b), op)
<1>1. ~b.panicked
  BY OpOnOK
<1>2. CASE op.type = "Mint"
  BY <1>1, <1>2, MintOnLedger DEF OpOn, LedgerOp
<1>3. CASE op.type = "Transfer"
  BY <1>1, <1>3, TransferOnLedger DEF OpOn, LedgerOp
<1>4. CASE op.type = "Overflow"
  <2>1. r = [b EXCEPT !.panicked = TRUE] /\ IsRec(b)
    BY <1>4 DEF OpOn, StateOK, StateShape
  <2> QED
    BY <2>1 DEF IsRec
<1>5. CASE op.type \notin {"Mint", "Transfer", "Overflow"}
  BY <1>1, <1>5 DEF OpOn, LedgerOp
<1> QED
  BY <1>2, <1>3, <1>4, <1>5

-----------------------------------------------------------------------------
(* What a batch does to a state. *)

LEMMA OpsFacts ==
  ASSUME NEW batch \in Seq(SignedOperation), NEW ops, ops = OpsOf(batch),
         NEW net, net = NetTransfers(StageAll(batch))
  PROVE  /\ Len(batch) \in Nat /\ Len(net) \in Nat /\ Len(ops) = Len(batch) + Len(net)
         /\ DOMAIN net = 1..Len(net) /\ DOMAIN ops = 1..Len(ops)
         /\ \A i \in 1..Len(batch) : ops[i] = IF batch[i].operation.type = "Mint"
                                               THEN batch[i].operation ELSE Staged
         /\ \A i \in 1..Len(net) :
              /\ ops[Len(batch) + i] = net[i] /\ net[i].type = "Transfer"
              /\ net[i].from \in Account /\ net[i].to \in Account
              /\ net[i].token_id \in TokenIds /\ net[i].amount \in U64
         /\ \A i \in 1..Len(ops) : IsOp(ops[i])
         /\ ops = [i \in 1..Len(ops) |-> ops[i]]
<1> DEFINE n == Len(batch)
           first == [i \in 1..n |-> IF batch[i].operation.type = "Mint"
                                    THEN batch[i].operation ELSE Staged]
           st == StageAll(batch)
           X == {first[i] : i \in 1..n} \cup {net[i] : i \in 1..Len(net)}
<1>1. n \in Nat
  OBVIOUS
<1>2. ops = first \o net
  BY DEF OpsOf
<1>3. st \in [StageKey -> I64]
  <2>1. PICK r \in [0..n -> [StageKey -> I64]] : st = r[n]
    BY StageAllRun
  <2>2. n \in 0..n
    BY <1>1
  <2> QED
    BY <2>1, <2>2
<1>4. /\ Len(net) \in Nat /\ DOMAIN net = 1..Len(net)
      /\ \A i \in 1..Len(net) : \E k \in StageKey : net[i] = NetTransfer(k, st[k])
  <2> HIDE DEF st
  <2>1. net = NetTransfers(st)
    BY DEF st
  <2> QED
    BY <1>3, <2>1, NetTransfersFacts
<1>5. ASSUME NEW i \in 1..Len(net)
      PROVE  /\ net[i].type = "Transfer" /\ net[i].from \in Account /\ net[i].to \in Account
             /\ net[i].token_id \in TokenIds /\ net[i].amount \in U64
  <2>1. PICK k \in StageKey : net[i] = NetTransfer(k, st[k])
    BY <1>4
  <2>2. st[k] \in I64
    BY <1>3
  <2> HIDE DEF st
  <2>3. net[i].type = "Transfer"
    BY <2>1 DEF NetTransfer, Transfer
  <2> QED
    BY <2>1, <2>2, <2>3, NetTransferFacts
<1>6. ASSUME NEW i \in 1..n
      PROVE  IsOp(first[i]) /\ first[i] = IF batch[i].operation.type = "Mint"
                                           THEN batch[i].operation ELSE Staged
  <2> DEFINE op == batch[i].operation
  <2>1. /\ op.type \in {"Mint", "Transfer"} /\ op.to \in Account
        /\ op.token_id \in TokenIds /\ op.amount \in U64
    BY OperationFacts
  <2>2. first[i] = IF op.type = "Mint" THEN op ELSE Staged
    OBVIOUS
  <2>3. Staged.type = "Staged"
    BY DEF Staged
  <2> HIDE DEF op, first
  <2> QED
    BY <2>1, <2>2, <2>3 DEF IsOp, op
<1>7. first \in Seq(X) /\ net \in Seq(X) /\ Len(first) = n
  <2>1. net = [i \in 1..Len(net) |-> net[i]]
    BY <1>4 DEF NetTransfers
  <2>2. first = [i \in 1..n |-> first[i]]
    OBVIOUS
  <2> HIDE DEF first
  <2>3. first \in [1..n -> X] /\ net \in [1..Len(net) -> X]
    BY <2>1, <2>2
  <2> HIDE DEF X, n
  <2> QED
    BY <1>1, <1>4, <2>3
<1> HIDE DEF X, first
<1>8. /\ Len(ops) = n + Len(net) /\ DOMAIN ops = 1..Len(ops)
      /\ \A i \in 1..n : ops[i] = first[i]
      /\ \A i \in 1..Len(net) : ops[n + i] = net[i]
  <2> HIDE DEF n
  <2>1. /\ Len(ops) = n + Len(net)
        /\ \A i \in 1..(n + Len(net)) : ops[i] = IF i <= n THEN first[i] ELSE net[i - n]
    <3>1. /\ Len(first \o net) = Len(first) + Len(net)
          /\ \A i \in 1..(Len(first) + Len(net)) :
               (first \o net)[i] = IF i <= Len(first) THEN first[i] ELSE net[i - Len(first)]
      BY <1>7, ConcatProperties, Zenon
    <3> DEFINE cat == first \o net
    <3> HIDE DEF cat
    <3> QED
      BY <1>2, <1>7, <3>1 DEF cat
  <2>2. DOMAIN ops = 1..Len(ops)
    BY <1>2, <1>7, ConcatProperties
  <2>3. ASSUME NEW i \in 1..Len(net) PROVE ops[n + i] = net[i]
    <3> DEFINE j == n + i
    <3>1. j \in 1..(n + Len(net)) /\ ~(j <= n) /\ j - n = i
      BY <1>1, <1>4
    <3> HIDE DEF j
    <3>2. ops[j] = net[i]
      BY <2>1, <3>1
    <3> QED
      BY <3>2 DEF j
  <2>4. \A i \in 1..n : ops[i] = first[i]
    BY <1>1, <1>4, <2>1
  <2> QED
    BY <2>1, <2>2, <2>3, <2>4
<1>9. ASSUME NEW i \in 1..Len(ops)
      PROVE  IsOp(ops[i])
  <2>1. CASE i \in 1..n
    BY <1>6, <1>8, <2>1
  <2>2. CASE i \notin 1..n
    <3>1. i - n \in 1..Len(net) /\ i = n + (i - n)
      BY <1>1, <1>4, <1>8, <2>2
    <3>2. ops[i] = net[i - n]
      BY <1>8, <3>1
    <3> HIDE DEF n
    <3> QED
      BY <1>5, <3>1, <3>2 DEF IsOp
  <2> QED
    BY <2>1, <2>2
<1>10. ops = [i \in 1..Len(ops) |-> ops[i]]
  <2>1. ops \in Seq(X)
    BY <1>2, <1>7, ConcatProperties
  <2> QED
    BY <2>1
<1> QED
  BY <1>1, <1>4, <1>5, <1>6, <1>8, <1>9, <1>10

\* The states that carrying out operations goes through.
IsOpsRun(g, b, ops) ==
  /\ g[0] = b
  /\ \A i \in 1..Len(ops) : g[i] = OpOn(g[i - 1], ops[i])

LEMMA CarryOutRun ==
  ASSUME NEW ops, Len(ops) \in Nat, NEW b
  PROVE  \E g : IsOpsRun(g, b, ops) /\ CarryOut(b, ops) = g[Len(ops)]
<1> DEFINE N == Len(ops)
           Rec(g) == g = [i \in 0..N |-> IF i = 0 THEN b ELSE OpOn(g[i - 1], ops[i])]
           G == CHOOSE g : Rec(g)
<1>1. N \in Nat
  OBVIOUS
<1>2. CarryOut(b, ops) = G[N]
  BY DEF CarryOut
<1>3. Rec(G)
  <2> HIDE DEF N
  <2>1. PICK g : IsLoop(g, "operations", ops, N, b)
    BY <1>1, LoopExists
  <2>2. \A i, y : Round("operations", ops, i, y) = OpOn(y, ops[i])
    BY DEF Round
  <2>3. Rec(g)
    BY <2>1, <2>2 DEF IsLoop
  <2> HIDE DEF Rec
  <2> QED
    BY <2>3
<1> HIDE DEF G
<1>4. G[0] = b /\ \A i \in 1..N : G[i] = OpOn(G[i - 1], ops[i])
  BY <1>1, <1>3
<1> QED
  BY <1>2, <1>4 DEF IsOpsRun

LEMMA TransitionRun ==
  ASSUME NEW batch \in Seq(SignedOperation), NEW ops, ops = OpsOf(batch), NEW b
  PROVE  \E g : IsOpsRun(g, b, ops) /\ TransitionOn(b, batch) = g[Len(ops)]
<1>1. Len(ops) \in Nat
  BY OpsFacts
<1> QED
  BY <1>1, CarryOutRun DEF TransitionOn

LEMMA StepsOK ==
  ASSUME LowIndices, NEW ops, Len(ops) \in Nat, \A i \in 1..Len(ops) : IsOp(ops[i]),
         NEW b, StateOK(b), NEW g, IsOpsRun(g, b, ops)
  PROVE  /\ \A i \in 0..Len(ops) : StateOK(g[i]) /\ g[i].initial = b.initial
         /\ ~g[Len(ops)].panicked => \A i \in 0..Len(ops) : ~g[i].panicked
<1> DEFINE N == Len(ops)
           T == {i \in 0..N : StateOK(g[i]) /\ g[i].initial = b.initial}
           D == {m \in 0..N : ~g[N - m].panicked}
<1>1. N \in Nat /\ \A i \in 1..N : IsOp(ops[i])
  OBVIOUS
<1>2. g[0] = b /\ \A i \in 1..N : g[i] = OpOn(g[i - 1], ops[i])
  BY DEF IsOpsRun
<1> HIDE DEF N
<1>3. 0 \in T
  BY <1>1, <1>2
<1>4. ASSUME NEW i \in 1..N, i - 1 \in T PROVE i \in T
  BY <1>1, <1>2, <1>4, OpOnOK
<1>5. \A i \in 0..N : i \in T
  <2> HIDE DEF T
  <2> QED
    BY <1>1, <1>3, <1>4, CountUp, Zenon
<1>6. ASSUME ~g[N].panicked, NEW i \in 0..N PROVE ~g[i].panicked
  <2>1. 0 \in D
    BY <1>1, <1>6
  <2>2. ASSUME NEW m \in 1..N, m - 1 \in D PROVE m \in D
    <3>1. ~g[N - (m - 1)].panicked
      BY <2>2
    <3> DEFINE j == N - m + 1
    <3>2. j \in 1..N /\ j = N - (m - 1) /\ j - 1 = N - m /\ j - 1 \in 0..N
      BY <1>1
    <3> HIDE DEF j
    <3>3. StateOK(g[j - 1])
      BY <1>5, <3>2
    <3>4. g[j] = OpOn(g[j - 1], ops[j]) /\ ~g[j].panicked
      BY <1>2, <3>1, <3>2
    <3>5. ~g[j - 1].panicked
      BY <1>1, <3>2, <3>3, <3>4, OpOnOK
    <3> QED
      BY <1>1, <3>2, <3>5
  <2>3. \A m \in 0..N : m \in D
    <3> HIDE DEF D
    <3> QED
      BY <1>1, <2>1, <2>2, CountUp, Zenon
  <2>4. N - i \in 0..N /\ N - (N - i) = i
    BY <1>1
  <2> QED
    BY <2>3, <2>4
<1> QED
  BY <1>1, <1>5, <1>6 DEF N

LEMMA RunOK ==
  ASSUME LowIndices, NEW batch \in Seq(SignedOperation), NEW ops, ops = OpsOf(batch),
         NEW b, StateOK(b), NEW g, IsOpsRun(g, b, ops)
  PROVE  /\ Len(ops) \in Nat
         /\ \A i \in 0..Len(ops) : StateOK(g[i]) /\ g[i].initial = b.initial
         /\ ~g[Len(ops)].panicked => \A i \in 0..Len(ops) : ~g[i].panicked
<1>1. Len(ops) \in Nat /\ \A i \in 1..Len(ops) : IsOp(ops[i])
  BY OpsFacts
<1> QED
  BY <1>1, StepsOK

\* A transition that does not panic does to the balances what state_transition
\* does to a ledger.
LEMMA TransitionLedger ==
  ASSUME LowIndices, NEW batch \in Seq(SignedOperation), NEW b, StateOK(b),
         NEW r, r = TransitionOn(b, batch), ~r.panicked
  PROVE  LedgerOf(r) = Transition(LedgerOf(b), batch)
<1> DEFINE ops == OpsOf(batch)
           net == NetTransfers(StageAll(batch))
           N == Len(ops)
           n == Len(batch)
           m == Len(net)
           L == LedgerOf(b)
<1>1. /\ n \in Nat /\ m \in Nat /\ N = n + m /\ DOMAIN net = 1..m
      /\ \A i \in 1..n : ops[i] = IF batch[i].operation.type = "Mint"
                                   THEN batch[i].operation ELSE Staged
      /\ \A i \in 1..m :
           /\ ops[n + i] = net[i] /\ net[i].type = "Transfer"
           /\ net[i].from \in Account /\ net[i].to \in Account
           /\ net[i].token_id \in TokenIds /\ net[i].amount \in U64
      /\ \A i \in 1..N : IsOp(ops[i])
  <2> HIDE DEF ops, net
  <2> QED
    BY OpsFacts DEF ops, net
<1>2. PICK g : IsOpsRun(g, b, ops) /\ r = g[N]
  BY TransitionRun
<1>3. \A i \in 0..N : StateOK(g[i]) /\ ~g[i].panicked
  <2> HIDE DEF ops
  <2> QED
    BY <1>2, RunOK DEF ops
<1>4. g[0] = b /\ \A i \in 1..N : g[i] = OpOn(g[i - 1], ops[i])
  BY <1>2 DEF IsOpsRun
<1>5. \A i \in 1..N : LedgerOf(g[i]) = LedgerOp(LedgerOf(g[i - 1]), ops[i])
  <2> TAKE i \in 1..N
  <2>1. i \in 0..N /\ i - 1 \in 0..N
    BY <1>1
  <2> QED
    BY <1>1, <1>3, <1>4, <2>1, OpOnLedger
<1>6. L \in LedgerState
  BY LedgerType
<1>7. PICK q \in [0..n -> LedgerState] :
        /\ q[0] = L
        /\ \A i \in 1..n : q[i] = MintStep(q[i - 1], batch[i])
        /\ MintAll(L, batch) = q[n]
  BY <1>6, MintAllRun
<1>8. q[n] \in LedgerState
  BY <1>1, <1>7
<1>9. PICK p : IsTransferRun(p, m, q[n], net) /\ TransferAll(q[n], net) = p[m]
  <2> HIDE DEF net
  <2> QED
    BY <1>1, <1>8, TransferAllRun
<1> HIDE DEF ops, net, N, n, m, L
<1>10. \A i \in 1..n : \A s : LedgerOp(s, ops[i]) = MintStep(s, batch[i])
  <2> TAKE i \in 1..n
  <2> TAKE s
  <2>1. CASE batch[i].operation.type = "Mint"
    BY <1>1, <2>1 DEF LedgerOp, MintStep
  <2>2. CASE batch[i].operation.type # "Mint"
    <3>1. ops[i].type = "Staged"
      BY <1>1, <2>2 DEF Staged
    <3> QED
      BY <2>2, <3>1 DEF LedgerOp, MintStep
  <2> QED
    BY <2>1, <2>2
<1> DEFINE T == {i \in 0..n : LedgerOf(g[i]) = q[i]}
<1>11. \A i \in 0..n : i \in T
  <2>1. 0 \in T
    BY <1>1, <1>4, <1>7 DEF L
  <2>2. ASSUME NEW i \in 1..n, i - 1 \in T PROVE i \in T
    <3>1. i \in 1..N /\ i \in 0..n
      BY <1>1
    <3> QED
      BY <1>5, <1>7, <1>10, <2>2, <3>1
  <2> HIDE DEF T
  <2> QED
    BY <1>1, <2>1, <2>2, CountUp, Zenon
<1>12. LedgerOf(g[n]) = q[n]
  <2>1. n \in 0..n
    BY <1>1
  <2> QED
    BY <1>11, <2>1
<1> DEFINE W == {i \in 0..m : LedgerOf(g[n + i]) = p[i]}
<1>13. \A i \in 0..m : i \in W
  <2>1. 0 \in W
    <3>1. n + 0 = n /\ 0 \in 0..m
      BY <1>1
    <3> QED
      BY <1>9, <1>12, <3>1 DEF IsTransferRun
  <2>2. ASSUME NEW i \in 1..m, i - 1 \in W PROVE i \in W
    <3>1. n + i \in 1..N /\ i \in 0..m /\ n + i - 1 = n + (i - 1)
      BY <1>1
    <3> DEFINE x == n + i
    <3>2. x \in 1..N /\ x - 1 = n + (i - 1) /\ ops[x] = net[i]
      BY <1>1, <3>1
    <3> HIDE DEF x
    <3>3. LedgerOf(g[x]) = LedgerOp(LedgerOf(g[n + (i - 1)]), net[i])
      BY <1>5, <3>2
    <3>4. \A s : LedgerOp(s, net[i]) = ProcessTransfer(s, net[i])
      BY <1>1 DEF LedgerOp
    <3> QED
      BY <1>9, <2>2, <3>1, <3>3, <3>4 DEF IsTransferRun, x
  <2> HIDE DEF W
  <2> QED
    BY <1>1, <2>1, <2>2, CountUp, Zenon
<1>14. LedgerOf(r) = p[m]
  <2>1. m \in 0..m
    BY <1>1
  <2> QED
    BY <1>1, <1>2, <1>13, <2>1
<1> QED
  BY <1>7, <1>9, <1>14 DEF Transition, L, net

-----------------------------------------------------------------------------
(* A build with overflow checks. *)

LEMMA OpsInFacts ==
  ASSUME NEW batch \in Seq(SignedOperation), NEW checks, NEW ops, ops = OpsOf(batch),
         NEW steps, steps = OpsIn(batch, checks)
  PROVE  /\ Len(ops) \in Nat /\ Len(steps) = Len(ops) /\ ops = [i \in 1..Len(ops) |-> ops[i]]
         /\ steps = [i \in 1..Len(ops) |-> steps[i]]
         /\ \A i \in 1..Len(ops) : /\ IsOp(ops[i]) /\ IsOp(steps[i])
                                   /\ \/ steps[i] = ops[i]
                                      \/ steps[i].type = "Overflow" /\ ops[i].type # "Mint"
<1> DEFINE N == Len(ops)
<1>1. N \in Nat /\ DOMAIN ops = 1..N /\ \A i \in 1..N : IsOp(ops[i])
  BY OpsFacts
<1>2. steps = [i \in 1..N |-> IF checks /\ Overflows(batch, i) THEN Overflow ELSE ops[i]]
  BY DEF OpsIn
<1>3. ops = [i \in 1..N |-> ops[i]]
  BY OpsFacts
<1> HIDE DEF N
<1>4. /\ steps = [i \in 1..N |-> steps[i]]
      /\ \A i \in 1..N : steps[i] = IF checks /\ Overflows(batch, i) THEN Overflow ELSE ops[i]
  BY <1>2
<1>5. Len(steps) = N
  BY <1>1, <1>4
<1>6. Overflow.type = "Overflow" /\ IsOp(Overflow)
  BY DEF Overflow, IsOp
<1>7. ASSUME NEW i \in 1..N, Overflows(batch, i) PROVE ops[i].type # "Mint"
  <2> DEFINE net == NetTransfers(StageAll(batch))
             n == Len(batch)
  <2>1. /\ n \in Nat /\ Len(net) \in Nat /\ N = n + Len(net)
        /\ \A j \in 1..n : ops[j] = IF batch[j].operation.type = "Mint"
                                      THEN batch[j].operation ELSE Staged
        /\ \A j \in 1..Len(net) : ops[n + j] = net[j] /\ net[j].type = "Transfer"
    <3> HIDE DEF net
    <3> QED
      BY OpsFacts DEF net, N
  <2> HIDE DEF net
  <2>2. CASE i <= n
    <3>1. batch[i].operation.type = "Transfer"
      BY <1>7, <2>2 DEF Overflows
    <3> QED
      BY <1>1, <2>1, <2>2, <3>1 DEF Staged
  <2>3. CASE ~(i <= n)
    <3>1. i - n \in 1..Len(net) /\ n + (i - n) = i
      BY <1>1, <2>1, <2>3
    <3> HIDE DEF n
    <3> QED
      BY <2>1, <3>1
  <2> QED
    BY <2>2, <2>3
<1>8. \A i \in 1..N : /\ IsOp(steps[i])
                      /\ \/ steps[i] = ops[i]
                         \/ steps[i].type = "Overflow" /\ ops[i].type # "Mint"
  BY <1>1, <1>4, <1>6, <1>7
<1> QED
  BY <1>1, <1>3, <1>4, <1>5, <1>8 DEF N

\* What the states of a run have in common.
LEMMA TransitionInRun ==
  ASSUME LowIndices, NEW batch \in Seq(SignedOperation), NEW checks, NEW b, StateOK(b),
         NEW steps, steps = OpsIn(batch, checks)
  PROVE  \E g : /\ IsOpsRun(g, b, steps) /\ TransitionIn(b, batch, checks) = g[Len(steps)]
                /\ \A i \in 0..Len(steps) : StateOK(g[i])
                /\ ~g[Len(steps)].panicked => \A i \in 0..Len(steps) : ~g[i].panicked
<1>1. Len(steps) \in Nat /\ \A i \in 1..Len(steps) : IsOp(steps[i])
  BY OpsInFacts
<1>2. PICK g : IsOpsRun(g, b, steps) /\ CarryOut(b, steps) = g[Len(steps)]
  BY <1>1, CarryOutRun
<1>3. TransitionIn(b, batch, checks) = g[Len(steps)]
  BY <1>2 DEF TransitionIn
<1> QED
  BY <1>1, <1>2, <1>3, StepsOK

LEMMA OverflowPanics ==
  ASSUME NEW b, StateOK(b), NEW op, op.type = "Overflow", NEW r, r = OpOn(b, op)
  PROVE  r.panicked = TRUE /\ LedgerOf(r) = LedgerOf(b)
<1>1. r = [b EXCEPT !.panicked = TRUE] /\ IsRec(b)
  BY DEF OpOn, StateOK, StateShape
<1>2. r.panicked = TRUE /\ r.tree = b.tree /\ r.tokens = b.tokens
  BY <1>1 DEF IsRec
<1> QED
  BY <1>2, LedgerOfFacts

\* Where it does not panic, a build with overflow checks does what one without does.
LEMMA ChecksOnlyPanic ==
  ASSUME LowIndices, NEW batch \in Seq(SignedOperation), NEW checks, NEW b, StateOK(b),
         NEW r, r = TransitionIn(b, batch, checks)
  PROVE  StateOK(r) /\ (~r.panicked => r = TransitionOn(b, batch))
<1> DEFINE ops == OpsOf(batch)
           steps == OpsIn(batch, checks)
           N == Len(ops)
<1>1. /\ N \in Nat /\ Len(steps) = N /\ ops = [i \in 1..N |-> ops[i]]
      /\ steps = [i \in 1..N |-> steps[i]]
      /\ \A i \in 1..N : steps[i] = ops[i] \/ steps[i].type = "Overflow"
  <2> HIDE DEF ops, steps
  <2> QED
    BY OpsInFacts DEF ops, steps
<1>2. PICK g : /\ IsOpsRun(g, b, steps) /\ r = g[N]
               /\ \A i \in 0..N : StateOK(g[i])
               /\ ~g[N].panicked => \A i \in 0..N : ~g[i].panicked
  <2> HIDE DEF ops, N
  <2>1. steps = OpsIn(batch, checks)
    OBVIOUS
  <2> HIDE DEF steps
  <2>2. PICK g : /\ IsOpsRun(g, b, steps) /\ r = g[Len(steps)]
                 /\ \A i \in 0..Len(steps) : StateOK(g[i])
                 /\ ~g[Len(steps)].panicked => \A i \in 0..Len(steps) : ~g[i].panicked
    BY <2>1, TransitionInRun
  <2> QED
    BY <1>1, <2>2
<1>3. CarryOut(b, ops) = TransitionOn(b, batch) /\ CarryOut(b, steps) = r
  BY DEF TransitionOn, TransitionIn
<1> HIDE DEF ops, steps, N
<1>4. StateOK(r)
  BY <1>1, <1>2
<1>5. ASSUME ~r.panicked PROVE r = TransitionOn(b, batch)
  <2>1. ASSUME NEW i \in 1..N PROVE steps[i] = ops[i]
    <3>1. i \in 0..N /\ i - 1 \in 0..N
      BY <1>1
    <3>2. g[i] = OpOn(g[i - 1], steps[i]) /\ ~g[i].panicked /\ StateOK(g[i - 1])
      BY <1>1, <1>2, <1>5, <3>1 DEF IsOpsRun
    <3> QED
      BY <1>1, <3>2, OverflowPanics
  <2>2. steps = ops
    BY <1>1, <2>1
  <2> QED
    BY <1>3, <2>2
<1> QED
  BY <1>4, <1>5

LEMMA WithoutChecks ==
  ASSUME NEW batch \in Seq(SignedOperation), NEW b
  PROVE  TransitionIn(b, batch, FALSE) = TransitionOn(b, batch)
<1> DEFINE ops == OpsOf(batch)
           steps == OpsIn(batch, FALSE)
<1>1. ops = [i \in 1..Len(ops) |-> ops[i]]
  <2> HIDE DEF ops, steps
  <2> QED
    BY OpsInFacts DEF ops, steps
<1>2. steps = [i \in 1..Len(ops) |-> ops[i]]
  BY DEF OpsIn
<1> HIDE DEF ops
<1>3. steps = ops
  BY <1>1, <1>2
<1> QED
  BY <1>3 DEF TransitionIn, TransitionOn, ops

-----------------------------------------------------------------------------
(* What a panic leaves. *)

LEMMA MintOnPanics ==
  ASSUME LowIndices, NEW b, StateOK(b), NEW op, IsOp(op), op.type = "Mint", ~b.panicked,
         NEW r, r = MintOn(b, op), r.panicked
  PROVE  LedgerOf(r) \in Halfway(LedgerOf(b), op)
<1>1. op.to \in Account /\ op.token_id \in TokenIds /\ op.amount \in U64
  BY DEF IsOp
<1>2. IsRec(b) /\ TreeShape(b.tree) /\ b.tokens \in Seq(TokenIds)
  BY DEF StateOK, StateShape
<1> DEFINE L == LedgerOf(b)
           k == <<op.token_id, op.to>>
           q == RecordRead(b, k)
           v == SaturatingAdd(Get(b.tree, k), op.amount)
<1>3. L.known = ToSet(b.tokens) /\ L.bal = BalOf(b.tree)
  BY LedgerOfFacts
<1>4. ~Contains(b.tokens, op.token_id)
  BY DEF MintOn
<1>5. ~MintRefused(L, op)
  BY <1>1, <1>2, <1>3, <1>4, TokenFacts DEF MintRefused
<1>6. PICK p :
        /\ IsRec(p) /\ p.tree = b.tree /\ p.tokens = Append(b.tokens, op.token_id)
        /\ p.panicked = b.panicked /\ r = SetBalance(p, k, v)
  BY <1>2, <1>4, MintOnSteps
<1> HIDE DEF L, k, q, v
<1>7. Collides(p.tree, k)
  BY <1>6, SetBalancePanic
<1>8. r.tree = b.tree /\ r.tokens = Append(b.tokens, op.token_id)
  BY <1>6, <1>7, SetBalanceFacts
<1>9. LedgerOf(r) = [known |-> L.known \cup {op.token_id}, bal |-> L.bal]
  <2>1. LedgerOf(r) = [known |-> ToSet(r.tokens), bal |-> BalOf(r.tree)]
    BY LedgerOfFacts
  <2>2. ToSet(r.tokens) = L.known \cup {op.token_id}
    BY <1>1, <1>2, <1>3, <1>8, TokenFacts
  <2> QED
    BY <1>3, <1>8, <2>1, <2>2
<1>10. Halfway(L, op) = {[known |-> L.known \cup {op.token_id}, bal |-> L.bal]}
  BY <1>5 DEF Halfway
<1> QED
  BY <1>9, <1>10 DEF L

LEMMA TransferOnPanics ==
  ASSUME LowIndices, NEW b, StateOK(b), NEW op, IsOp(op), op.type = "Transfer", ~b.panicked,
         NEW r, r = TransferOn(b, op), r.panicked
  PROVE  LedgerOf(r) \in Halfway(LedgerOf(b), op)
<1> DEFINE from == <<op.token_id, op.from>>
           to == <<op.token_id, op.to>>
           sender == RecordRead(b, from)
           both == RecordRead(sender, to)
           v == Get(b.tree, from) - op.amount
           debited == SetBalance(both, from, v)
           w == SaturatingAdd(Get(b.tree, to), op.amount)
           L == LedgerOf(b)
<1>1. /\ op.from \in Account /\ op.to \in Account
      /\ op.token_id \in TokenIds /\ op.amount \in U64
  BY DEF IsOp
<1>2. from \in Key /\ to \in Key
  BY <1>1 DEF Key
<1>3. IsRec(b) /\ TreeShape(b.tree) /\ b.tokens \in Seq(TokenIds)
  BY DEF StateOK, StateShape
<1>4. L.known = ToSet(b.tokens) /\ L.bal = BalOf(b.tree) /\ L = [known |-> L.known, bal |-> L.bal]
  BY LedgerOfFacts
<1>5. L.bal[op.token_id][op.from] = Get(b.tree, from)
  BY <1>1, <1>4 DEF BalOf
<1>6. Contains(b.tokens, op.token_id) /\ ~(Get(b.tree, from) < op.amount)
  <2>1. ~sender.panicked
    BY <1>3, RecordReadFacts
  <2> HIDE DEF sender
  <2> QED
    BY <2>1 DEF TransferOn, sender
<1>7. ~TransferRefused(L, op)
  BY <1>1, <1>3, <1>4, <1>5, <1>6, TokenFacts DEF TransferRefused
<1>8. Halfway(L, op) = {L, Debited(L, op)}
  BY <1>7 DEF Halfway
<1>9. /\ IsRec(both) /\ both.tree = b.tree /\ both.tokens = b.tokens /\ both.panicked = b.panicked
      /\ IsRec(debited)
      /\ r = IF debited.panicked THEN debited ELSE SetBalance(debited, to, w)
  BY <1>3, <1>6, TransferOnSteps
<1>10. v \in U64
  <2> DEFINE x == Get(b.tree, from)
  <2> HIDE DEF x
  <2>1. x \in U64
    BY <1>2, <1>3, GetFacts DEF x
  <2>2. op.amount <= x
    BY <1>1, <1>6, <2>1, Ranges DEF x
  <2> QED
    BY <1>1, <2>1, <2>2, SaturatingType DEF x
<1>11. Debited(L, op) = [known |-> L.known,
          bal |-> [L.bal EXCEPT ![op.token_id] = [L.bal[op.token_id] EXCEPT ![op.from] = v]]]
  BY <1>5 DEF Debited
<1>12. from = <<op.token_id, op.from>> /\ debited = SetBalance(both, from, v)
  OBVIOUS
<1> HIDE DEF from, to, sender, both, v, debited, w, L
<1>13. CASE debited.panicked
  <2>1. Collides(both.tree, from)
    BY <1>9, <1>12, <1>13, SetBalancePanic
  <2>2. r.tree = b.tree /\ r.tokens = b.tokens
    BY <1>9, <1>12, <1>13, <2>1, SetBalanceFacts
  <2>3. LedgerOf(r) = L
    BY <2>2, LedgerOfFacts DEF L
  <2> QED
    BY <1>8, <2>3 DEF L
<1>14. CASE ~debited.panicked
  <2>1. ~Collides(b.tree, from)
    <3>1. Collides(both.tree, from) => debited.panicked = TRUE
      BY <1>9, <1>12, SetBalancePanic
    <3> QED
      BY <1>9, <1>14, <3>1
  <2>2. debited.tree = Set(b.tree, from, v) /\ debited.tokens = b.tokens
    BY <1>9, <1>12, <2>1, SetBalanceFacts
  <2>3. r = SetBalance(debited, to, w)
    BY <1>9, <1>14
  <2>4. Collides(debited.tree, to)
    <3>1. ~Collides(debited.tree, to) => r.panicked = debited.panicked
      BY <1>9, <2>3, SetBalancePanic
    <3> QED
      BY <1>14, <3>1
  <2>5. r.tree = debited.tree /\ r.tokens = debited.tokens
    BY <1>9, <2>3, <2>4, SetBalanceFacts
  <2>6. BalOf(r.tree) =
          [L.bal EXCEPT ![op.token_id] = [L.bal[op.token_id] EXCEPT ![op.from] = v]]
    BY <1>1, <1>3, <1>4, <1>10, <1>12, <2>1, <2>2, <2>5, BalOfSet
  <2>7. LedgerOf(r) = [known |-> ToSet(r.tokens), bal |-> BalOf(r.tree)]
    BY LedgerOfFacts
  <2>8. LedgerOf(r) = Debited(L, op)
    BY <1>4, <1>11, <2>2, <2>5, <2>6, <2>7
  <2> QED
    BY <1>8, <2>8 DEF L
<1> QED
  BY <1>13, <1>14

\* Every other operation leaves the ledger as it is.
LEMMA HalfwayKeeps ==
  ASSUME NEW s, NEW op, op.type # "Mint"
  PROVE  s \in Halfway(s, op)
BY DEF Halfway

LEMMA OpOnPanics ==
  ASSUME LowIndices, NEW b, StateOK(b), ~b.panicked, NEW op, IsOp(op),
         NEW r, r = OpOn(b, op), r.panicked
  PROVE  LedgerOf(r) \in Halfway(LedgerOf(b), op)
<1>1. CASE op.type = "Mint"
  BY <1>1, MintOnPanics DEF OpOn
<1>2. CASE op.type = "Transfer"
  BY <1>2, TransferOnPanics DEF OpOn
<1>3. CASE op.type = "Overflow"
  BY <1>3, OverflowPanics, HalfwayKeeps
<1>4. CASE op.type \notin {"Mint", "Transfer", "Overflow"}
  BY <1>4 DEF OpOn
<1> QED
  BY <1>1, <1>2, <1>3, <1>4

LEMMA LedgersRun ==
  ASSUME NEW s, NEW ops, Len(ops) \in Nat
  PROVE  /\ LedgersOf(s, ops)[0] = s
         /\ \A i \in 1..Len(ops) :
              LedgersOf(s, ops)[i] = LedgerOp(LedgersOf(s, ops)[i - 1], ops[i])
<1> DEFINE n == Len(ops)
           Rec(g) == g = [i \in 0..n |-> IF i = 0 THEN s ELSE LedgerOp(g[i - 1], ops[i])]
           G == CHOOSE g : Rec(g)
<1>1. LedgersOf(s, ops) = G
  BY DEF LedgersOf
<1> HIDE DEF n
<1>2. n \in Nat
  BY DEF n
<1>3. Rec(G)
  <2>1. PICK g : IsLoop(g, "ledgers", ops, n, s)
    BY <1>2, LoopExists
  <2>2. \A i, y : Round("ledgers", ops, i, y) = LedgerOp(y, ops[i])
    BY DEF Round
  <2>3. Rec(g)
    BY <2>1, <2>2 DEF IsLoop
  <2> HIDE DEF Rec
  <2> QED
    BY <2>3
<1> HIDE DEF G
<1>4. 0 \in 0..n /\ \A i \in 1..n : i \in 0..n /\ i # 0
  BY <1>2
<1>5. G[0] = s /\ \A i \in 1..n : G[i] = LedgerOp(G[i - 1], ops[i])
  BY <1>3, <1>4
<1> QED
  BY <1>1, <1>5 DEF n

\* A transition that panics has carried out the operations before the one that
\* did, at most half of that one, and none after it.
LEMMA PanicLeavesPrefix ==
  ASSUME LowIndices, NEW batch \in Seq(SignedOperation), NEW checks,
         NEW b, StateOK(b), ~b.panicked, NEW r, r = TransitionIn(b, batch, checks), r.panicked,
         NEW ops, ops = OpsOf(batch), NEW ledger, ledger = LedgersOf(LedgerOf(b), ops)
  PROVE  \E i \in DOMAIN ops : LedgerOf(r) \in Halfway(ledger[i - 1], ops[i])
<1> DEFINE steps == OpsIn(batch, checks)
           N == Len(ops)
<1>1. /\ N \in Nat /\ Len(steps) = N /\ DOMAIN ops = 1..N
      /\ \A i \in 1..N : /\ IsOp(steps[i])
                         /\ \/ steps[i] = ops[i]
                            \/ steps[i].type = "Overflow" /\ ops[i].type # "Mint"
  <2>1. steps = OpsIn(batch, checks)
    OBVIOUS
  <2> HIDE DEF steps
  <2> QED
    BY <2>1, OpsInFacts
<1>2. PICK g : /\ IsOpsRun(g, b, steps) /\ r = g[N] /\ \A i \in 0..N : StateOK(g[i])
  <2>1. steps = OpsIn(batch, checks)
    OBVIOUS
  <2> HIDE DEF steps, N
  <2>2. PICK g : /\ IsOpsRun(g, b, steps) /\ r = g[Len(steps)]
                 /\ \A i \in 0..Len(steps) : StateOK(g[i])
    BY <2>1, TransitionInRun
  <2> QED
    BY <1>1, <2>2
<1>3. g[0] = b /\ \A i \in 1..N : g[i] = OpOn(g[i - 1], steps[i])
  BY <1>1, <1>2 DEF IsOpsRun
<1>4. ledger[0] = LedgerOf(b) /\ \A i \in 1..N : ledger[i] = LedgerOp(ledger[i - 1], ops[i])
  BY <1>1, LedgersRun
<1> HIDE DEF steps, N
<1> DEFINE P == {i \in 0..N : g[i].panicked}
<1>5. PICK m \in P : \A i \in P : m <= i
  <2>1. N \in P /\ P \subseteq Nat
    BY <1>1, <1>2
  <2> HIDE DEF P
  <2> QED
    BY <2>1, LeastNatural
<1>6. m \in 1..N /\ g[m].panicked /\ \A i \in 0..(m - 1) : i \in 0..N /\ ~g[i].panicked
  BY <1>1, <1>3, <1>5
<1> HIDE DEF P
<1> DEFINE T == {i \in 0..(m - 1) : LedgerOf(g[i]) = ledger[i]}
<1>7. LedgerOf(g[m - 1]) = ledger[m - 1]
  <2>1. 0 \in T
    BY <1>1, <1>3, <1>4, <1>6
  <2>2. ASSUME NEW i \in 1..(m - 1), i - 1 \in T PROVE i \in T
    <3>1. i \in 1..N /\ i \in 0..(m - 1) /\ i - 1 \in 0..(m - 1) /\ i - 1 \in 0..N
      BY <1>1, <1>6
    <3>2. StateOK(g[i - 1]) /\ g[i] = OpOn(g[i - 1], steps[i]) /\ ~g[i].panicked
      BY <1>2, <1>3, <1>6, <3>1
    <3>3. steps[i] = ops[i] /\ IsOp(steps[i])
      BY <1>1, <3>1, <3>2, OverflowPanics
    <3>4. LedgerOf(g[i]) = LedgerOp(LedgerOf(g[i - 1]), ops[i])
      BY <3>2, <3>3, OpOnLedger
    <3> QED
      BY <1>4, <2>2, <3>1, <3>4
  <2>3. m - 1 \in Nat /\ m - 1 \in 0..(m - 1)
    BY <1>1, <1>6
  <2>4. \A i \in 0..(m - 1) : i \in T
    <3> HIDE DEF T
    <3> QED
      BY <2>1, <2>2, <2>3, CountUp, Zenon
  <2> QED
    BY <2>3, <2>4
<1> DEFINE D == {i \in 0..(N - m) : g[m + i] = g[m]}
<1>8. r = g[m]
  <2>1. 0 \in D
    BY <1>1, <1>6
  <2>2. ASSUME NEW i \in 1..(N - m), i - 1 \in D PROVE i \in D
    <3> DEFINE j == m + i
    <3>1. j \in 1..N /\ j - 1 = m + (i - 1) /\ j - 1 \in 0..N
      BY <1>1, <1>6
    <3>2. j = m + i /\ i \in 0..(N - m)
      BY <1>1, <1>6
    <3> HIDE DEF j
    <3>3. StateOK(g[j - 1]) /\ g[j] = OpOn(g[j - 1], steps[j]) /\ g[j - 1] = g[m]
      BY <1>2, <1>3, <2>2, <3>1
    <3>4. g[j] = g[m]
      BY <1>1, <1>6, <3>1, <3>3, OpOnOK
    <3> QED
      BY <3>2, <3>4
  <2>3. N - m \in Nat /\ N - m \in 0..(N - m) /\ m + (N - m) = N
    BY <1>1, <1>6
  <2>4. \A i \in 0..(N - m) : i \in D
    <3> HIDE DEF D
    <3> QED
      BY <2>1, <2>2, <2>3, CountUp, Zenon
  <2> QED
    BY <1>2, <2>3, <2>4
<1>9. LedgerOf(r) \in Halfway(ledger[m - 1], ops[m])
  <2>1. m - 1 \in 0..N /\ m - 1 \in 0..(m - 1)
    BY <1>1, <1>6
  <2>2. /\ StateOK(g[m - 1]) /\ ~g[m - 1].panicked
        /\ g[m] = OpOn(g[m - 1], steps[m]) /\ IsOp(steps[m])
    BY <1>1, <1>2, <1>3, <1>6, <2>1
  <2>3. CASE steps[m] = ops[m]
    BY <1>6, <1>7, <1>8, <2>2, <2>3, OpOnPanics
  <2>4. CASE steps[m].type = "Overflow" /\ ops[m].type # "Mint"
    BY <1>7, <1>8, <2>2, <2>4, OverflowPanics, HalfwayKeeps
  <2> QED
    BY <1>1, <1>6, <2>3, <2>4
<1> QED
  BY <1>1, <1>6, <1>9

-----------------------------------------------------------------------------
(* Loading a state file. *)

FileOK(f) ==
  /\ f = [key_values |-> f.key_values, tokens |-> f.tokens]
  /\ IsArray(f.key_values) /\ f.tokens \in Seq(TokenIds)
  /\ \A i \in TreeIndex :
       \/ f.key_values[i] = NoEntry
       \/ f.key_values[i] \in LeafEntry /\ TreeIndexFromKey(f.key_values[i].key) = i

LEMMA SetEachRun ==
  ASSUME NEW t, NEW entries, Len(entries) \in Nat
  PROVE  /\ SetEach(t, entries)[0] = t
         /\ \A i \in 1..Len(entries) :
              SetEach(t, entries)[i] = SetEntry(SetEach(t, entries)[i - 1], entries[i])
<1> DEFINE n == Len(entries)
           Rec(g) == g = [i \in 0..n |-> IF i = 0 THEN t ELSE SetEntry(g[i - 1], entries[i])]
           G == CHOOSE g : Rec(g)
<1>1. SetEach(t, entries) = G
  BY DEF SetEach
<1> HIDE DEF n
<1>0. n \in Nat
  BY DEF n
<1>2. Rec(G)
  <2>1. PICK g : IsLoop(g, "set", entries, n, t)
    BY <1>0, LoopExists
  <2>2. \A i, y : Round("set", entries, i, y) = SetEntry(y, entries[i])
    BY DEF Round
  <2>3. Rec(g)
    BY <2>1, <2>2 DEF IsLoop
  <2> HIDE DEF Rec
  <2> QED
    BY <2>3
<1> HIDE DEF G
<1>3. 0 \in 0..n /\ \A i \in 1..n : i \in 0..n /\ i # 0
  BY <1>0
<1>4. G[0] = t /\ \A i \in 1..n : G[i] = SetEntry(G[i - 1], entries[i])
  BY <1>2, <1>3
<1> QED
  BY <1>1, <1>4 DEF n

LEMMA EntryFields ==
  ASSUME NEW e \in LeafEntry
  PROVE  e # NoEntry /\ e.key \in Key /\ e.value \in U64 /\ e = [key |-> e.key, value |-> e.value]
<1>1. e.key \in Key /\ e.value \in U64 /\ e = [key |-> e.key, value |-> e.value]
  BY DEF LeafEntry
<1> QED
  BY <1>1, NewEntry

\* The tree that is rebuilt, entry by entry in index order.
LEMMA LoadedTree ==
  ASSUME LowIndices, NEW f, FileOK(f), NEW entries,
         NEW N, N = 2 * TREE_SIZE, Len(entries) = N,
         \A n \in 1..N : entries[n] = f.key_values[n - 1], NEW t, t = SetEach(EmptyTree, entries)[N]
  PROVE  TreeOK(t) /\ t.key_values = f.key_values
<1> DEFINE kv == f.key_values
           s == SetEach(EmptyTree, entries)
           P(n) == /\ TreeOK(s[n])
                   /\ \A i \in TreeIndex : s[n].key_values[i] = IF i < n THEN kv[i] ELSE NoEntry
           T == {n \in 0..N : P(n)}
<1>1. N \in Nat /\ TreeIndex = 0..(N - 1)
  BY OffsetFacts
<1>2. Len(entries) = N /\ \A n \in 1..N : entries[n] = kv[n - 1]
  OBVIOUS
<1>3. s[0] = EmptyTree /\ \A n \in 1..N : s[n] = SetEntry(s[n - 1], entries[n])
  <2>1. s = SetEach(EmptyTree, entries)
    OBVIOUS
  <2> HIDE DEF s
  <2> QED
    BY <1>1, <1>2, <2>1, SetEachRun
<1>4. t = s[N]
  OBVIOUS
<1>5. /\ IsArray(kv)
      /\ \A i \in TreeIndex :
           kv[i] = NoEntry \/ (kv[i] \in LeafEntry /\ TreeIndexFromKey(kv[i].key) = i)
  BY DEF FileOK
<1> HIDE DEF s, kv
<1>6. 0 \in T
  <2>1. TreeOK(EmptyTree) /\ \A i \in TreeIndex : EmptyTree.key_values[i] = NoEntry
    BY EmptyTreeOK
  <2>2. \A i \in TreeIndex : ~(i < 0)
    BY <1>1
  <2> QED
    BY <1>1, <1>3, <2>1, <2>2
<1>7. ASSUME NEW n \in 1..N, n - 1 \in T PROVE n \in T
  <2> DEFINE x == n - 1
             e == kv[x]
             q == s[n - 1]
             r == s[n]
  <2>1. x \in TreeIndex /\ n \in 0..N /\ x \in 0..N
    BY <1>1
  <2>2. \A i \in TreeIndex : (i < n <=> i < x \/ i = x) /\ ~(x < x)
    BY <1>1
  <2>3. /\ TreeOK(q)
        /\ \A i \in TreeIndex : q.key_values[i] = IF i < x THEN kv[i] ELSE NoEntry
    BY <1>7
  <2>4. r = SetEntry(q, e)
    BY <1>2, <1>3
  <2> HIDE DEF x, q, r
  <2>5. P(n)
    <3>1. CASE e = NoEntry
      <4>1. r = q
        BY <2>4, <3>1 DEF SetEntry
      <4>2. TreeOK(r) /\ \A i \in TreeIndex : r.key_values[i] = IF i < n THEN kv[i] ELSE NoEntry
        BY <2>2, <2>3, <3>1, <4>1
      <4> QED
        BY <4>2 DEF r
    <3>2. CASE e # NoEntry
      <4>1. e \in LeafEntry /\ TreeIndexFromKey(e.key) = x
        BY <1>5, <2>1, <3>2
      <4>2. q.key_values[x] = NoEntry
        BY <2>1, <2>2, <2>3
      <4> HIDE DEF e
      <4>3. /\ e.key \in Key /\ e.value \in U64 /\ e = [key |-> e.key, value |-> e.value]
        BY <4>1, EntryFields
      <4>4. ~Collides(q, e.key)
        BY <4>1, <4>2 DEF Collides
      <4>5. r = Set(q, e.key, e.value)
        BY <2>4, <3>2 DEF SetEntry
      <4>6. TreeShape(q) /\ Matches(q.hashes, q.key_values)
        BY <2>3 DEF TreeOK
      <4>7. /\ TreeShape(r) /\ Matches(r.hashes, r.key_values)
            /\ \A i \in TreeIndex : r.key_values[i] = IF i = x THEN [key |-> e.key, value |-> e.value]
                                                             ELSE q.key_values[i]
        BY <4>1, <4>3, <4>4, <4>5, <4>6, SetFacts
      <4>8. \A i \in TreeIndex : r.key_values[i] = IF i < n THEN kv[i] ELSE NoEntry
        BY <2>2, <2>3, <4>3, <4>7 DEF e
      <4> QED
        BY <4>7, <4>8 DEF r, TreeOK
    <3> QED
      BY <3>1, <3>2
  <2> QED
    BY <2>1, <2>5
<1>8. \A n \in 0..N : n \in T
  <2> HIDE DEF T
  <2> QED
    BY <1>1, <1>6, <1>7, CountUp, Zenon
<1>9. P(N)
  BY <1>1, <1>8
<1>10. \A i \in TreeIndex : i < N
  BY <1>1
<1>11. IsArray(t.key_values) /\ TreeOK(t) /\ \A i \in TreeIndex : t.key_values[i] = kv[i]
  BY <1>4, <1>9, <1>10 DEF TreeOK, TreeShape
<1> QED
  BY <1>5, <1>11 DEF IsArray, kv

LEMMA LoadFacts ==
  ASSUME LowIndices, NEW f, FileOK(f), NEW b, b = LoadFile(f)
  PROVE  /\ StateOK(b) /\ b.tree.key_values = f.key_values /\ b.tokens = f.tokens
         /\ b.initial = b.tree.hashes /\ b.entries = {}
         /\ IsArray(b.hashes)
         /\ \A i \in TreeIndex : b.hashes[i] = IF i = RootIndex THEN b.initial[i] ELSE EMPTY_HASH
<1> DEFINE entries == [n \in 1..(2 * TREE_SIZE) |-> f.key_values[n - 1]]
           t == SetEach(EmptyTree, entries)[2 * TREE_SIZE]
           s == NewState(t, f.tokens)
<1>1. b = RecordHashes(s, {RootIndex})
  BY DEF LoadFile
<1>2. TreeOK(t) /\ t.key_values = f.key_values
  <2> DEFINE N == 2 * TREE_SIZE
  <2>1. N \in Nat
    BY OffsetFacts
  <2>2. Len(entries) = N /\ \A n \in 1..N : entries[n] = f.key_values[n - 1]
    BY <2>1
  <2>3. N = 2 * TREE_SIZE /\ t = SetEach(EmptyTree, entries)[N]
    OBVIOUS
  <2> HIDE DEF N, entries, t
  <2> QED
    BY <2>2, <2>3, LoadedTree
<1> HIDE DEF t
<1>3. /\ IsRec(s) /\ s.tree = t /\ s.tokens = f.tokens /\ s.initial = t.hashes
      /\ s.hashes = EmptyTree.hashes /\ s.entries = {}
  BY DEF NewState, IsRec
<1>4. s.panicked \in BOOLEAN
  BY DEF NewState
<1> HIDE DEF s
<1>5. /\ IsRec(b) /\ b.tree = t /\ b.tokens = f.tokens /\ b.initial = t.hashes
      /\ b.entries = {} /\ IsArray(b.hashes)
      /\ \A i \in TreeIndex : b.hashes[i] = Recorded(s, {RootIndex}, i)
  BY <1>1, <1>3, RecordHashesFacts
<1>6. b.panicked = s.panicked
  BY <1>1, <1>3, RecordHashesFacts
<1>7. \A i \in TreeIndex : EmptyTree.hashes[i] = EMPTY_HASH
  BY EmptyTreeOK
<1>8. \A i \in TreeIndex : b.hashes[i] = IF i = RootIndex THEN t.hashes[i] ELSE EMPTY_HASH
  BY <1>3, <1>5, <1>7 DEF Recorded
<1>9. f.tokens \in Seq(TokenIds)
  BY DEF FileOK
<1>10. StateOK(b)
  BY <1>2, <1>4, <1>5, <1>6, <1>9 DEF StateOK, StateShape, TreeOK
<1> QED
  BY <1>2, <1>5, <1>8, <1>10

LEMMA LoadedNotPanicked ==
  ASSUME NEW f
  PROVE  ~LoadFile(f).panicked
<1> DEFINE entries == [n \in 1..(2 * TREE_SIZE) |-> f.key_values[n - 1]]
           t == SetEach(EmptyTree, entries)[2 * TREE_SIZE]
           s == NewState(t, f.tokens)
<1>1. LoadFile(f) = RecordHashes(s, {RootIndex})
  BY DEF LoadFile
<1> HIDE DEF t
<1>2. IsRec(s)
  BY DEF NewState, IsRec
<1>3. s.panicked = FALSE
  BY DEF NewState
<1> HIDE DEF s
<1>4. RecordHashes(s, {RootIndex}).panicked = s.panicked
  BY <1>2, RecordHashesFacts
<1> QED
  BY <1>1, <1>3, <1>4

-----------------------------------------------------------------------------
(* Roots. *)

LEMMA TokensHashFacts ==
  ASSUME NEW s, NEW t, TokensHash(s) = TokensHash(t)
  PROVE  s = t
<1> DEFINE x == [tokens |-> s]
           y == [tokens |-> t]
<1>1. x # EMPTY_HASH /\ y # EMPTY_HASH /\ x.tokens = s /\ y.tokens = t
  BY DEF EMPTY_HASH
<1>2. /\ TokensHash(s) = IF s = <<>> THEN EMPTY_HASH ELSE x
      /\ TokensHash(t) = IF t = <<>> THEN EMPTY_HASH ELSE y
  BY DEF TokensHash
<1> HIDE DEF x, y
<1> QED
  BY <1>1, <1>2

\* A tree only uses the slots of the leaves.
LEMMA LowEntries ==
  ASSUME LowIndices, NEW t, TreeShape(t), NEW i \in TreeIndex, t.key_values[i] # NoEntry
  PROVE  t.key_values[i] \in LeafEntry /\ i \in 0..(TREE_SIZE - 1)
<1>1. t.key_values[i] \in LeafEntry /\ TreeIndexFromKey(t.key_values[i].key) = i
  BY DEF TreeShape
<1>2. t.key_values[i].key \in Key
  BY <1>1, EntryFields
<1> QED
  BY <1>1, <1>2, KeyFacts

\* The root of a state commits to its entries and its tokens.
LEMMA RootCommits ==
  ASSUME LowIndices, NEW b, StateOK(b), NEW c, StateOK(c), RootOf(b) = RootOf(c)
  PROVE  b.tokens = c.tokens /\ b.tree.key_values = c.tree.key_values
<1> DEFINE H == b.tree.hashes
           K == c.tree.hashes
           kv == b.tree.key_values
           lv == c.tree.key_values
<1>1. /\ TreeShape(b.tree) /\ TreeShape(c.tree) /\ Matches(H, kv) /\ Matches(K, lv)
  BY DEF StateOK, StateShape
<1>2. HashPair(H[RootIndex], TokensHash(b.tokens)) = HashPair(K[RootIndex], TokensHash(c.tokens))
  BY DEF RootOf, StateRoot, Root
<1>3. H[RootIndex] = K[RootIndex] /\ TokensHash(b.tokens) = TokensHash(c.tokens)
  <2> DEFINE u == TokensHash(b.tokens)
             w == TokensHash(c.tokens)
  <2> HIDE DEF u, w, H, K
  <2> QED
    BY <1>2, HashPairFacts DEF u, w
<1>4. b.tokens = c.tokens
  BY <1>3, TokensHashFacts
<1>5. /\ IsArray(kv) /\ IsArray(lv)
      /\ \A i \in TreeIndex : kv[i] \in LeafEntry \cup {NoEntry} /\ lv[i] \in LeafEntry \cup {NoEntry}
  BY <1>1 DEF TreeShape
<1>6. /\ \A i \in TreeIndex : kv[i] # NoEntry => i \in 0..(TREE_SIZE - 1)
      /\ \A i \in TreeIndex : lv[i] # NoEntry => i \in 0..(TREE_SIZE - 1)
  BY <1>1, LowEntries
<1> HIDE DEF H, K, kv, lv
<1>7. \A i \in TreeIndex : kv[i] = lv[i]
  <2> TAKE i \in TreeIndex
  <2>1. CASE i \in 0..(TREE_SIZE - 1)
    <3>1. kv[i] \in LeafEntry \cup {NoEntry} /\ lv[i] \in LeafEntry \cup {NoEntry}
      BY <1>5
    <3> QED
      BY <1>1, <1>3, <2>1, <3>1, RootDetermines
  <2>2. CASE i \notin 0..(TREE_SIZE - 1)
    BY <1>6, <2>2
  <2> QED
    BY <2>1, <2>2
<1>8. kv = lv
  BY <1>5, <1>7 DEF IsArray
<1> QED
  BY <1>4, <1>8 DEF kv, lv

LEMMA SameEntries ==
  ASSUME NEW b, NEW c, b.tokens = c.tokens, b.tree.key_values = c.tree.key_values
  PROVE  LedgerOf(b) = LedgerOf(c) /\ (StateOK(b) /\ StateOK(c) => RootOf(b) = RootOf(c))
<1>1. \A k : Get(b.tree, k) = Get(c.tree, k)
  BY DEF Get, Stored
<1>2. LedgerOf(b) = LedgerOf(c)
  BY <1>1 DEF LedgerOf
<1>3. ASSUME StateOK(b), StateOK(c) PROVE RootOf(b) = RootOf(c)
  <2>1. Matches(b.tree.hashes, b.tree.key_values) /\ Matches(c.tree.hashes, c.tree.key_values)
    BY <1>3 DEF StateOK
  <2>2. b.tree.hashes[RootIndex] = c.tree.hashes[RootIndex]
    BY <2>1, EntriesDetermine
  <2> QED
    BY <2>2 DEF RootOf, StateRoot, Root
<1> QED
  BY <1>2, <1>3

LEMMA TransitionOK ==
  ASSUME LowIndices, NEW batch \in Seq(SignedOperation), NEW b, StateOK(b)
  PROVE  StateOK(TransitionOn(b, batch)) /\ TransitionOn(b, batch).initial = b.initial
<1> DEFINE ops == OpsOf(batch)
<1>1. PICK g : IsOpsRun(g, b, ops) /\ TransitionOn(b, batch) = g[Len(ops)]
  BY TransitionRun
<1>2. /\ Len(ops) \in Nat
      /\ \A i \in 0..Len(ops) : StateOK(g[i]) /\ g[i].initial = b.initial
  <2> HIDE DEF ops
  <2> QED
    BY <1>1, RunOK DEF ops
<1>3. Len(ops) \in 0..Len(ops)
  BY <1>2
<1> QED
  BY <1>1, <1>2, <1>3

\* Storing a state and loading it again gives its entries, its tokens and its
\* root.
LEMMA Reload ==
  ASSUME LowIndices, NEW b, StateOK(b), NEW f,
         f = [key_values |-> b.tree.key_values, tokens |-> b.tokens]
  PROVE  FileOK(f) /\ RootOf(LoadFile(f)) = RootOf(b)
<1>1. f.key_values = b.tree.key_values /\ f.tokens = b.tokens
      /\ f = [key_values |-> f.key_values, tokens |-> f.tokens]
  OBVIOUS
<1>2. TreeShape(b.tree) /\ b.tokens \in Seq(TokenIds)
  BY DEF StateOK, StateShape
<1>3. FileOK(f)
  BY <1>1, <1>2 DEF FileOK, TreeShape
<1>4. /\ StateOK(LoadFile(f)) /\ LoadFile(f).tree.key_values = f.key_values
      /\ LoadFile(f).tokens = f.tokens
  BY <1>3, LoadFacts
<1> QED
  BY <1>1, <1>3, <1>4, SameEntries

\* The state a builder starts with.
LEMMA GenesisFacts ==
  ASSUME LowIndices
  PROVE  FileOK(GenesisFile) /\ RootOf(LoadFile(GenesisFile)) = EMPTY_HASH
<1> DEFINE b == NewState(EmptyTree, <<>>)
<1>1. /\ IsRec(b) /\ b.tree = EmptyTree /\ b.tokens = <<>>
  BY DEF NewState, IsRec
<1>2. b.panicked \in BOOLEAN
  BY DEF NewState
<1>3. <<>> \in Seq(TokenIds)
  OBVIOUS
<1> HIDE DEF b
<1>4. StateOK(b)
  BY <1>1, <1>2, <1>3, EmptyTreeOK DEF StateOK, StateShape, TreeOK
<1>5. GenesisFile = [key_values |-> b.tree.key_values, tokens |-> b.tokens]
  BY <1>1 DEF GenesisFile
<1>6. RootOf(b) = EMPTY_HASH
  <2>1. TokensHash(b.tokens) = EMPTY_HASH /\ b.tree.hashes[RootIndex] = EMPTY_HASH
    BY <1>1, EmptyTreeOK DEF TokensHash
  <2>2. RootOf(b) = HashPair(EMPTY_HASH, EMPTY_HASH)
    BY <2>1 DEF RootOf, StateRoot, Root
  <2> QED
    BY <2>2, HashPairFacts
<1> QED
  BY <1>4, <1>5, <1>6, Reload

\* An empty batch does nothing.
LEMMA NothingToDo ==
  ASSUME NEW b
  PROVE  TransitionOn(b, <<>>) = b
<1> DEFINE batch == <<>>
           ops == OpsOf(batch)
           net == NetTransfers(StageAll(batch))
<1>1. batch \in Seq(SignedOperation) /\ Len(batch) = 0
  OBVIOUS
<1> HIDE DEF batch
<1>2. StageAll(batch) = NothingStaged /\ NothingStaged \in [StageKey -> I64]
  <2>1. PICK r \in [0..Len(batch) -> [StageKey -> I64]] :
          r[0] = NothingStaged /\ StageAll(batch) = r[Len(batch)]
    BY <1>1, StageAllRun
  <2>2. 0 \in 0..Len(batch)
    BY <1>1
  <2> QED
    BY <1>1, <2>1, <2>2
<1>3. Len(net) = 0
  <2>1. /\ Len(net) \in Nat
        /\ \A i \in 1..Len(net) : \E k \in StageKey : StageAll(batch)[k] # 0
    <3> DEFINE st == StageAll(batch)
    <3>1. st \in [StageKey -> I64] /\ net = NetTransfers(st)
      BY <1>2
    <3> HIDE DEF st, net
    <3>2. /\ Len(net) \in Nat
          /\ \A i \in 1..Len(net) : \E k \in StageKey : st[k] # 0
      BY <3>1, NetTransfersFacts
    <3> QED
      BY <3>2 DEF st
  <2>2. \A k \in StageKey : StageAll(batch)[k] = 0
    BY <1>2 DEF NothingStaged
  <2> QED
    BY <2>1, <2>2
<1>4. Len(ops) = 0
  <2>1. ops = OpsOf(batch) /\ net = NetTransfers(StageAll(batch))
    OBVIOUS
  <2> HIDE DEF ops, net
  <2>2. batch \in Seq(SignedOperation)
    BY <1>1
  <2>3. Len(ops) = Len(batch) + Len(net)
    BY <2>1, <2>2, OpsFacts
  <2> QED
    BY <1>1, <1>3, <2>3
<1>5. PICK g : IsOpsRun(g, b, ops) /\ TransitionOn(b, batch) = g[Len(ops)]
  BY <1>1, TransitionRun
<1>6. TransitionOn(b, batch) = b
  BY <1>4, <1>5 DEF IsOpsRun
<1> QED
  BY <1>6 DEF batch

\* Clearing the highest bit of the hash instead would give every key a leaf.
LEMMA ClearingTheTopBit ==
  ASSUME MaskBit = TREE_DEPTH
  PROVE  LowIndices
<1>1. Pow2[MaskBit] = TREE_SIZE /\ TREE_SIZE \in Nat \ {0} /\ TreeIndex = 0..(2 * TREE_SIZE - 1)
  BY OffsetFacts DEF TREE_SIZE
<1>2. ASSUME NEW k \in Key
      PROVE  TreeIndexFromKey(k) \in 0..(TREE_SIZE - 1)
  <2> DEFINE h == KeyHash[k]
             p == Pow2[MaskBit]
  <2>1. h \in 0..(2 * p - 1) /\ p \in Nat \ {0}
    BY <1>1, MerkleTreeAssumption
  <2>2. TreeIndexFromKey(k) = IF (h \div p) % 2 = 1 THEN h - p ELSE h
    BY DEF TreeIndexFromKey
  <2> HIDE DEF h, p
  <2>3. (h < p => h \div p = 0) /\ (h >= p => h \div p = 1)
    BY <2>1
  <2>4. TreeIndexFromKey(k) \in 0..(p - 1)
    BY <2>1, <2>2, <2>3
  <2> QED
    BY <1>1, <2>4 DEF p
<1> QED
  BY <1>2 DEF LowIndices

-----------------------------------------------------------------------------
(* Trees that agree beside some paths. *)

\* The hashes that a partial tree needs for the leaves of a set.
Known(R) == {RootIndex} \cup UNION {Siblings(x) : x \in R}

LEMMA KnownFacts ==
  ASSUME NEW R, R \subseteq 0..(TREE_SIZE - 1)
  PROVE  /\ RootIndex \in Known(R) /\ Known(R) \subseteq TreeIndex
         /\ \A x \in R : Siblings(x) \subseteq Known(R)
<1>1. ASSUME NEW x \in 0..(TREE_SIZE - 1)
      PROVE  Siblings(x) \subseteq TreeIndex
  <2>1. ASSUME NEW d \in 0..(TREE_DEPTH - 1)
        PROVE  Sibling(x, d) \in TreeIndex
    <3> DEFINE e == d + 1
    <3>1. e \in 1..TREE_DEPTH /\ e - 1 = d /\ 0 \in 0..TREE_DEPTH
      BY Depth
    <3> HIDE DEF e
    <3> QED
      BY <3>1, SiblingOffPath
  <2> QED
    BY <2>1 DEF Siblings
<1>2. RootIndex \in TreeIndex
  BY OffsetFacts
<1> QED
  BY <1>1, <1>2 DEF Known

\* An entry leaves no hash empty that was not.
LEMMA InsertNonempty ==
  ASSUME NEW H, IsArray(H), NEW ix \in 0..(TREE_SIZE - 1), NEW vh, vh # EMPTY_HASH,
         NEW n \in TreeIndex, H[n] # EMPTY_HASH
  PROVE  Insert(H, ix, vh)[n] # EMPTY_HASH
<1> DEFINE K == Insert(H, ix, vh)
           N == TREE_DEPTH
<1>1. /\ \E c : IsPath(c, H, ix, vh) /\ \A d \in 0..N : K[Slot(ix, d)] = c[d]
      /\ \A j \in TreeIndex : (\A d \in 0..N : j # Slot(ix, d)) => K[j] = H[j]
  BY InsertFacts
<1> HIDE DEF K
<1>2. PICK c : IsPath(c, H, ix, vh) /\ \A d \in 0..N : K[Slot(ix, d)] = c[d]
  BY <1>1
<1> DEFINE T == {d \in 0..N : c[d] # EMPTY_HASH}
<1>3. N \in Nat
  BY Depth
<1>4. 0 \in T
  BY <1>2, <1>3 DEF IsPath
<1>5. ASSUME NEW d \in 1..N, d - 1 \in T PROVE d \in T
  <2>1. c[d] = Up(ix, d, c[d - 1], H[Sibling(ix, d - 1)]) /\ d \in 0..N
    BY <1>2, <1>3 DEF IsPath
  <2>2. c[d - 1] # EMPTY_HASH
    BY <1>5
  <2> QED
    BY <2>1, <2>2, HashPairFacts DEF Up
<1>6. \A d \in 0..N : d \in T
  <2> HIDE DEF N, T
  <2> QED
    BY <1>3, <1>4, <1>5, CountUp, Zenon
<1>7. CASE \E d \in 0..N : n = Slot(ix, d)
  BY <1>2, <1>6, <1>7 DEF K
<1>8. CASE \A d \in 0..N : n # Slot(ix, d)
  BY <1>1, <1>8 DEF K
<1> QED
  BY <1>7, <1>8

\* Arrays that agree beside a path agree on it after both have inserted there.
LEMMA InsertAgree ==
  ASSUME NEW H, IsArray(H), NEW K, IsArray(K), NEW ix \in 0..(TREE_SIZE - 1), NEW vh,
         \A j \in Siblings(ix) : H[j] = K[j], NEW n \in TreeIndex, H[n] = K[n]
  PROVE  Insert(H, ix, vh)[n] = Insert(K, ix, vh)[n]
<1> DEFINE I == Insert(H, ix, vh)
           J == Insert(K, ix, vh)
           N == TREE_DEPTH
<1>1. /\ \E c : IsPath(c, H, ix, vh) /\ \A d \in 0..N : I[Slot(ix, d)] = c[d]
      /\ \A j \in TreeIndex : (\A d \in 0..N : j # Slot(ix, d)) => I[j] = H[j]
  BY InsertFacts
<1>2. /\ \E c : IsPath(c, K, ix, vh) /\ \A d \in 0..N : J[Slot(ix, d)] = c[d]
      /\ \A j \in TreeIndex : (\A d \in 0..N : j # Slot(ix, d)) => J[j] = K[j]
  BY InsertFacts
<1> HIDE DEF I, J
<1>3. PICK c : IsPath(c, H, ix, vh) /\ \A d \in 0..N : I[Slot(ix, d)] = c[d]
  BY <1>1
<1>4. PICK e : IsPath(e, K, ix, vh) /\ \A d \in 0..N : J[Slot(ix, d)] = e[d]
  BY <1>2
<1>5. \A d \in 0..N : c[d] = e[d]
  BY <1>3, <1>4, SamePath
<1>6. CASE \E d \in 0..N : n = Slot(ix, d)
  BY <1>3, <1>4, <1>5, <1>6 DEF I, J
<1>7. CASE \A d \in 0..N : n # Slot(ix, d)
  BY <1>1, <1>2, <1>7 DEF I, J
<1> QED
  BY <1>6, <1>7

\* Setting a leaf of a partial tree to the entry the whole tree has there brings
\* the two together.
LEMMA InsertOriginal ==
  ASSUME NEW H, NEW kv, Matches(H, kv), NEW K, IsArray(K), NEW ix \in 0..(TREE_SIZE - 1),
         \A j \in Siblings(ix) : H[j] = K[j], NEW n \in TreeIndex, H[n] = K[n]
  PROVE  Insert(K, ix, EntryHash(kv[ix]))[n] = H[n]
<1> DEFINE vh == EntryHash(kv[ix])
           J == Insert(K, ix, vh)
           N == TREE_DEPTH
           c == [d \in 0..N |-> H[Slot(ix, d)]]
<1>1. IsPath(c, H, ix, vh)
  BY MatchingPath
<1>2. \A d \in 0..N : c[d] = H[Slot(ix, d)]
  OBVIOUS
<1> HIDE DEF vh, c
<1>3. /\ \E e : IsPath(e, K, ix, vh) /\ \A d \in 0..N : J[Slot(ix, d)] = e[d]
      /\ \A j \in TreeIndex : (\A d \in 0..N : j # Slot(ix, d)) => J[j] = K[j]
  BY InsertFacts
<1> HIDE DEF J
<1>4. PICK e : IsPath(e, K, ix, vh) /\ \A d \in 0..N : J[Slot(ix, d)] = e[d]
  BY <1>3
<1>5. \A d \in 0..N : c[d] = e[d]
  BY <1>1, <1>4, SamePath
<1>6. CASE \E d \in 0..N : n = Slot(ix, d)
  BY <1>2, <1>4, <1>5, <1>6 DEF J, vh
<1>7. CASE \A d \in 0..N : n # Slot(ix, d)
  BY <1>3, <1>7 DEF J, vh
<1> QED
  BY <1>6, <1>7

-----------------------------------------------------------------------------
(* What the witness has recorded when the leaves R have been read since    *)
(* the tree o was loaded.                                                  *)

RecordedHashes(b, o, R) ==
  /\ IsArray(b.hashes) /\ b.initial = o.hashes
  /\ \A n \in TreeIndex : o.hashes[n] # EMPTY_HASH => b.tree.hashes[n] # EMPTY_HASH
  /\ \A n \in TreeIndex : b.hashes[n] = o.hashes[n] \/ b.hashes[n] = EMPTY_HASH
  /\ \A n \in Known(R) : b.hashes[n] = o.hashes[n]

\* Only what was read has been written, and no entry has changed its key.
OriginalEntries(b, o, R) ==
  \A x \in TreeIndex :
    /\ x \notin R => b.tree.key_values[x] = o.key_values[x]
    /\ o.key_values[x] # NoEntry => /\ b.tree.key_values[x] # NoEntry
                                    /\ b.tree.key_values[x].key = o.key_values[x].key

RecordedEntries(b, o, R) ==
  \A e : e \in b.entries <=> \E x \in R : o.key_values[x] # NoEntry /\ e = o.key_values[x]

Witnessed(b, o, R) ==
  /\ StateOK(b) /\ R \subseteq 0..(TREE_SIZE - 1)
  /\ RecordedHashes(b, o, R) /\ OriginalEntries(b, o, R) /\ RecordedEntries(b, o, R)

\* Recording the siblings of a leaf.
LEMMA RecordSiblings ==
  ASSUME NEW b, NEW o, NEW R, RecordedHashes(b, o, R), R \subseteq 0..(TREE_SIZE - 1),
         NEW ix \in 0..(TREE_SIZE - 1), NEW r, IsArray(r.hashes), r.initial = b.initial,
         r.tree = b.tree, \A i \in TreeIndex : r.hashes[i] = Recorded(b, Siblings(ix), i),
         NEW Q, Q = R \cup {ix}
  PROVE  RecordedHashes(r, o, Q)
<1>1. /\ Known(R) \subseteq TreeIndex /\ Known(Q) \subseteq TreeIndex
      /\ Known(Q) = Known(R) \cup Siblings(ix)
  <2>1. Q \subseteq 0..(TREE_SIZE - 1)
    OBVIOUS
  <2>2. Known(Q) = Known(R) \cup Siblings(ix)
    BY DEF Known
  <2> QED
    BY <2>1, <2>2, KnownFacts
<1>2. /\ b.initial = o.hashes
      /\ \A n \in TreeIndex : o.hashes[n] # EMPTY_HASH => b.tree.hashes[n] # EMPTY_HASH
      /\ \A n \in TreeIndex : b.hashes[n] = o.hashes[n] \/ b.hashes[n] = EMPTY_HASH
      /\ \A n \in Known(R) : b.hashes[n] = o.hashes[n]
  BY DEF RecordedHashes
<1>3. \A n \in TreeIndex :
        r.hashes[n] = IF n \in Siblings(ix) /\ b.tree.hashes[n] # EMPTY_HASH /\ o.hashes[n] # EMPTY_HASH
                      THEN o.hashes[n] ELSE b.hashes[n]
  BY <1>2 DEF Recorded
<1>4. \A n \in TreeIndex : r.hashes[n] = o.hashes[n] \/ r.hashes[n] = EMPTY_HASH
  BY <1>2, <1>3
<1>5. \A n \in Known(Q) : r.hashes[n] = o.hashes[n]
  BY <1>1, <1>2, <1>3
<1> QED
  BY <1>2, <1>4, <1>5 DEF RecordedHashes

\* get_value, unless the leaf has an entry that was not there at first.
LEMMA WitnessRead ==
  ASSUME LowIndices, NEW b, NEW o, TreeOK(o), NEW R, Witnessed(b, o, R), NEW k \in Key,
         NEW ix, ix = TreeIndexFromKey(k),
         o.key_values[ix] = NoEntry => b.tree.key_values[ix] = NoEntry,
         NEW r, r = RecordRead(b, k), NEW Q, Q = R \cup {ix}
  PROVE  Witnessed(r, o, Q)
<1> DEFINE e == b.tree.key_values[ix]
           f == o.key_values[ix]
<1>1. IsRec(b) /\ b.tokens \in Seq(TokenIds)
  BY DEF Witnessed, StateOK, StateShape
<1>2. ix \in 0..(TREE_SIZE - 1) /\ ix \in TreeIndex
  BY KeyFacts
<1>3. /\ IsRec(r) /\ r.tree = b.tree /\ r.tokens = b.tokens /\ r.initial = b.initial
      /\ r.panicked = b.panicked /\ IsArray(r.hashes)
      /\ \A i \in TreeIndex : r.hashes[i] = Recorded(b, Siblings(ix), i)
      /\ \/ /\ e # NoEntry
            /\ \A w \in b.entries : w.key # e.key
            /\ r.entries = b.entries \cup {e}
         \/ /\ e = NoEntry \/ \E w \in b.entries : w.key = e.key
            /\ r.entries = b.entries
  BY <1>1, RecordReadFacts
<1>4. StateOK(b) /\ R \subseteq 0..(TREE_SIZE - 1) /\ RecordedHashes(b, o, R)
  BY DEF Witnessed
<1>5. StateOK(r)
  BY <1>1, <1>3, <1>4, SameOK
<1>6. RecordedHashes(r, o, Q)
  BY <1>2, <1>3, <1>4, RecordSiblings
<1>7. OriginalEntries(r, o, Q)
  BY <1>3 DEF Witnessed, OriginalEntries
<1>8. /\ ix \notin R => e = f
      /\ f # NoEntry => e # NoEntry /\ e.key = f.key
      /\ f = NoEntry => e = NoEntry
  BY <1>2 DEF Witnessed, OriginalEntries
<1>9. \A w : w \in b.entries <=> \E x \in R : o.key_values[x] # NoEntry /\ w = o.key_values[x]
  BY DEF Witnessed, RecordedEntries
<1>10. \A w : (\E x \in Q : o.key_values[x] # NoEntry /\ w = o.key_values[x])
                <=> w \in b.entries \/ (f # NoEntry /\ w = f)
  BY <1>9
<1>11. ASSUME NEW x \in R, o.key_values[x] # NoEntry, f # NoEntry, o.key_values[x].key = f.key
       PROVE  x = ix
  <2>1. x \in TreeIndex
    BY <1>4, OffsetFacts
  <2>2. TreeIndexFromKey(o.key_values[x].key) = x /\ TreeIndexFromKey(f.key) = ix
    BY <1>2, <1>11, <2>1 DEF TreeOK, TreeShape
  <2> QED
    BY <1>11, <2>2
<1> HIDE DEF e, f
<1>12. \A w : w \in r.entries <=> w \in b.entries \/ (f # NoEntry /\ w = f)
  <2>1. CASE e # NoEntry /\ (\A w \in b.entries : w.key # e.key) /\ r.entries = b.entries \cup {e}
    <3>1. f # NoEntry /\ e.key = f.key
      BY <1>8, <2>1
    <3>2. ix \notin R
      BY <1>9, <2>1, <3>1 DEF f
    <3>3. e = f
      BY <1>8, <3>2
    <3> QED
      BY <2>1, <3>1, <3>3
  <2>2. CASE e = NoEntry /\ r.entries = b.entries
    BY <1>8, <2>2
  <2>3. CASE e # NoEntry /\ (\E w \in b.entries : w.key = e.key) /\ r.entries = b.entries
    <3>1. f # NoEntry /\ e.key = f.key
      BY <1>8, <2>3
    <3>2. PICK w \in b.entries : w.key = f.key
      BY <2>3, <3>1
    <3>3. PICK x \in R : o.key_values[x] # NoEntry /\ w = o.key_values[x]
      BY <1>9
    <3>4. x = ix
      BY <1>11, <3>1, <3>2, <3>3
    <3>5. f \in b.entries
      BY <3>3, <3>4 DEF f
    <3> QED
      BY <2>3, <3>1, <3>5
  <2> QED
    BY <1>3, <2>1, <2>2, <2>3 DEF e
<1>13. RecordedEntries(r, o, Q)
  BY <1>10, <1>12 DEF RecordedEntries
<1> QED
  BY <1>2, <1>4, <1>5, <1>6, <1>7, <1>13 DEF Witnessed

\* set_balance at a leaf that was read.
LEMMA WitnessSet ==
  ASSUME LowIndices, NEW b, NEW o, NEW R, Witnessed(b, o, R), NEW k \in Key, NEW v \in U64,
         TreeIndexFromKey(k) \in R, NEW r, r = SetBalance(b, k, v)
  PROVE  Witnessed(r, o, R)
<1> DEFINE ix == TreeIndexFromKey(k)
           e == [key |-> k, value |-> v]
<1>1. IsRec(b) /\ TreeShape(b.tree) /\ StateOK(b) /\ R \subseteq 0..(TREE_SIZE - 1)
  BY DEF Witnessed, StateOK, StateShape
<1>2. /\ r.initial = b.initial /\ r.entries = b.entries /\ IsArray(r.hashes)
      /\ \A i \in TreeIndex : r.hashes[i] = Recorded(b, Siblings(ix), i)
      /\ Collides(b.tree, k) => r.tree = b.tree
      /\ ~Collides(b.tree, k) => r.tree = Set(b.tree, k, v)
  BY <1>1, SetBalanceFacts
<1>3. StateOK(r)
  BY <1>1, SetBalanceOK
<1>4. RecordedEntries(r, o, R)
  BY <1>2 DEF Witnessed, RecordedEntries
<1>5. ix \in 0..(TREE_SIZE - 1) /\ ix \in TreeIndex /\ ix \in R /\ R = R \cup {ix}
  BY KeyFacts
<1>6. ~Collides(b.tree, k) =>
        b.tree.key_values[ix] = NoEntry \/ b.tree.key_values[ix].key = k
  BY DEF Collides
<1>7. ix = TreeIndexFromKey(k) /\ e.key = k /\ e # NoEntry /\ EntryHash(e) = LeafHash(k, v)
  BY NewEntry
<1>8. EntryHash(e) # EMPTY_HASH
  <2>1. e \in LeafEntry
    BY NewEntry
  <2> HIDE DEF e
  <2> QED
    BY <1>7, <2>1, EntryHashFacts
<1>9. ~Collides(b.tree, k) =>
        /\ \A i \in TreeIndex : r.tree.key_values[i] = IF i = ix THEN e ELSE b.tree.key_values[i]
        /\ r.tree.hashes = Insert(b.tree.hashes, ix, EntryHash(e))
  <2> SUFFICES ASSUME ~Collides(b.tree, k)
               PROVE  /\ \A i \in TreeIndex : r.tree.key_values[i] = IF i = ix THEN e ELSE b.tree.key_values[i]
                      /\ r.tree.hashes = Insert(b.tree.hashes, ix, EntryHash(e))
    OBVIOUS
  <2> DEFINE t == b.tree
             u == r.tree
  <2>1. u = Set(t, k, v) /\ TreeShape(t) /\ ~Collides(t, k)
    BY <1>1, <1>2
  <2> HIDE DEF ix, t, u
  <2>2. /\ \A i \in TreeIndex : u.key_values[i] = IF i = ix THEN [key |-> k, value |-> v]
                                                       ELSE t.key_values[i]
        /\ u.hashes = Insert(t.hashes, ix, EntryHash([key |-> k, value |-> v]))
    BY <1>7, <2>1, SetFacts
  <2> QED
    BY <2>2 DEF t, u
<1> HIDE DEF ix, e
<1>10. OriginalEntries(b, o, R)
  BY DEF Witnessed
<1>11. OriginalEntries(r, o, R)
  <2>1. CASE Collides(b.tree, k)
    BY <1>2, <1>10, <2>1 DEF OriginalEntries
  <2>2. CASE ~Collides(b.tree, k)
    <3>1. ASSUME NEW x \in TreeIndex
          PROVE  /\ x \notin R => r.tree.key_values[x] = o.key_values[x]
                 /\ o.key_values[x] # NoEntry => /\ r.tree.key_values[x] # NoEntry
                                                 /\ r.tree.key_values[x].key = o.key_values[x].key
      <4>1. CASE x = ix
        <5>1. r.tree.key_values[x] = e
          BY <1>5, <1>9, <2>2, <4>1
        <5>2. o.key_values[x] # NoEntry => /\ b.tree.key_values[x] # NoEntry
                                           /\ b.tree.key_values[x].key = o.key_values[x].key
          BY <1>10 DEF OriginalEntries
        <5> QED
          BY <1>5, <1>6, <1>7, <2>2, <4>1, <5>1, <5>2
      <4>2. CASE x # ix
        <5>1. r.tree.key_values[x] = b.tree.key_values[x]
          BY <1>9, <2>2, <4>2
        <5> QED
          BY <1>10, <5>1 DEF OriginalEntries
      <4> QED
        BY <4>1, <4>2
    <3> QED
      BY <3>1 DEF OriginalEntries
  <2> QED
    BY <2>1, <2>2
<1>12. RecordedHashes(r, o, R)
  <2>1. RecordedHashes(b, o, R) /\ IsArray(b.tree.hashes)
    BY <1>1 DEF Witnessed, TreeShape
  <2> DEFINE q == [tree |-> b.tree, initial |-> r.initial, hashes |-> r.hashes]
  <2>2. q.tree = b.tree /\ q.initial = b.initial /\ q.hashes = r.hashes
    BY <1>2
  <2> HIDE DEF q
  <2>3. RecordedHashes(q, o, R)
    <3> DEFINE Q == R \cup {ix}
    <3>1. Q = R /\ Q = R \cup {ix}
      BY <1>5
    <3>2. IsArray(q.hashes) /\ \A i \in TreeIndex : q.hashes[i] = Recorded(b, Siblings(ix), i)
      BY <1>2, <2>2
    <3> HIDE DEF Q
    <3>3. RecordedHashes(q, o, Q)
      BY <1>1, <1>5, <2>1, <2>2, <3>1, <3>2, RecordSiblings
    <3> QED
      BY <3>1, <3>3
  <2>4. \A n \in TreeIndex : b.tree.hashes[n] # EMPTY_HASH => r.tree.hashes[n] # EMPTY_HASH
    <3>1. CASE Collides(b.tree, k)
      BY <1>2, <3>1
    <3>2. CASE ~Collides(b.tree, k)
      <4>1. r.tree.hashes = Insert(b.tree.hashes, ix, EntryHash(e))
        BY <1>9, <3>2
      <4> QED
        BY <1>5, <1>8, <2>1, <4>1, InsertNonempty
    <3> QED
      BY <3>1, <3>2
  <2> QED
    BY <1>2, <2>1, <2>2, <2>3, <2>4 DEF RecordedHashes
<1> QED
  BY <1>1, <1>3, <1>4, <1>11, <1>12 DEF Witnessed

\* The leaves an operation reads.
ReadBy(b, op) ==
  LET from == <<op.token_id, op.from>>
      to == <<op.token_id, op.to>>
  IN  CASE op.type = "Mint" /\ ~b.panicked /\ ~Contains(b.tokens, op.token_id) ->
             {TreeIndexFromKey(to)}
        [] op.type = "Transfer" /\ ~b.panicked /\ Contains(b.tokens, op.token_id) ->
             {TreeIndexFromKey(from)} \cup
               (IF Get(b.tree, from) < op.amount THEN {} ELSE {TreeIndexFromKey(to)})
        [] OTHER -> {}

LEMMA ReadByLeaves ==
  ASSUME NEW b, NEW op
  PROVE  ReadBy(b, op) \subseteq Leaves(op)
<1> DEFINE from == <<op.token_id, op.from>>
           to == <<op.token_id, op.to>>
<1>1. CASE op.type = "Mint"
  <2>1. Touched(op) = {to}
    BY <1>1 DEF Touched
  <2>2. ReadBy(b, op) \subseteq {TreeIndexFromKey(to)}
    <3> HIDE DEF from, to
    <3> QED
      BY <1>1 DEF ReadBy, from, to
  <2> QED
    BY <2>1, <2>2 DEF Leaves
<1>2. CASE op.type = "Transfer"
  <2>1. Touched(op) = {from, to}
    BY <1>2 DEF Touched
  <2>2. ReadBy(b, op) \subseteq {TreeIndexFromKey(from), TreeIndexFromKey(to)}
    BY <1>2 DEF ReadBy
  <2> QED
    BY <2>1, <2>2 DEF Leaves
<1>3. CASE op.type # "Mint" /\ op.type # "Transfer"
  BY <1>3 DEF ReadBy
<1> QED
  BY <1>1, <1>2, <1>3

LEMMA WitnessMint ==
  ASSUME LowIndices, NEW b, NEW o, TreeOK(o), NEW R, Witnessed(b, o, R),
         NEW op, IsOp(op), op.type = "Mint",
         \A x \in ReadBy(b, op) : o.key_values[x] = NoEntry => b.tree.key_values[x] = NoEntry,
         NEW Q, Q = R \cup ReadBy(b, op), NEW r, r = MintOn(b, op)
  PROVE  Witnessed(r, o, Q)
<1>1. CASE b.panicked \/ Contains(b.tokens, op.token_id)
  <2>1. r = b
    BY <1>1 DEF MintOn
  <2>2. ReadBy(b, op) = {}
    BY <1>1 DEF ReadBy
  <2> QED
    BY <2>1, <2>2
<1>2. CASE ~b.panicked /\ ~Contains(b.tokens, op.token_id)
  <2> DEFINE k == <<op.token_id, op.to>>
             ix == TreeIndexFromKey(k)
             q == RecordRead(b, k)
             v == SaturatingAdd(Get(b.tree, k), op.amount)
  <2>1. op.to \in Account /\ op.token_id \in TokenIds /\ op.amount \in U64
    BY DEF IsOp
  <2>2. k \in Key
    BY <2>1 DEF Key
  <2>3. IsRec(b) /\ TreeShape(b.tree) /\ b.tokens \in Seq(TokenIds)
    BY DEF Witnessed, StateOK, StateShape
  <2>4. PICK p :
        /\ IsRec(p) /\ p.tree = b.tree /\ p.tokens = Append(b.tokens, op.token_id)
        /\ p.initial = b.initial /\ p.hashes = q.hashes /\ p.entries = q.entries
        /\ p.panicked = b.panicked
        /\ r = SetBalance(p, k, v)
    BY <1>2, <2>3, MintOnSteps
  <2>5. q.tree = b.tree /\ q.initial = b.initial /\ q.panicked = b.panicked
    BY <1>2, <2>3, MintOnSteps
  <2>6. v \in U64
    BY <2>1, <2>2, <2>3, GetFacts, SaturatingType
  <2>7. ReadBy(b, op) = {ix}
    BY <1>2 DEF ReadBy
  <2>8. ix = TreeIndexFromKey(k) /\ q = RecordRead(b, k)
    OBVIOUS
  <2> HIDE DEF k, ix, q, v
  <2>9. Q = R \cup {ix} /\ (o.key_values[ix] = NoEntry => b.tree.key_values[ix] = NoEntry)
    BY <2>7
  <2>10. Witnessed(q, o, Q)
    BY <2>2, <2>8, <2>9, WitnessRead
  <2>11. Witnessed(p, o, Q)
    <3>1. Append(b.tokens, op.token_id) \in Seq(TokenIds)
      BY <2>1, <2>3
    <3>2. StateOK(q)
      BY <2>10 DEF Witnessed
    <3>3. p.tree = q.tree /\ p.panicked = q.panicked /\ p.tokens \in Seq(TokenIds) /\ p.initial = q.initial
      BY <2>4, <2>5, <3>1
    <3>4. StateOK(p)
      BY <2>4, <3>2, <3>3, SameOK
    <3>5. RecordedHashes(p, o, Q)
      <4>1. RecordedHashes(q, o, Q)
        BY <2>10 DEF Witnessed
      <4>2. p.hashes = q.hashes
        BY <2>4
      <4> QED
        BY <3>3, <4>1, <4>2 DEF RecordedHashes
    <3>6. OriginalEntries(p, o, Q)
      BY <2>10, <3>3 DEF Witnessed, OriginalEntries
    <3>7. RecordedEntries(p, o, Q)
      BY <2>4, <2>10 DEF Witnessed, RecordedEntries
    <3> QED
      BY <2>10, <3>4, <3>5, <3>6, <3>7 DEF Witnessed
  <2>12. TreeIndexFromKey(k) \in Q
    BY <2>8, <2>9
  <2> QED
    BY <2>2, <2>4, <2>6, <2>11, <2>12, WitnessSet
<1> QED
  BY <1>1, <1>2

LEMMA WitnessTransfer ==
  ASSUME LowIndices, NEW b, NEW o, TreeOK(o), NEW R, Witnessed(b, o, R),
         NEW op, IsOp(op), op.type = "Transfer",
         \A x \in ReadBy(b, op) : o.key_values[x] = NoEntry => b.tree.key_values[x] = NoEntry,
         NEW Q, Q = R \cup ReadBy(b, op), NEW r, r = TransferOn(b, op)
  PROVE  Witnessed(r, o, Q)
<1> DEFINE from == <<op.token_id, op.from>>
           to == <<op.token_id, op.to>>
           ix == TreeIndexFromKey(from)
           iy == TreeIndexFromKey(to)
           sender == RecordRead(b, from)
           both == RecordRead(sender, to)
           v == Get(b.tree, from) - op.amount
           debited == SetBalance(both, from, v)
           w == SaturatingAdd(Get(b.tree, to), op.amount)
           P == R \cup {ix}
<1>1. /\ op.from \in Account /\ op.to \in Account
      /\ op.token_id \in TokenIds /\ op.amount \in U64
  BY DEF IsOp
<1>2. from \in Key /\ to \in Key
  BY <1>1 DEF Key
<1>3. IsRec(b) /\ TreeShape(b.tree) /\ b.tokens \in Seq(TokenIds)
  BY DEF Witnessed, StateOK, StateShape
<1>4. CASE b.panicked \/ ~Contains(b.tokens, op.token_id)
  <2>1. r = b
    BY <1>4 DEF TransferOn
  <2>2. ReadBy(b, op) = {}
    BY <1>4 DEF ReadBy
  <2> QED
    BY <2>1, <2>2
<1>5. CASE ~b.panicked /\ Contains(b.tokens, op.token_id)
  <2>1. ReadBy(b, op) = {ix} \cup (IF Get(b.tree, from) < op.amount THEN {} ELSE {iy})
    BY <1>5 DEF ReadBy
  <2>2. /\ ix = TreeIndexFromKey(from) /\ iy = TreeIndexFromKey(to) /\ P = R \cup {ix}
        /\ sender = RecordRead(b, from) /\ both = RecordRead(sender, to)
    OBVIOUS
  <2>3. o.key_values[ix] = NoEntry => b.tree.key_values[ix] = NoEntry
    BY <2>1
  <2>4. Witnessed(sender, o, P)
    <3> HIDE DEF from, ix, sender, P
    <3> QED
      BY <1>2, <2>2, <2>3, WitnessRead
  <2>5. CASE Get(b.tree, from) < op.amount
    <3>1. r = sender
      BY <1>5, <2>5 DEF TransferOn
    <3>2. Q = P
      BY <2>1, <2>5
    <3> QED
      BY <2>4, <3>1, <3>2
  <2>6. CASE ~(Get(b.tree, from) < op.amount)
    <3>1. /\ IsRec(both) /\ both.tree = b.tree /\ sender.tree = b.tree
          /\ r = IF debited.panicked THEN debited ELSE SetBalance(debited, to, w)
      BY <1>3, <1>5, <2>6, TransferOnSteps
    <3>2. Get(b.tree, from) \in U64 /\ Get(b.tree, to) \in U64
      BY <1>2, <1>3, GetFacts
    <3>3. v \in U64 /\ w \in U64
      <4> DEFINE x == Get(b.tree, from)
      <4> HIDE DEF x
      <4>1. op.amount <= x
        BY <1>1, <2>6, <3>2, Ranges DEF x
      <4> QED
        BY <1>1, <3>2, <4>1, SaturatingType DEF x
    <3>4. debited = SetBalance(both, from, v)
      OBVIOUS
    <3>5. Q = P \cup {iy}
      BY <2>1, <2>6
    <3>6. o.key_values[iy] = NoEntry => b.tree.key_values[iy] = NoEntry
      BY <2>1, <2>6
    <3> HIDE DEF from, to, ix, iy, sender, both, v, debited, w, P
    <3>7. Witnessed(both, o, Q)
      <4>1. o.key_values[iy] = NoEntry => sender.tree.key_values[iy] = NoEntry
        BY <3>1, <3>6
      <4> QED
        BY <1>2, <2>2, <2>4, <3>5, <4>1, WitnessRead
    <3>8. TreeIndexFromKey(from) \in Q /\ TreeIndexFromKey(to) \in Q
      BY <2>2, <3>5
    <3>9. Witnessed(debited, o, Q)
      BY <1>2, <3>3, <3>4, <3>7, <3>8, WitnessSet
    <3>10. CASE debited.panicked
      BY <3>1, <3>9, <3>10
    <3>11. CASE ~debited.panicked
      <4>1. r = SetBalance(debited, to, w)
        BY <3>1, <3>11
      <4> QED
        BY <1>2, <3>3, <3>8, <3>9, <4>1, WitnessSet
    <3> QED
      BY <3>10, <3>11
  <2> QED
    BY <2>5, <2>6
<1> QED
  BY <1>4, <1>5

LEMMA WitnessOp ==
  ASSUME LowIndices, NEW b, NEW o, TreeOK(o), NEW R, Witnessed(b, o, R), NEW op, IsOp(op),
         \A x \in ReadBy(b, op) : o.key_values[x] = NoEntry => b.tree.key_values[x] = NoEntry,
         NEW Q, Q = R \cup ReadBy(b, op), NEW r, r = OpOn(b, op)
  PROVE  Witnessed(r, o, Q)
<1>1. CASE op.type = "Mint"
  BY <1>1, WitnessMint DEF OpOn
<1>2. CASE op.type = "Transfer"
  BY <1>2, WitnessTransfer DEF OpOn
<1>3. CASE op.type = "Overflow"
  <2>1. ReadBy(b, op) = {} /\ r = [b EXCEPT !.panicked = TRUE] /\ IsRec(b)
    BY <1>3 DEF OpOn, ReadBy, Witnessed, StateOK, StateShape
  <2>2. r = [tree |-> b.tree, tokens |-> b.tokens, initial |-> b.initial,
             hashes |-> b.hashes, entries |-> b.entries, panicked |-> TRUE]
    BY <2>1 DEF IsRec
  <2>3. /\ IsRec(r) /\ r.tree = b.tree /\ r.tokens = b.tokens /\ r.initial = b.initial
        /\ r.hashes = b.hashes /\ r.entries = b.entries /\ r.panicked = TRUE
    BY <2>2 DEF IsRec
  <2> QED
    BY <2>1, <2>3 DEF Witnessed, StateOK, StateShape, RecordedHashes, OriginalEntries, RecordedEntries
<1>4. CASE op.type \notin {"Mint", "Transfer", "Overflow"}
  <2>1. ReadBy(b, op) = {} /\ r = b
    BY <1>4 DEF OpOn, ReadBy
  <2> QED
    BY <2>1
<1> QED
  BY <1>1, <1>2, <1>3, <1>4

\* The leaves read by the first operations of a run.
ReadUpTo(g, ops, i) == UNION {ReadBy(g[j - 1], ops[j]) : j \in 1..i}

\* What the witness has at every point of a run that does not come back to an
\* entry it created.
LEMMA WitnessRun ==
  ASSUME LowIndices, NEW batch \in Seq(SignedOperation), NEW ops, ops = OpsOf(batch),
         NEW f, FileOK(f), NEW b, b = LoadFile(f), NEW g, IsOpsRun(g, b, ops),
         ~RereadsFreshEntry(batch, b.tree), NEW i \in 0..Len(ops)
  PROVE  Witnessed(g[i], b.tree, ReadUpTo(g, ops, i))
<1> DEFINE N == Len(ops)
           o == b.tree
           R(n) == ReadUpTo(g, ops, n)
           T == {n \in 0..N : Witnessed(g[n], o, R(n))}
<1>1. N \in Nat /\ DOMAIN ops = 1..N /\ \A n \in 1..N : IsOp(ops[n])
  BY OpsFacts
<1>2. g[0] = b /\ \A n \in 1..N : g[n] = OpOn(g[n - 1], ops[n])
  BY DEF IsOpsRun
<1>3. /\ StateOK(b) /\ b.initial = b.tree.hashes /\ b.entries = {} /\ IsArray(b.hashes)
      /\ \A n \in TreeIndex : b.hashes[n] = IF n = RootIndex THEN b.initial[n] ELSE EMPTY_HASH
  BY LoadFacts
<1>4. TreeOK(o)
  BY <1>3 DEF StateOK, StateShape, TreeOK
<1>5. ASSUME NEW m \in DOMAIN ops, NEW n \in DOMAIN ops, m < n,
             NEW x \in Leaves(ops[m]) \cap Leaves(ops[n])
      PROVE  o.key_values[x] # NoEntry
  BY <1>5 DEF RereadsFreshEntry
<1> HIDE DEF N, o
<1>6. 0 \in T
  <2>1. R(0) = {}
    BY DEF ReadUpTo
  <2>2. Known({}) = {RootIndex} /\ RootIndex \in TreeIndex
    BY OffsetFacts DEF Known
  <2>3. RecordedHashes(b, o, {})
    BY <1>3, <2>2 DEF RecordedHashes, o
  <2>4. OriginalEntries(b, o, {})
    BY DEF OriginalEntries, o
  <2>5. RecordedEntries(b, o, {})
    BY <1>3 DEF RecordedEntries
  <2>6. Witnessed(b, o, {})
    BY <1>3, <2>3, <2>4, <2>5 DEF Witnessed
  <2>7. Witnessed(g[0], o, R(0))
    <3> DEFINE Q == R(0)
    <3>1. Q = {}
      BY <2>1
    <3> HIDE DEF Q
    <3>2. Witnessed(g[0], o, Q)
      BY <1>2, <2>6, <3>1
    <3> QED
      BY <3>2 DEF Q
  <2>8. 0 \in 0..N
    BY <1>1
  <2> HIDE DEF R
  <2> QED
    BY <2>7, <2>8
<1>7. ASSUME NEW n \in 1..N, n - 1 \in T PROVE n \in T
  <2> DEFINE c == g[n - 1]
             P == R(n - 1)
             Q == R(n)
  <2>1. Witnessed(c, o, P) /\ g[n] = OpOn(c, ops[n]) /\ IsOp(ops[n]) /\ n \in 0..N
    BY <1>1, <1>2, <1>7
  <2>2. Q = P \cup ReadBy(c, ops[n])
    <3>1. \A j : j \in 1..n <=> j \in 1..(n - 1) \/ j = n
      BY <1>1
    <3> QED
      BY <3>1 DEF ReadUpTo
  <2>3. ASSUME NEW x \in ReadBy(c, ops[n]), o.key_values[x] = NoEntry
        PROVE  c.tree.key_values[x] = NoEntry
    <3>1. x \notin P
      <4> SUFFICES ASSUME x \in P PROVE FALSE
        OBVIOUS
      <4>1. PICK m \in 1..(n - 1) : x \in ReadBy(g[m - 1], ops[m])
        BY DEF ReadUpTo
      <4>2. m \in DOMAIN ops /\ n \in DOMAIN ops /\ m < n
        BY <1>1
      <4>3. x \in Leaves(ops[m]) \cap Leaves(ops[n])
        BY <4>1, ReadByLeaves
      <4> QED
        BY <1>5, <2>3, <4>2, <4>3
    <3>2. x \in TreeIndex
      <4>1. x \in Leaves(ops[n])
        BY ReadByLeaves
      <4>2. PICK k \in Touched(ops[n]) : x = TreeIndexFromKey(k)
        BY <4>1 DEF Leaves
      <4>3. k \in Key
        BY <2>1, <4>2 DEF Touched, IsOp, Key
      <4> QED
        BY <4>2, <4>3, KeyFacts
    <3>3. c.tree.key_values[x] = o.key_values[x]
      BY <2>1, <3>1, <3>2 DEF Witnessed, OriginalEntries
    <3> QED
      BY <2>3, <3>3
  <2> HIDE DEF c, P, Q
  <2>4. Witnessed(g[n], o, Q)
    BY <1>4, <2>1, <2>2, <2>3, WitnessOp
  <2> QED
    BY <2>1, <2>4 DEF Q
<1>8. \A n \in 0..N : n \in T
  <2> HIDE DEF T
  <2> QED
    BY <1>1, <1>6, <1>7, CountUp, Zenon
<1> QED
  BY <1>8 DEF N, o

-----------------------------------------------------------------------------
(* The entries of a witness, in the order of their keys. *)

\* An entry's key, as a key of staged_transfers.
PairKey(e) == <<e.key[1], e.key[2], e.key[2]>>

LEMMA PairKeyFacts ==
  ASSUME NEW e \in LeafEntry
  PROVE  /\ PairKey(e) \in StageKey /\ e.key[1] \in Nat /\ e.key[2] \in Nat
         /\ \A f \in LeafEntry : /\ PairKey(e) = PairKey(f) => e.key = f.key
                                 /\ KeyBefore(PairKey(e), PairKey(f)) <=> KeyLess(e, f)
<1>1. \A x \in LeafEntry : x.key \in Key
  BY EntryFields
<1>2. \A k \in Key : k = <<k[1], k[2]>> /\ k[1] \in TokenIds /\ k[2] \in Account
  BY DEF Key
<1>3. /\ PairKey(e)[1] = e.key[1] /\ PairKey(e)[2] = e.key[2] /\ PairKey(e)[3] = e.key[2]
      /\ \A f : /\ PairKey(f)[1] = f.key[1] /\ PairKey(f)[2] = f.key[2]
                /\ PairKey(f)[3] = f.key[2]
  BY DEF PairKey
<1>4. e.key[1] \in TokenIds /\ e.key[2] \in Account /\ e.key[1] \in Nat /\ e.key[2] \in Nat
  BY <1>1, <1>2, Ranges
<1>5. PairKey(e) \in StageKey
  <2>1. PairKey(e) \in TokenIds \X Account \X Account
    BY <1>4 DEF PairKey
  <2>2. PairKey(e)[2] <= PairKey(e)[3]
    BY <1>3, <1>4
  <2> QED
    BY <2>1, <2>2 DEF StageKey
<1>6. ASSUME NEW f \in LeafEntry
      PROVE  /\ PairKey(e) = PairKey(f) => e.key = f.key
             /\ KeyBefore(PairKey(e), PairKey(f)) <=> KeyLess(e, f)
  <2>1. f.key[1] \in Nat /\ f.key[2] \in Nat
    BY <1>1, <1>2, Ranges
  <2>2. PairKey(e) = PairKey(f) => e.key[1] = f.key[1] /\ e.key[2] = f.key[2]
    BY <1>3
  <2>3. PairKey(e) = PairKey(f) => e.key = f.key
    BY <1>1, <1>2, <2>2
  <2>4. KeyBefore(PairKey(e), PairKey(f)) <=>
          \/ e.key[1] < f.key[1]
          \/ e.key[1] = f.key[1] /\ e.key[2] < f.key[2]
          \/ e.key[1] = f.key[1] /\ e.key[2] = f.key[2] /\ e.key[2] < f.key[2]
    BY <1>3 DEF KeyBefore
  <2> QED
    BY <1>4, <2>1, <2>3, <2>4 DEF KeyLess
<1> QED
  BY <1>4, <1>5, <1>6

LEMMA PairKeyType == \A e \in LeafEntry : PairKey(e) \in StageKey
BY PairKeyFacts

LEMMA PairKeyOrder ==
  ASSUME NEW e \in LeafEntry, NEW f \in LeafEntry, KeyBefore(PairKey(e), PairKey(f))
  PROVE  KeyLess(e, f)
BY PairKeyFacts

LEMMA InKeyOrderFacts ==
  ASSUME NEW S \in SUBSET LeafEntry, IsFiniteSet(S), \A e, f \in S : e.key = f.key => e = f,
         NEW list, list = InKeyOrder(S)
  PROVE  /\ Len(list) \in Nat /\ list \in [1..Len(list) -> S]
         /\ \A e \in S : \E i \in 1..Len(list) : list[i] = e
<1> DEFINE n == Cardinality(S)
           A == {PairKey(e) : e \in S}
           p == [e \in S |-> PairKey(e)]
           q == KeysInOrder(A)
           P(l) == \A i, j \in DOMAIN l : i < j => KeyLess(l[i], l[j])
<1>1. n \in Nat
  BY FS_CardinalityType
<1>2. \A e, f \in S : PairKey(e) = PairKey(f) => e = f
  BY PairKeyFacts
<1>3. A \in SUBSET StageKey
  BY PairKeyType
<1>4. p \in Bijection(S, A)
  <2>1. p \in [S -> A]
    OBVIOUS
  <2>2. p \in Injection(S, A)
    BY <1>2, <2>1 DEF Injection, IsInjective
  <2>3. p \in Surjection(S, A)
    BY <2>1 DEF Surjection
  <2> QED
    BY <2>2, <2>3 DEF Bijection
<1>5. IsFiniteSet(A) /\ Cardinality(A) = n
  <2> HIDE DEF A, p
  <2> QED
    BY <1>4, FS_Bijection DEF ExistsBijection
<1>6. /\ q \in [1..n -> A]
      /\ \A i, j \in 1..n : i < j => KeyBefore(q[i], q[j])
  <2>1. /\ q \in [1..Cardinality(A) -> A]
        /\ \A i, j \in DOMAIN q : i < j => KeyBefore(q[i], q[j])
    <3> HIDE DEF A
    <3> QED
      BY <1>3, <1>5, KeysInOrderFacts
  <2> QED
    BY <1>5, <2>1
<1> HIDE DEF q
<1>7. \E l \in [1..n -> S] : P(l)
  <2> DEFINE l == [i \in 1..n |-> CHOOSE e \in S : PairKey(e) = q[i]]
  <2>1. ASSUME NEW i \in 1..n
        PROVE  l[i] \in S /\ PairKey(l[i]) = q[i]
    <3>1. \E e \in S : PairKey(e) = q[i]
      BY <1>6
    <3> QED
      BY <3>1
  <2>2. l \in [1..n -> S]
    BY <2>1
  <2> HIDE DEF l
  <2>3. ASSUME NEW i \in 1..n, NEW j \in 1..n, i < j
        PROVE  KeyLess(l[i], l[j])
    <3>1. KeyBefore(PairKey(l[i]), PairKey(l[j]))
      BY <1>6, <2>1, <2>3
    <3>2. l[i] \in LeafEntry /\ l[j] \in LeafEntry
      BY <2>1
    <3> QED
      BY <3>1, <3>2, PairKeyOrder
  <2> QED
    BY <2>2, <2>3
<1>8. list \in [1..n -> S] /\ P(list)
  BY <1>7 DEF InKeyOrder
<1>9. \A i, j \in 1..n : list[i] = list[j] => i = j
  <2> TAKE i, j \in 1..n
  <2>1. i < j \/ j < i \/ i = j
    BY <1>1
  <2>2. \A e \in LeafEntry : ~KeyLess(e, e)
    BY PairKeyFacts DEF KeyLess
  <2>3. list[i] \in LeafEntry /\ list[j] \in LeafEntry
    BY <1>8
  <2> QED
    BY <1>8, <2>1, <2>2, <2>3
<1>10. list \in Injection(1..n, S)
  BY <1>8, <1>9 DEF Injection, IsInjective
<1>11. Cardinality(1..n) = n /\ IsFiniteSet(1..n)
  <2>1. IsFiniteSet(1..n) /\ Cardinality(1..n) = IF 1 > n THEN 0 ELSE n - 1 + 1
    BY <1>1, FS_Interval
  <2> QED
    BY <1>1, <2>1
<1>12. list \in Surjection(1..n, S)
  <2>1. Cardinality(1..n) = Cardinality(S)
    BY <1>11
  <2> QED
    BY <1>10, <1>11, <2>1, FS_Injection
<1>13. Len(list) = n
  <2> HIDE DEF n
  <2> QED
    BY <1>1, <1>8
<1> QED
  BY <1>1, <1>8, <1>12, <1>13 DEF Surjection

-----------------------------------------------------------------------------
(* The partial state refinement builds. *)

\* list has the entries o has at the leaves R.
ListsEntries(list, o, R) ==
  /\ Len(list) \in Nat
  /\ \A i \in 1..Len(list) : \E x \in R : o.key_values[x] # NoEntry /\ list[i] = o.key_values[x]
  /\ \A x \in R : o.key_values[x] # NoEntry => \E i \in 1..Len(list) : list[i] = o.key_values[x]

\* t is all of o that the leaves R need.
Covers(t, o, R) ==
  /\ TreeShape(t)
  /\ \A n \in Known(R) : t.hashes[n] = o.hashes[n]
  /\ \A x \in R : t.key_values[x] = o.key_values[x]

\* t is on the way there: it has the hashes, and no entry that o has not.
Partial(t, o, R) ==
  /\ TreeShape(t)
  /\ \A n \in Known(R) : t.hashes[n] = o.hashes[n]
  /\ \A x \in TreeIndex : t.key_values[x] = NoEntry \/ t.key_values[x] = o.key_values[x]

\* r is t with the entry o has at y.
Gains(r, t, o, y) ==
  \A x \in TreeIndex : r.key_values[x] = IF x = y THEN o.key_values[y] ELSE t.key_values[x]

\* Setting an entry of o in a partial tree.
LEMMA SetOriginal ==
  ASSUME LowIndices, NEW o, TreeOK(o), NEW R, R \subseteq 0..(TREE_SIZE - 1),
         NEW t, Partial(t, o, R), NEW y, y \in R, NEW e, e # NoEntry, e = o.key_values[y],
         NEW r, r = SetEntry(t, e)
  PROVE  Partial(r, o, R) /\ Gains(r, t, o, y)
<1> USE DEF Partial, Gains
<1>1. y \in 0..(TREE_SIZE - 1) /\ y \in TreeIndex
  BY OffsetFacts
<1>2. e \in LeafEntry /\ TreeIndexFromKey(e.key) = y
  BY <1>1 DEF TreeOK, TreeShape
<1>3. e # NoEntry /\ e.key \in Key /\ e.value \in U64 /\ e = [key |-> e.key, value |-> e.value]
  BY <1>2, EntryFields
<1>4. ~Collides(t, e.key)
  BY <1>1, <1>2 DEF Collides
<1> DEFINE k == e.key
           v == e.value
<1>5. r = Set(t, k, v)
  BY <1>3 DEF SetEntry
<1>6. /\ k \in Key /\ v \in U64 /\ ~Collides(t, k) /\ y = TreeIndexFromKey(k)
      /\ e = [key |-> k, value |-> v]
  BY <1>2, <1>3, <1>4
<1> HIDE DEF k, v
<1>7. /\ TreeShape(r)
      /\ \A x \in TreeIndex : r.key_values[x] = IF x = y THEN [key |-> k, value |-> v] ELSE t.key_values[x]
      /\ r.hashes = Insert(t.hashes, y, EntryHash([key |-> k, value |-> v]))
  BY <1>5, <1>6, SetFacts
<1>8. r.hashes = Insert(t.hashes, y, EntryHash(e))
  BY <1>6, <1>7
<1>9. ASSUME NEW n \in Known(R) PROVE r.hashes[n] = o.hashes[n]
  <2>1. Siblings(y) \subseteq Known(R) /\ n \in TreeIndex
    BY KnownFacts
  <2>2. Matches(o.hashes, o.key_values) /\ IsArray(t.hashes)
    BY DEF TreeOK, TreeShape
  <2> DEFINE H == o.hashes
             K == t.hashes
             kv == o.key_values
  <2>3. /\ Matches(H, kv) /\ IsArray(K) /\ (\A j \in Siblings(y) : H[j] = K[j]) /\ H[n] = K[n]
        /\ e = kv[y]
    BY <2>1, <2>2
  <2> HIDE DEF H, K, kv
  <2>4. Insert(K, y, EntryHash(kv[y]))[n] = H[n]
    BY <1>1, <2>1, <2>3, InsertOriginal
  <2> QED
    BY <1>8, <2>3, <2>4 DEF H, K
<1> QED
  BY <1>6, <1>7, <1>9

LEMMA WitnessLoads ==
  ASSUME LowIndices, NEW o, TreeOK(o), NEW R, R \subseteq 0..(TREE_SIZE - 1),
         NEW W, IsArray(W), \A n \in Known(R) : W[n] = o.hashes[n],
         NEW list, ListsEntries(list, o, R), NEW w, w = WitnessTree(W, list)
  PROVE  w.ok /\ Covers(w.tree, o, R)
<1> DEFINE base == [EmptyTree EXCEPT !.hashes = W]
           s == SetEach(base, list)
           N == Len(list)
           P(n) == /\ Partial(s[n], o, R)
                   /\ \A x \in R : (\E i \in 1..n : list[i] = o.key_values[x])
                                     => s[n].key_values[x] = o.key_values[x]
           T == {n \in 0..N : P(n)}
<1>1. N \in Nat
  BY DEF ListsEntries
<1>2. w = [ok |-> \A n \in 0..N : Root(s[n]) = Root(base), tree |-> s[N]]
  BY DEF WitnessTree
<1>3. base.hashes = W /\ TreeShape(base) /\ \A x \in TreeIndex : base.key_values[x] = NoEntry
  <2> DEFINE kv == [i \in TreeIndex |-> NoEntry]
  <2>1. EmptyTree = [hashes |-> EmptyTree.hashes, key_values |-> EmptyTree.key_values]
    BY EmptyTreeOK DEF TreeOK, TreeShape
  <2>2. EmptyTree.key_values = kv
    BY EmptyTreeOK
  <2>3. base = [hashes |-> W, key_values |-> EmptyTree.key_values]
    BY <2>1
  <2>4. base.hashes = W /\ base.key_values = EmptyTree.key_values
        /\ base = [hashes |-> base.hashes, key_values |-> base.key_values]
    BY <2>3
  <2>5. IsArray(kv) /\ \A x \in TreeIndex : kv[x] = NoEntry
    BY DEF IsArray
  <2> HIDE DEF base, kv
  <2> QED
    BY <2>2, <2>4, <2>5 DEF TreeShape
<1> HIDE DEF base
<1>4. s[0] = base /\ \A n \in 1..N : s[n] = SetEntry(s[n - 1], list[n])
  BY <1>1, SetEachRun
<1> HIDE DEF s, N
<1>5. 0 \in T
  <2>1. \A i \in 1..0 : FALSE
    OBVIOUS
  <2> QED
    BY <1>1, <1>3, <1>4, <2>1 DEF Partial
<1>6. ASSUME NEW n \in 1..N, n - 1 \in T PROVE n \in T
  <2> DEFINE t == s[n - 1]
             e == list[n]
             r == s[n]
  <2>1. PICK y \in R : e # NoEntry /\ e = o.key_values[y]
    BY DEF ListsEntries, N
  <2>2. /\ Partial(t, o, R)
        /\ \A x \in R : (\E i \in 1..(n - 1) : list[i] = o.key_values[x])
                          => t.key_values[x] = o.key_values[x]
    BY <1>6
  <2>3. r = SetEntry(t, e) /\ n \in 0..N
    BY <1>1, <1>4
  <2> HIDE DEF t, e, r
  <2>4. Partial(r, o, R) /\ Gains(r, t, o, y)
    BY <2>1, <2>2, <2>3, SetOriginal
  <2>6. ASSUME NEW x \in R, NEW i \in 1..n, list[i] = o.key_values[x]
        PROVE  r.key_values[x] = o.key_values[x]
    <3>1. x \in TreeIndex /\ y \in TreeIndex
      BY OffsetFacts
    <3>2. CASE i = n
      <4>1. o.key_values[x] = o.key_values[y]
        BY <2>1, <2>6, <3>2 DEF e
      <4>2. TreeIndexFromKey(o.key_values[y].key) = y /\ TreeIndexFromKey(o.key_values[x].key) = x
        BY <2>1, <3>1, <4>1 DEF TreeOK, TreeShape
      <4>3. x = y
        BY <4>1, <4>2
      <4> QED
        BY <2>1, <2>4, <3>1, <4>3 DEF Gains
    <3>3. CASE i # n
      <4>1. i \in 1..(n - 1)
        BY <1>1, <3>3
      <4>2. t.key_values[x] = o.key_values[x]
        BY <2>2, <2>6, <4>1
      <4> QED
        BY <2>1, <2>4, <3>1, <4>2 DEF Gains
    <3> QED
      BY <3>2, <3>3
  <2>7. P(n)
    BY <2>4, <2>6 DEF r
  <2> QED
    BY <2>3, <2>7
<1>7. \A n \in 0..N : n \in T
  <2> HIDE DEF T
  <2> QED
    BY <1>1, <1>5, <1>6, CountUp, Zenon
<1>8. \A n \in 0..N : Root(s[n]) = Root(base)
  <2>1. RootIndex \in Known(R)
    BY DEF Known
  <2> QED
    BY <1>3, <1>7, <2>1 DEF Root, Partial
<1>9. P(N)
  <2>1. N \in 0..N
    BY <1>1
  <2>2. N \in T
    BY <1>7, <2>1
  <2> HIDE DEF P
  <2> QED
    BY <2>2
<1>10. Covers(s[N], o, R)
  <2>1. ASSUME NEW x \in R PROVE s[N].key_values[x] = o.key_values[x]
    <3>1. x \in TreeIndex
      BY OffsetFacts
    <3>2. CASE o.key_values[x] = NoEntry
      BY <1>9, <3>1, <3>2 DEF Partial
    <3>3. CASE o.key_values[x] # NoEntry
      BY <1>9, <3>3 DEF ListsEntries, N
    <3> QED
      BY <3>2, <3>3
  <2> QED
    BY <1>9, <2>1 DEF Covers, Partial
<1>11. w.tree = s[N]
  BY <1>2
<1>12. w.ok
  BY <1>2, <1>8
<1> QED
  BY <1>10, <1>11, <1>12

-----------------------------------------------------------------------------
(* A state on a partial tree repeats what the whole one does.              *)

Repeats(s, b, R) == IsRec(s) /\ s.tokens = b.tokens /\ Covers(s.tree, b.tree, R)

LEMMA CoversReads ==
  ASSUME LowIndices, NEW t, NEW o, NEW R, Covers(t, o, R), NEW k, TreeIndexFromKey(k) \in R
  PROVE  /\ Get(t, k) = Get(o, k)
         /\ Collides(t, k) <=> Collides(o, k)
<1>1. t.key_values[TreeIndexFromKey(k)] = o.key_values[TreeIndexFromKey(k)]
  BY DEF Covers
<1> DEFINE x == TreeIndexFromKey(k)
<1> HIDE DEF x
<1>2. t.key_values[x] = o.key_values[x]
  BY <1>1 DEF x
<1>3. /\ Get(t, k) = IF t.key_values[x] # NoEntry /\ t.key_values[x].key = k
                     THEN t.key_values[x].value ELSE 0
      /\ Get(o, k) = IF o.key_values[x] # NoEntry /\ o.key_values[x].key = k
                     THEN o.key_values[x].value ELSE 0
  BY DEF Get, Stored, x
<1>4. /\ Collides(t, k) <=> t.key_values[x] # NoEntry /\ t.key_values[x].key # k
      /\ Collides(o, k) <=> o.key_values[x] # NoEntry /\ o.key_values[x].key # k
  BY DEF Collides, x
<1> QED
  BY <1>2, <1>3, <1>4

LEMMA CoversSet ==
  ASSUME LowIndices, NEW t, NEW o, TreeShape(o), NEW R, R \subseteq 0..(TREE_SIZE - 1), Covers(t, o, R),
         NEW k \in Key, TreeIndexFromKey(k) \in R, NEW v \in U64, ~Collides(o, k),
         NEW r, r = Set(t, k, v), NEW q, q = Set(o, k, v)
  PROVE  Covers(r, q, R)
<1> DEFINE ix == TreeIndexFromKey(k)
           vh == EntryHash([key |-> k, value |-> v])
           H == o.hashes
           K == t.hashes
<1>1. ix \in 0..(TREE_SIZE - 1) /\ ix = TreeIndexFromKey(k)
  OBVIOUS
<1>2. ~Collides(t, k) /\ TreeShape(t)
  BY CoversReads DEF Covers
<1>3. /\ TreeShape(r)
      /\ \A i \in TreeIndex : r.key_values[i] = IF i = ix THEN [key |-> k, value |-> v]
                                                          ELSE t.key_values[i]
      /\ r.hashes = Insert(K, ix, vh)
  BY <1>2, SetFacts
<1>4. /\ \A i \in TreeIndex : q.key_values[i] = IF i = ix THEN [key |-> k, value |-> v]
                                                          ELSE o.key_values[i]
      /\ q.hashes = Insert(H, ix, vh)
  BY SetFacts
<1>5. IsArray(H) /\ IsArray(K)
  BY <1>2 DEF TreeShape
<1>6. \A n \in Known(R) : H[n] = K[n]
  BY DEF Covers
<1>7. \A x \in R : x \in TreeIndex /\ t.key_values[x] = o.key_values[x]
  BY OffsetFacts DEF Covers
<1> HIDE DEF ix, vh, H, K
<1>8. ASSUME NEW n \in Known(R) PROVE r.hashes[n] = q.hashes[n]
  <2>1. Siblings(ix) \subseteq Known(R) /\ n \in TreeIndex
    BY <1>1, KnownFacts
  <2>2. (\A j \in Siblings(ix) : H[j] = K[j]) /\ H[n] = K[n]
    BY <1>6, <2>1
  <2>3. Insert(H, ix, vh)[n] = Insert(K, ix, vh)[n]
    BY <1>1, <1>5, <2>1, <2>2, InsertAgree
  <2> QED
    BY <1>3, <1>4, <2>3
<1>9. \A x \in R : r.key_values[x] = q.key_values[x]
  BY <1>3, <1>4, <1>7
<1> QED
  BY <1>3, <1>8, <1>9 DEF Covers

LEMMA RepeatSet ==
  ASSUME LowIndices, NEW s, NEW b, IsRec(b), TreeShape(b.tree), NEW R, R \subseteq 0..(TREE_SIZE - 1),
         Repeats(s, b, R), NEW k \in Key, TreeIndexFromKey(k) \in R, NEW v \in U64,
         ~Collides(b.tree, k), NEW r, r = SetBalance(s, k, v), NEW q, q = SetBalance(b, k, v)
  PROVE  Repeats(r, q, R) /\ (~s.panicked => ~r.panicked)
<1>1. IsRec(s) /\ s.tokens = b.tokens /\ Covers(s.tree, b.tree, R)
  BY DEF Repeats
<1>2. ~Collides(s.tree, k)
  BY <1>1, CoversReads
<1>3. IsRec(r) /\ r.tokens = s.tokens /\ r.tree = Set(s.tree, k, v)
  BY <1>1, <1>2, SetBalanceFacts
<1>4. q.tokens = b.tokens /\ q.tree = Set(b.tree, k, v)
  BY SetBalanceFacts
<1>5. Covers(r.tree, q.tree, R)
  BY <1>1, <1>3, <1>4, CoversSet
<1>6. ~s.panicked => ~r.panicked
  BY <1>1, <1>2, SetBalancePanic
<1>7. Repeats(r, q, R)
  BY <1>1, <1>3, <1>4, <1>5 DEF Repeats
<1> QED
  BY <1>6, <1>7

LEMMA RepeatMint ==
  ASSUME LowIndices, NEW s, NEW b, StateOK(b), NEW R, R \subseteq 0..(TREE_SIZE - 1),
         Repeats(s, b, R), ~s.panicked, NEW op, IsOp(op), op.type = "Mint", ReadBy(b, op) \subseteq R,
         NEW r, r = MintOn(s, op), NEW q, q = MintOn(b, op), ~q.panicked
  PROVE  Repeats(r, q, R) /\ ~r.panicked
<1>1. IsRec(s) /\ s.tokens = b.tokens /\ Covers(s.tree, b.tree, R)
  BY DEF Repeats
<1>2. IsRec(b) /\ TreeShape(b.tree) /\ ~b.panicked
  <2>1. b.panicked => q = b
    BY MintOnOK
  <2> QED
    BY <2>1 DEF StateOK, StateShape
<1>3. CASE Contains(b.tokens, op.token_id)
  <2>1. q = b /\ r = s
    BY <1>1, <1>3 DEF MintOn
  <2> QED
    BY <2>1
<1>4. CASE ~Contains(b.tokens, op.token_id)
  <2> DEFINE k == <<op.token_id, op.to>>
             v == SaturatingAdd(Get(b.tree, k), op.amount)
             u == SaturatingAdd(Get(s.tree, k), op.amount)
             c == RecordRead(b, k)
             d == RecordRead(s, k)
  <2>1. op.to \in Account /\ op.token_id \in TokenIds /\ op.amount \in U64
    BY DEF IsOp
  <2>2. k \in Key
    BY <2>1 DEF Key
  <2>3. ReadBy(b, op) = {TreeIndexFromKey(k)}
    BY <1>2, <1>4 DEF ReadBy
  <2>4. Get(b.tree, k) \in U64
    BY <1>2, <2>2, GetFacts
  <2>5. v \in U64
    BY <2>1, <2>4, SaturatingType
  <2>6. TreeIndexFromKey(k) \in R
    BY <2>3
  <2>7. /\ k = <<op.token_id, op.to>> /\ c = RecordRead(b, k) /\ d = RecordRead(s, k)
        /\ v = SaturatingAdd(Get(b.tree, k), op.amount) /\ u = SaturatingAdd(Get(s.tree, k), op.amount)
    OBVIOUS
  <2> HIDE DEF k, v, u, c, d
  <2>8. u = v
    BY <1>1, <2>6, <2>7, CoversReads
  <2>9. PICK p : /\ IsRec(p) /\ p.tree = b.tree /\ p.tokens = Append(b.tokens, op.token_id)
                 /\ p.panicked = b.panicked
                 /\ q = SetBalance(p, k, v)
    BY <1>2, <1>4, <2>7, MintOnSteps
  <2>10. PICK e : /\ IsRec(e) /\ e.tree = s.tree /\ e.tokens = Append(s.tokens, op.token_id)
                  /\ e.panicked = s.panicked
                  /\ r = SetBalance(e, k, u)
    BY <1>1, <1>4, <2>7, MintOnSteps
  <2>11. Repeats(e, p, R) /\ TreeShape(p.tree)
    BY <1>1, <1>2, <2>9, <2>10 DEF Repeats
  <2>12. ~Collides(p.tree, k)
    BY <2>9, SetBalancePanic
  <2>13. r = SetBalance(e, k, v) /\ q = SetBalance(p, k, v) /\ IsRec(p)
    BY <2>8, <2>9, <2>10
  <2>14. Repeats(r, q, R) /\ (~e.panicked => ~r.panicked)
    BY <2>2, <2>5, <2>6, <2>11, <2>12, <2>13, RepeatSet
  <2> QED
    BY <2>10, <2>14
<1> QED
  BY <1>3, <1>4

LEMMA RepeatRead ==
  ASSUME NEW s, NEW b, IsRec(b), NEW R, Repeats(s, b, R), NEW k,
         NEW r, r = RecordRead(s, k), NEW q, q = RecordRead(b, k)
  PROVE  Repeats(r, q, R) /\ r.panicked = s.panicked /\ IsRec(q) /\ q.tree = b.tree
<1>1. IsRec(s) /\ s.tokens = b.tokens /\ Covers(s.tree, b.tree, R)
  BY DEF Repeats
<1>2. IsRec(r) /\ r.tree = s.tree /\ r.tokens = s.tokens
  BY <1>1, RecordReadFacts
<1>3. IsRec(q) /\ q.tree = b.tree /\ q.tokens = b.tokens
  BY RecordReadFacts
<1>4. r.panicked = s.panicked
  BY <1>1, RecordReadFacts
<1>5. Repeats(r, q, R)
  BY <1>1, <1>2, <1>3 DEF Repeats
<1> QED
  BY <1>3, <1>4, <1>5

LEMMA RepeatTransfer ==
  ASSUME LowIndices, NEW s, NEW b, StateOK(b), NEW R, R \subseteq 0..(TREE_SIZE - 1),
         Repeats(s, b, R), ~s.panicked, NEW op, IsOp(op), op.type = "Transfer",
         ReadBy(b, op) \subseteq R,
         NEW r, r = TransferOn(s, op), NEW q, q = TransferOn(b, op), ~q.panicked
  PROVE  Repeats(r, q, R) /\ ~r.panicked
<1> DEFINE from == <<op.token_id, op.from>>
           to == <<op.token_id, op.to>>
           a1 == RecordRead(b, from)
           a2 == RecordRead(a1, to)
           v == Get(b.tree, from) - op.amount
           a3 == SetBalance(a2, from, v)
           w == SaturatingAdd(Get(b.tree, to), op.amount)
           c1 == RecordRead(s, from)
           c2 == RecordRead(c1, to)
           x == Get(s.tree, from) - op.amount
           c3 == SetBalance(c2, from, x)
           y == SaturatingAdd(Get(s.tree, to), op.amount)
<1>1. IsRec(s) /\ s.tokens = b.tokens /\ Covers(s.tree, b.tree, R)
  BY DEF Repeats
<1>2. IsRec(b) /\ TreeShape(b.tree) /\ ~b.panicked
  <2>1. b.panicked => q = b
    BY TransferOnOK
  <2> QED
    BY <2>1 DEF StateOK, StateShape
<1>3. /\ op.from \in Account /\ op.to \in Account
      /\ op.token_id \in TokenIds /\ op.amount \in U64
  BY DEF IsOp
<1>4. from \in Key /\ to \in Key
  BY <1>3 DEF Key
<1>5. CASE ~Contains(b.tokens, op.token_id)
  <2>1. q = b /\ r = s
    BY <1>1, <1>5 DEF TransferOn
  <2> QED
    BY <2>1
<1>6. CASE Contains(b.tokens, op.token_id)
  <2>1. ReadBy(b, op) = {TreeIndexFromKey(from)} \cup
          (IF Get(b.tree, from) < op.amount THEN {} ELSE {TreeIndexFromKey(to)})
    BY <1>2, <1>6 DEF ReadBy
  <2>2. TreeIndexFromKey(from) \in R
    BY <2>1
  <2>3. Get(s.tree, from) = Get(b.tree, from)
    BY <1>1, <2>2, CoversReads
  <2>4. Repeats(c1, a1, R) /\ c1.panicked = s.panicked /\ IsRec(a1) /\ a1.tree = b.tree
    BY <1>2, RepeatRead
  <2>5. CASE Get(b.tree, from) < op.amount
    <3>1. q = a1 /\ r = c1
      BY <1>1, <1>2, <1>6, <2>3, <2>5 DEF TransferOn
    <3> QED
      BY <2>4, <3>1
  <2>6. CASE ~(Get(b.tree, from) < op.amount)
    <3>1. TreeIndexFromKey(to) \in R
      BY <2>1, <2>6
    <3>2. Get(s.tree, to) = Get(b.tree, to)
      BY <1>1, <3>1, CoversReads
    <3>3. x = v /\ y = w
      BY <2>3, <3>2
    <3>4. q = IF a3.panicked THEN a3 ELSE SetBalance(a3, to, w)
      BY <1>2, <1>6, <2>6, TransferOnSteps
    <3>5. r = IF c3.panicked THEN c3 ELSE SetBalance(c3, to, y)
      BY <1>1, <1>6, <2>3, <2>6, TransferOnSteps
    <3>6. Get(b.tree, from) \in U64 /\ Get(b.tree, to) \in U64
      BY <1>2, <1>4, GetFacts
    <3>7. v \in U64 /\ w \in U64
      <4> DEFINE z == Get(b.tree, from)
      <4> HIDE DEF z
      <4>1. op.amount <= z
        BY <1>3, <2>6, <3>6, Ranges DEF z
      <4> QED
        BY <1>3, <3>6, <4>1, SaturatingType DEF z
    <3>8. a2 = RecordRead(a1, to) /\ c2 = RecordRead(c1, to) /\ a3 = SetBalance(a2, from, v)
          /\ c3 = SetBalance(c2, from, x)
      OBVIOUS
    <3> HIDE DEF from, to, a1, a2, v, a3, w, c1, c2, x, c3, y
    <3>9. Repeats(c2, a2, R) /\ c2.panicked = c1.panicked /\ IsRec(a2) /\ a2.tree = a1.tree
      BY <2>4, <3>8, RepeatRead
    <3>10. ~a3.panicked /\ q = SetBalance(a3, to, w)
      BY <3>4
    <3>11. ~Collides(a2.tree, from)
      BY <3>8, <3>9, <3>10, SetBalancePanic
    <3>12. TreeShape(a2.tree) /\ c3 = SetBalance(c2, from, v)
      BY <1>2, <2>4, <3>3, <3>8, <3>9
    <3>13. Repeats(c3, a3, R) /\ (~c2.panicked => ~c3.panicked)
      <4>1. /\ IsRec(a2) /\ TreeShape(a2.tree) /\ Repeats(c2, a2, R) /\ from \in Key /\ v \in U64
            /\ a3 = SetBalance(a2, from, v) /\ c3 = SetBalance(c2, from, v)
        BY <1>4, <3>7, <3>8, <3>9, <3>12
      <4> QED
        BY <2>2, <3>11, <4>1, RepeatSet
    <3>14. IsRec(a3) /\ TreeShape(a3.tree)
      <4>1. IsRec(a3) /\ a3.tree = Set(a2.tree, from, v)
        BY <3>8, <3>9, <3>11, SetBalanceFacts
      <4> QED
        BY <1>4, <3>7, <3>11, <3>12, <4>1, SetOK
    <3>15. ~Collides(a3.tree, to)
      BY <3>10, <3>14, SetBalancePanic
    <3>16. ~c3.panicked
      BY <2>4, <3>9, <3>13
    <3>17. r = SetBalance(c3, to, w)
      BY <3>3, <3>5, <3>16
    <3>18. Repeats(r, q, R) /\ (~c3.panicked => ~r.panicked)
      BY <1>4, <3>1, <3>7, <3>10, <3>13, <3>14, <3>15, <3>17, RepeatSet
    <3> QED
      BY <3>16, <3>18
  <2> QED
    BY <2>5, <2>6
<1> QED
  BY <1>5, <1>6

LEMMA RepeatOp ==
  ASSUME LowIndices, NEW s, NEW b, StateOK(b), NEW R, R \subseteq 0..(TREE_SIZE - 1),
         Repeats(s, b, R), ~s.panicked, NEW op, IsOp(op), ReadBy(b, op) \subseteq R,
         NEW r, r = OpOn(s, op), NEW q, q = OpOn(b, op), ~q.panicked
  PROVE  Repeats(r, q, R) /\ ~r.panicked
<1>1. CASE op.type = "Mint"
  BY <1>1, RepeatMint DEF OpOn
<1>2. CASE op.type = "Transfer"
  BY <1>2, RepeatTransfer DEF OpOn
<1>3. CASE op.type # "Mint" /\ op.type # "Transfer"
  BY <1>3 DEF OpOn
<1> QED
  BY <1>1, <1>2, <1>3

\* From the root two such states have, only the root node is needed.
LEMMA RepeatRoot ==
  ASSUME NEW s, NEW b, NEW R, Repeats(s, b, R)
  PROVE  RootOf(s) = RootOf(b)
<1>1. RootIndex \in Known(R)
  BY DEF Known
<1>2. Root(s.tree) = Root(b.tree) /\ s.tokens = b.tokens
  BY <1>1 DEF Repeats, Covers, Root
<1> QED
  BY <1>2 DEF RootOf, StateRoot

LEMMA RepeatRun ==
  ASSUME LowIndices, NEW batch \in Seq(SignedOperation), NEW ops, ops = OpsOf(batch),
         NEW b, StateOK(b), NEW g, IsOpsRun(g, b, ops), ~g[Len(ops)].panicked,
         NEW R, R \subseteq 0..(TREE_SIZE - 1), ReadUpTo(g, ops, Len(ops)) \subseteq R,
         NEW s, Repeats(s, b, R), ~s.panicked, NEW h, IsOpsRun(h, s, ops)
  PROVE  Repeats(h[Len(ops)], g[Len(ops)], R) /\ ~h[Len(ops)].panicked
<1> DEFINE N == Len(ops)
           T == {i \in 0..N : Repeats(h[i], g[i], R) /\ ~h[i].panicked}
<1>1. N \in Nat /\ \A i \in 1..N : IsOp(ops[i])
  BY OpsFacts
<1>2. /\ g[0] = b /\ \A i \in 1..N : g[i] = OpOn(g[i - 1], ops[i])
      /\ h[0] = s /\ \A i \in 1..N : h[i] = OpOn(h[i - 1], ops[i])
  BY DEF IsOpsRun
<1>3. \A i \in 0..N : StateOK(g[i])
  BY RunOK
<1>4. \A i \in 0..N : ~g[i].panicked
  BY RunOK
<1>5. \A i \in 1..N : ReadBy(g[i - 1], ops[i]) \subseteq R
  BY DEF ReadUpTo
<1> HIDE DEF N
<1>6. 0 \in T
  BY <1>1, <1>2
<1>7. ASSUME NEW i \in 1..N, i - 1 \in T PROVE i \in T
  <2> DEFINE c == g[i - 1]
             d == h[i - 1]
             q == g[i]
             r == h[i]
             op == ops[i]
  <2>1. i - 1 \in 0..N /\ i \in 0..N
    BY <1>1
  <2>2. StateOK(c) /\ IsOp(op) /\ ReadBy(c, op) \subseteq R /\ q = OpOn(c, op) /\ r = OpOn(d, op)
    BY <1>1, <1>2, <1>3, <1>5, <2>1
  <2>3. ~q.panicked
    BY <1>4, <2>1
  <2>4. Repeats(d, c, R)
    BY <1>7
  <2>5. ~d.panicked
    BY <1>7
  <2> HIDE DEF c, d, q, r, op
  <2>6. Repeats(r, q, R) /\ ~r.panicked
    BY <2>2, <2>3, <2>4, <2>5, RepeatOp
  <2> QED
    BY <2>1, <2>6 DEF q, r
<1>8. \A i \in 0..N : i \in T
  <2> HIDE DEF T
  <2> QED
    BY <1>1, <1>6, <1>7, CountUp, Zenon
<1>9. N \in 0..N
  BY <1>1
<1> QED
  BY <1>8, <1>9 DEF N

\* The witness lists the entries of the leaves read, by key.
LEMMA WitnessLists ==
  ASSUME NEW o, TreeOK(o), NEW R, R \subseteq 0..(TREE_SIZE - 1), NEW b, RecordedEntries(b, o, R),
         NEW list, list = InKeyOrder(b.entries)
  PROVE  ListsEntries(list, o, R)
<1> DEFINE S == b.entries
           kv == o.key_values
           f == [x \in TreeIndex |-> kv[x]]
           I == {f[x] : x \in TreeIndex}
<1>1. \A e : e \in S <=> \E x \in R : kv[x] # NoEntry /\ e = kv[x]
  BY DEF RecordedEntries
<1>2. \A x \in TreeIndex : kv[x] = NoEntry \/ (kv[x] \in LeafEntry /\ TreeIndexFromKey(kv[x].key) = x)
  BY DEF TreeOK, TreeShape
<1>3. \A x \in R : x \in TreeIndex
  BY OffsetFacts
<1>4. IsFiniteSet(I)
  <2>1. IsFiniteSet(TreeIndex)
    BY OffsetFacts, FS_Interval DEF TreeIndex
  <2>2. f \in Surjection(TreeIndex, I)
    BY DEF Surjection
  <2> HIDE DEF f, I
  <2> QED
    BY <2>1, <2>2, FS_Surjection
<1>5. S \subseteq I
  BY <1>1, <1>3
<1>6. list = InKeyOrder(S)
  OBVIOUS
<1> HIDE DEF S, kv, f, I
<1>7. IsFiniteSet(S)
  BY <1>4, <1>5, FS_Subset
<1>8. S \in SUBSET LeafEntry
  BY <1>1, <1>2, <1>3
<1>9. \A e, d \in S : e.key = d.key => e = d
  <2> SUFFICES ASSUME NEW e \in S, NEW d \in S, e.key = d.key PROVE e = d
    OBVIOUS
  <2>1. PICK x \in R : kv[x] # NoEntry /\ e = kv[x]
    BY <1>1
  <2>2. PICK y \in R : kv[y] # NoEntry /\ d = kv[y]
    BY <1>1
  <2>3. TreeIndexFromKey(e.key) = x /\ TreeIndexFromKey(d.key) = y
    BY <1>2, <1>3, <2>1, <2>2
  <2> QED
    BY <2>1, <2>2, <2>3
<1>10. /\ Len(list) \in Nat /\ list \in [1..Len(list) -> S]
       /\ \A e \in S : \E i \in 1..Len(list) : list[i] = e
  BY <1>6, <1>7, <1>8, <1>9, InKeyOrderFacts
<1>11. ASSUME NEW i \in 1..Len(list)
       PROVE  \E x \in R : kv[x] # NoEntry /\ list[i] = kv[x]
  <2>1. list[i] \in S
    BY <1>10
  <2> QED
    BY <1>1, <2>1
<1>12. ASSUME NEW x \in R, kv[x] # NoEntry
       PROVE  \E i \in 1..Len(list) : list[i] = kv[x]
  BY <1>1, <1>10, <1>12
<1> QED
  BY <1>10, <1>11, <1>12 DEF ListsEntries, kv

\* Refinement finds both roots from the witness of a batch that does not come
\* back to an entry it created.
LEMMA WitnessSuffices ==
  ASSUME LowIndices, NEW batch \in Seq(SignedOperation), NEW f, FileOK(f), NEW b, b = LoadFile(f),
         NEW c, c = TransitionOn(b, batch), ~c.panicked, ~RereadsFreshEntry(batch, b.tree),
         NEW p, p = Replay(TakeWitness(c, b.tokens), batch)
  PROVE  p.ok /\ p.previous_root = RootOf(b) /\ p.new_root = RootOf(c)
<1> DEFINE ops == OpsOf(batch)
           N == Len(ops)
           o == b.tree
           list == InKeyOrder(c.entries)
           w == WitnessTree(c.hashes, list)
           s == NewState(w.tree, b.tokens)
           r == TransitionOn(s, batch)
<1>1. StateOK(b)
  BY LoadFacts
<1>2. ~b.panicked /\ TreeOK(o)
  BY <1>1, LoadedNotPanicked DEF StateOK, StateShape, TreeOK
<1>3. p = [ok |-> w.ok /\ ~r.panicked, panicked |-> r.panicked,
           previous_root |-> RootOf(s), new_root |-> RootOf(r)]
  BY DEF Replay, Replayed, TakeWitness
<1>4. ops = OpsOf(batch) /\ N = Len(ops)
  OBVIOUS
<1>5. N \in Nat
  BY OpsFacts
<1>6. PICK g : IsOpsRun(g, b, ops) /\ c = g[N]
  BY TransitionRun
<1> DEFINE R == ReadUpTo(g, ops, N)
<1>7. Witnessed(c, o, R)
  <2>1. N \in 0..Len(ops)
    BY <1>5
  <2> HIDE DEF ops, N
  <2> QED
    BY <1>4, <1>6, <2>1, WitnessRun
<1>8. R \subseteq 0..(TREE_SIZE - 1) /\ RecordedHashes(c, o, R) /\ RecordedEntries(c, o, R)
  BY <1>7 DEF Witnessed
<1> HIDE DEF R
<1>9. ListsEntries(list, o, R)
  BY <1>2, <1>8, WitnessLists
<1>10. IsArray(c.hashes) /\ \A n \in Known(R) : c.hashes[n] = o.hashes[n]
  BY <1>8 DEF RecordedHashes
<1>11. w.ok /\ Covers(w.tree, o, R)
  <2> HIDE DEF o, list
  <2> QED
    BY <1>2, <1>8, <1>9, <1>10, WitnessLoads
<1> HIDE DEF w
<1>12. IsRec(s) /\ s.tree = w.tree /\ s.tokens = b.tokens
  BY DEF NewState, IsRec
<1>13. ~s.panicked
  BY DEF NewState
<1>14. Repeats(s, b, R)
  BY <1>11, <1>12 DEF Repeats
<1> HIDE DEF s
<1>15. PICK h : IsOpsRun(h, s, ops) /\ r = h[N]
  BY TransitionRun
<1>16. ReadUpTo(g, ops, N) \subseteq R
  BY DEF R
<1> HIDE DEF ops, r
<1>17. Repeats(h[N], g[N], R) /\ ~h[N].panicked
  BY <1>1, <1>4, <1>6, <1>8, <1>13, <1>14, <1>15, <1>16, RepeatRun
<1>18. RootOf(s) = RootOf(b)
  BY <1>14, RepeatRoot
<1>19. RootOf(r) = RootOf(c)
  BY <1>6, <1>15, <1>17, RepeatRoot
<1>20. p.ok
  <2>1. ~r.panicked
    BY <1>15, <1>17
  <2> DEFINE z == w.ok /\ ~r.panicked
             x == r.panicked
             u == RootOf(s)
             y == RootOf(r)
  <2>2. z
    BY <1>11, <2>1
  <2>3. p = [ok |-> z, panicked |-> x, previous_root |-> u, new_root |-> y]
    BY <1>3
  <2> HIDE DEF z, x, u, y
  <2>4. p.ok = z
    BY <2>3
  <2> QED
    BY <2>2, <2>4
<1>21. p.previous_root = RootOf(s) /\ p.new_root = RootOf(r)
  BY <1>3
<1> QED
  BY <1>18, <1>19, <1>20, <1>21


-----------------------------------------------------------------------------
(* The witness always has the root that was loaded. *)

RootKept(b) == b.hashes[RootIndex] = b.initial[RootIndex]

LEMMA RecordKeepsRoot ==
  ASSUME NEW b, RootKept(b), NEW r, r.initial = b.initial, NEW nodes,
         \A i \in TreeIndex : r.hashes[i] = Recorded(b, nodes, i)
  PROVE  RootKept(r)
<1>1. RootIndex \in TreeIndex
  BY OffsetFacts
<1> QED
  BY <1>1 DEF RootKept, Recorded

LEMMA MintKeepsRoot ==
  ASSUME NEW b, IsRec(b), RootKept(b), NEW op, NEW r, r = MintOn(b, op)
  PROVE  RootKept(r)
<1>1. CASE b.panicked \/ Contains(b.tokens, op.token_id)
  BY <1>1 DEF MintOn
<1>2. CASE ~b.panicked /\ ~Contains(b.tokens, op.token_id)
  <2> DEFINE k == <<op.token_id, op.to>>
             q == RecordRead(b, k)
             v == SaturatingAdd(Get(b.tree, k), op.amount)
             n == Siblings(TreeIndexFromKey(k))
  <2>1. PICK p : /\ IsRec(p) /\ p.initial = b.initial /\ p.hashes = q.hashes
                 /\ r = SetBalance(p, k, v)
    BY <1>2, MintOnSteps
  <2>2. q.initial = b.initial /\ \A i \in TreeIndex : q.hashes[i] = Recorded(b, n, i)
    BY RecordReadFacts
  <2>3. r.initial = p.initial /\ \A i \in TreeIndex : r.hashes[i] = Recorded(p, n, i)
    BY <2>1, SetBalanceFacts
  <2> HIDE DEF k, q, v, n
  <2>4. RootKept(q)
    BY <2>2, RecordKeepsRoot
  <2>5. RootKept(p)
    BY <2>1, <2>2, <2>4 DEF RootKept
  <2> QED
    BY <2>3, <2>5, RecordKeepsRoot
<1> QED
  BY <1>1, <1>2

LEMMA ReadKeepsRoot ==
  ASSUME NEW b, IsRec(b), RootKept(b), NEW k, NEW r, r = RecordRead(b, k)
  PROVE  RootKept(r) /\ IsRec(r)
<1> DEFINE n == Siblings(TreeIndexFromKey(k))
<1>1. IsRec(r) /\ r.initial = b.initial /\ \A i \in TreeIndex : r.hashes[i] = Recorded(b, n, i)
  BY RecordReadFacts
<1> HIDE DEF n
<1> QED
  BY <1>1, RecordKeepsRoot

LEMMA SetKeepsRoot ==
  ASSUME NEW b, IsRec(b), RootKept(b), NEW k, NEW v, NEW r, r = SetBalance(b, k, v)
  PROVE  RootKept(r) /\ IsRec(r)
<1> DEFINE n == Siblings(TreeIndexFromKey(k))
<1>1. IsRec(r) /\ r.initial = b.initial /\ \A i \in TreeIndex : r.hashes[i] = Recorded(b, n, i)
  BY SetBalanceFacts
<1> HIDE DEF n
<1> QED
  BY <1>1, RecordKeepsRoot

LEMMA TransferKeepsRoot ==
  ASSUME NEW b, IsRec(b), RootKept(b), NEW op, NEW r, r = TransferOn(b, op)
  PROVE  RootKept(r)
<1> DEFINE from == <<op.token_id, op.from>>
           to == <<op.token_id, op.to>>
           sender == RecordRead(b, from)
           both == RecordRead(sender, to)
           debited == SetBalance(both, from, Get(b.tree, from) - op.amount)
           credited == SetBalance(debited, to, SaturatingAdd(Get(b.tree, to), op.amount))
<1>1. r = b \/ r = sender \/ r = debited \/ r = credited
  BY DEF TransferOn, CreditOn
<1>2. RootKept(sender) /\ IsRec(sender)
  BY ReadKeepsRoot
<1>3. RootKept(both) /\ IsRec(both)
  BY <1>2, ReadKeepsRoot
<1>4. RootKept(debited) /\ IsRec(debited)
  BY <1>3, SetKeepsRoot
<1>5. RootKept(credited)
  BY <1>4, SetKeepsRoot
<1> QED
  BY <1>1, <1>2, <1>4, <1>5

LEMMA WitnessHasRoot ==
  ASSUME LowIndices, NEW batch \in Seq(SignedOperation), NEW f, FileOK(f), NEW b, b = LoadFile(f),
         NEW c, c = TransitionOn(b, batch)
  PROVE  c.hashes[RootIndex] = b.tree.hashes[RootIndex]
<1> DEFINE ops == OpsOf(batch)
           N == Len(ops)
<1>1. /\ StateOK(b) /\ b.initial = b.tree.hashes
      /\ \A i \in TreeIndex : b.hashes[i] = IF i = RootIndex THEN b.initial[i] ELSE EMPTY_HASH
  BY LoadFacts
<1>2. N \in Nat
  BY OpsFacts
<1>3. PICK g : IsOpsRun(g, b, ops) /\ c = g[N]
  BY TransitionRun
<1>4. ops = OpsOf(batch)
  OBVIOUS
<1>5. \A i \in 0..N : StateOK(g[i]) /\ g[i].initial = b.initial
  <2> HIDE DEF ops
  <2> QED
    BY <1>1, <1>3, <1>4, RunOK
<1>6. g[0] = b /\ \A i \in 1..N : g[i] = OpOn(g[i - 1], ops[i])
  BY <1>3 DEF IsOpsRun
<1> HIDE DEF ops, N
<1> DEFINE T == {i \in 0..N : RootKept(g[i])}
<1>7. 0 \in T
  BY <1>1, <1>2, <1>6, OffsetFacts DEF RootKept
<1>8. ASSUME NEW i \in 1..N, i - 1 \in T PROVE i \in T
  <2> DEFINE d == g[i - 1]
             r == g[i]
             op == ops[i]
  <2>1. i - 1 \in 0..N /\ i \in 0..N
    BY <1>2
  <2>2. RootKept(d) /\ IsRec(d)
    BY <1>5, <1>8, <2>1 DEF StateOK, StateShape
  <2>3. r = OpOn(d, op)
    BY <1>6
  <2> HIDE DEF d, r, op
  <2>4. CASE op.type = "Mint"
    <3>1. r = MintOn(d, op)
      BY <2>3, <2>4 DEF OpOn
    <3>2. RootKept(r)
      BY <2>2, <3>1, MintKeepsRoot
    <3> QED
      BY <2>1, <3>2 DEF r
  <2>5. CASE op.type = "Transfer"
    <3>1. r = TransferOn(d, op)
      BY <2>3, <2>5 DEF OpOn
    <3>2. RootKept(r)
      BY <2>2, <3>1, TransferKeepsRoot
    <3> QED
      BY <2>1, <3>2 DEF r
  <2>6. CASE op.type = "Overflow"
    <3>1. r = [d EXCEPT !.panicked = TRUE]
      BY <2>3, <2>6 DEF OpOn
    <3>2. RootKept(r)
      BY <2>2, <3>1 DEF IsRec, RootKept
    <3> QED
      BY <2>1, <3>2 DEF r
  <2>7. CASE op.type \notin {"Mint", "Transfer", "Overflow"}
    <3>1. r = d
      BY <2>3, <2>7 DEF OpOn
    <3> QED
      BY <2>1, <2>2, <3>1 DEF r
  <2> QED
    BY <2>4, <2>5, <2>6, <2>7
<1>9. \A i \in 0..N : i \in T
  <2> HIDE DEF T
  <2> QED
    BY <1>2, <1>7, <1>8, CountUp, Zenon
<1>10. RootKept(g[N]) /\ g[N].initial = b.initial
  BY <1>2, <1>5, <1>9
<1> QED
  BY <1>1, <1>3, <1>10 DEF RootKept

\* The empty state has the empty ledger.
LEMMA GenesisLedger ==
  ASSUME LowIndices
  PROVE  LedgerOf(LoadFile(GenesisFile)) = EmptyLedger
<1> DEFINE b == LoadFile(GenesisFile)
<1>1. b.tree.key_values = GenesisFile.key_values /\ b.tokens = GenesisFile.tokens
  BY GenesisFacts, LoadFacts
<1>2. GenesisFile.key_values = EmptyTree.key_values /\ GenesisFile.tokens = <<>>
  BY DEF GenesisFile
<1>3. \A i \in TreeIndex : b.tree.key_values[i] = NoEntry
  BY <1>1, <1>2, EmptyTreeOK
<1>4. b.tokens = <<>>
  BY <1>1, <1>2
<1> HIDE DEF b
<1>5. ASSUME NEW t \in TokenIds, NEW a \in Account PROVE Get(b.tree, <<t, a>>) = 0
  <2> DEFINE k == <<t, a>>
  <2>1. k \in Key
    BY DEF Key
  <2>2. TreeIndexFromKey(k) \in TreeIndex
    BY <2>1, KeyFacts
  <2> HIDE DEF k
  <2>3. Get(b.tree, k) = 0
    BY <1>3, <2>2 DEF Get, Stored
  <2> QED
    BY <2>3 DEF k
<1>6. [t \in TokenIds |-> [a \in Account |-> Get(b.tree, <<t, a>>)]]
        = [t \in TokenIds |-> [a \in Account |-> 0]]
  BY <1>5
<1>7. ToSet(b.tokens) = {}
  BY <1>4 DEF ToSet
<1> QED
  BY <1>6, <1>7 DEF LedgerOf, EmptyLedger, b
=============================================================================
