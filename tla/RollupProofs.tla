---------------------------- MODULE RollupProofs ----------------------------
(***************************************************************************)
(* Safety of the rollup for every number of builders, batches, cores and   *)
(* runs and for every group of reports: what is accumulated was signed,    *)
(* stored and chained, and the ledger behind client_root implements        *)
(* TokenSupply, whatever the chain loses, repeats or reorders.             *)
(***************************************************************************)
EXTENDS Rollup, OperatorProofs

-----------------------------------------------------------------------------
(* Accumulation as a loop over the reports. *)

\* The reports refinement can make about roots in R, and what the loop of
\* on_accumulate_items keeps of them.
Reports(R) == {NoOutput} \cup {Output(p, q) : p \in R, q \in R}
Pending(R) == {NoneYet, Err} \cup {Some(q) : q \in R}

IsAccumulation(r, n, stored, items) ==
  /\ r[0] = NoneYet
  /\ \A i \in 1..n : r[i] = OnWorkItemRecord(r[i - 1], items[i], stored)

\* One round of the loop.
LEMMA RecordType ==
  ASSUME NEW R, NEW stored \in R, NEW acc \in Pending(R), NEW record \in Reports(R)
  PROVE  OnWorkItemRecord(acc, record, stored) \in Pending(R)
BY DEF Pending, Reports, OnWorkItemRecord, SingleStep, NoOutput, Output, NoneYet, Err, Some

\* Accumulated is what the end of a run of the loop says.
LEMMA AccumulatedRun ==
  ASSUME NEW R, NEW stored \in R, NEW n \in Nat, NEW items, Len(items) = n,
         \A i \in 1..n : items[i] \in Reports(R)
  PROVE  \E r \in [0..n -> Pending(R)] :
           /\ IsAccumulation(r, n, stored, items)
           /\ Accumulated(stored, items) = IF r[n].is = "some" THEN r[n].root ELSE stored
<1> DEFINE X == Pending(R)
           F == [i \in 1..n |-> [a \in X |-> OnWorkItemRecord(a, items[i], stored)]]
           Rec(g) == g = [i \in 0..n |-> IF i = 0 THEN NoneYet
                                         ELSE OnWorkItemRecord(g[i - 1], items[i], stored)]
           G == CHOOSE g : Rec(g)
<1>1. NoneYet \in X /\ F \in [1..n -> [X -> X]]
  BY RecordType DEF Pending
<1>2. PICK r : IsRun(r, n, X, NoneYet, F)
  <2> HIDE DEF F, X
  <2> QED
    BY <1>1, LoopRuns
<1>3. \A i \in 1..n : r[i] = OnWorkItemRecord(r[i - 1], items[i], stored)
  <2> TAKE i \in 1..n
  <2>1. r[i - 1] \in X /\ r[i] = F[i][r[i - 1]]
    BY <1>2 DEF IsRun
  <2> HIDE DEF X
  <2> QED
    BY <2>1
<1>4. Rec(G)
  <2>1. Rec(r)
    BY <1>2, <1>3 DEF IsRun
  <2> HIDE DEF Rec
  <2> QED
    BY <2>1
<1>5. Accumulated(stored, items) = IF G[n].is = "some" THEN G[n].root ELSE stored
  BY DEF Accumulated
<1>6. G[n] = r[n]
  <2> HIDE DEF G
  <2>1. G[0] = NoneYet /\ \A i \in 1..n : G[i] = OnWorkItemRecord(G[i - 1], items[i], stored)
    BY <1>4
  <2>2. \A i \in 1..n : G[i - 1] \in X => G[i] = F[i][G[i - 1]]
    <3> HIDE DEF X
    <3> QED
      BY <2>1
  <2> HIDE DEF F, X
  <2> QED
    BY <1>2, <2>1, <2>2, LoopUnique
<1> QED
  BY <1>2, <1>3, <1>5, <1>6 DEF IsRun, IsAccumulation

-----------------------------------------------------------------------------
\* end(i) and chained of AllOrNothing, for a group of reports taken at `stored`.
OksTo(items, i) == {j \in 1..i : items[j].ok}
EndOf(stored, items, i) ==
  IF OksTo(items, i) = {} THEN stored ELSE items[Max(OksTo(items, i))].new_root
ChainedTo(stored, items, i) ==
  \A j \in OksTo(items, i) : items[j].previous_root = EndOf(stored, items, j - 1)

\* Where the chain of the first i reports ends.
LEMMA EndOfStep ==
  ASSUME NEW stored, NEW items, NEW i \in Nat, i # 0
  PROVE  /\ EndOf(stored, items, 0) = stored
         /\ items[i].ok => EndOf(stored, items, i) = items[i].new_root
         /\ ~items[i].ok => EndOf(stored, items, i) = EndOf(stored, items, i - 1)
         /\ ChainedTo(stored, items, i) <=>
              /\ ChainedTo(stored, items, i - 1)
              /\ items[i].ok => items[i].previous_root = EndOf(stored, items, i - 1)
<1>1. OksTo(items, 0) = {}
  BY DEF OksTo
<1>2. CASE items[i].ok
  <2>1. OksTo(items, i) = OksTo(items, i - 1) \cup {i}
    BY <1>2 DEF OksTo
  <2>2. Max(OksTo(items, i)) = i
    <3>1. i \in OksTo(items, i) /\ \A j \in OksTo(items, i) : j \in Nat /\ i >= j
      BY <1>2 DEF OksTo
    <3>2. \A j \in OksTo(items, i) : (\A k \in OksTo(items, i) : j >= k) => j = i
      BY <3>1
    <3> HIDE DEF Max
    <3>3. Max(OksTo(items, i)) = CHOOSE x \in OksTo(items, i) : \A y \in OksTo(items, i) : x >= y
      BY DEF Max
    <3> QED
      BY <3>1, <3>2, <3>3
  <2> QED
    BY <1>1, <1>2, <2>1, <2>2 DEF EndOf, ChainedTo
<1>3. CASE ~items[i].ok
  <2>1. OksTo(items, i) = OksTo(items, i - 1)
    BY <1>3 DEF OksTo
  <2> QED
    BY <1>1, <1>3, <2>1 DEF EndOf, ChainedTo
<1> QED
  BY <1>2, <1>3

\* A group of reports takes effect as a whole or not at all.
LEMMA AccumulatedChains ==
  ASSUME NEW R, NEW stored \in R, NEW n \in Nat, NEW items, Len(items) = n,
         \A i \in 1..n : items[i] \in Reports(R)
  PROVE  Accumulated(stored, items) =
           IF ChainedTo(stored, items, n) THEN EndOf(stored, items, n) ELSE stored
<1>1. PICK r \in [0..n -> Pending(R)] :
        /\ IsAccumulation(r, n, stored, items)
        /\ Accumulated(stored, items) = IF r[n].is = "some" THEN r[n].root ELSE stored
  BY AccumulatedRun
<1> DEFINE End(i) == EndOf(stored, items, i)
           Says(i) == r[i] = IF ~ChainedTo(stored, items, i) THEN Err
                             ELSE IF OksTo(items, i) = {} THEN NoneYet ELSE Some(End(i))
           T == {i \in 0..n : Says(i)}
<1>2. 0 \in T
  <2>1. OksTo(items, 0) = {} /\ ChainedTo(stored, items, 0) /\ r[0] = NoneYet
    BY <1>1 DEF OksTo, ChainedTo, IsAccumulation
  <2> QED
    BY <2>1
<1>3. ASSUME NEW i \in 1..n, i - 1 \in T PROVE i \in T
  <2>1. i \in Nat /\ i # 0 /\ Says(i - 1)
    BY <1>3
  <2>2. r[i] = IF items[i].ok THEN SingleStep(r[i - 1], items[i], stored) ELSE r[i - 1]
    BY <1>1 DEF IsAccumulation, OnWorkItemRecord
  <2>3. End(i - 1) = IF OksTo(items, i - 1) = {} THEN stored ELSE End(i - 1)
    BY DEF EndOf
  <2>4. /\ items[i].ok => OksTo(items, i) # {}
        /\ ~items[i].ok => OksTo(items, i) = OksTo(items, i - 1)
    BY <2>1 DEF OksTo
  <2>5. /\ items[i].ok => End(i) = items[i].new_root
        /\ ~items[i].ok => End(i) = End(i - 1)
        /\ ChainedTo(stored, items, i) <=>
             /\ ChainedTo(stored, items, i - 1)
             /\ items[i].ok => items[i].previous_root = End(i - 1)
    BY <2>1, EndOfStep
  <2>6. Says(i)
    <3> HIDE DEF End
    <3>1. CASE items[i].ok
      BY <2>1, <2>2, <2>3, <2>4, <2>5, <3>1 DEF SingleStep, NoneYet, Err, Some
    <3>2. CASE ~items[i].ok
      BY <2>1, <2>2, <2>4, <2>5, <3>2
    <3> QED
      BY <3>1, <3>2
  <2> HIDE DEF Says
  <2> QED
    BY <2>6
<1>4. Says(n)
  <2>1. \A i \in 0..n : i \in T
    <3> HIDE DEF T
    <3> QED
      BY <1>2, <1>3, CountUp, Zenon
  <2> HIDE DEF Says
  <2> QED
    BY <2>1
<1> QED
  BY <1>1, <1>4 DEF EndOf, NoneYet, Err, Some

-----------------------------------------------------------------------------
(* Batch after batch. *)

\* q is what n batches of V leave of s.
ReachedIn(s, V, n, q) == \E bs \in [1..n -> V] : q = Transitions(s, bs)

\* One batch more.
LEMMA TransitionsStep ==
  ASSUME NEW s \in LedgerState, NEW n \in Nat, NEW V, \A b \in V : b \in Seq(SignedOperation),
         NEW bs \in [1..n -> V]
  PROVE  /\ Transitions(s, bs) \in LedgerState
         /\ n = 0 => Transitions(s, bs) = s
         /\ \A b \in V : ReachedIn(s, V, n + 1, Transition(Transitions(s, bs), b))
<1>1. Len(bs) = n /\ \A i \in 1..n : bs[i] \in Seq(SignedOperation)
  OBVIOUS
<1>2. PICK r : IsBatchRun(r, n, s, bs)
  BY <1>1, TransitionsRun
<1>3. Transitions(s, bs) = r[n]
  BY <1>1, <1>2, TransitionsRun
<1>4. r \in [0..n -> LedgerState] /\ r[0] = s
  BY <1>2 DEF IsBatchRun
<1>5. ASSUME NEW b \in V
      PROVE  ReachedIn(s, V, n + 1, Transition(Transitions(s, bs), b))
  <2> DEFINE cs == [i \in 1..(n + 1) |-> IF i = n + 1 THEN b ELSE bs[i]]
             q == [i \in 0..(n + 1) |-> IF i = n + 1 THEN Transition(r[n], b) ELSE r[i]]
  <2>1. Len(cs) = n + 1 /\ cs \in [1..(n + 1) -> V]
    OBVIOUS
  <2>2. Transition(r[n], b) \in LedgerState
    BY <1>4, TransitionType
  <2>3. q \in [0..(n + 1) -> LedgerState] /\ q[0] = s
    BY <1>4, <2>2
  <2>4. ASSUME NEW i \in 1..(n + 1) PROVE q[i] = Transition(q[i - 1], cs[i])
    <3>1. CASE i = n + 1
      BY <3>1
    <3>2. CASE i # n + 1
      <4>1. i \in 1..n /\ i \in 0..(n + 1) /\ i - 1 \in 0..(n + 1) /\ i - 1 # n + 1
        BY <3>2
      <4>2. r[i] = Transition(r[i - 1], bs[i])
        BY <1>2, <4>1 DEF IsBatchRun
      <4> QED
        BY <3>2, <4>1, <4>2
    <3> QED
      BY <3>1, <3>2
  <2>5. IsBatchRun(q, n + 1, s, cs)
    BY <2>3, <2>4 DEF IsBatchRun
  <2>6. q[n + 1] = Transition(r[n], b)
    OBVIOUS
  <2>7. \A i \in 1..(n + 1) : cs[i] \in Seq(SignedOperation)
    BY <2>1
  <2> DEFINE m == n + 1
  <2>8. m \in Nat
    OBVIOUS
  <2> HIDE DEF cs, q, m
  <2>9. Transitions(s, cs) = q[m]
    <3>1. IsBatchRun(q, m, s, cs) /\ Len(cs) = m /\ \A i \in 1..m : cs[i] \in Seq(SignedOperation)
      BY <2>1, <2>5, <2>7 DEF m
    <3> QED
      BY <2>8, <3>1, TransitionsRun, Zenon
  <2> QED
    BY <1>3, <2>1, <2>6, <2>9 DEF m, ReachedIn
<1> QED
  BY <1>3, <1>4, <1>5

\* Verified batches, however many, take a lawful ledger to a lawful successor.
LEMMA TransitionsFollow ==
  ASSUME NEW s, Lawful(s), NEW n \in Nat, NEW V,
         \A b \in V : b \in Seq(SignedOperation) /\ VerifyOperations(b),
         NEW bs \in [1..n -> V]
  PROVE  Follows(s, Transitions(s, bs))
<1>1. Len(bs) = n /\ (\A i \in 1..n : bs[i] \in Seq(SignedOperation)) /\ s \in LedgerState
  BY DEF Lawful
<1>2. PICK r : IsBatchRun(r, n, s, bs)
  BY <1>1, TransitionsRun
<1>3. Transitions(s, bs) = r[n]
  BY <1>1, <1>2, TransitionsRun
<1> DEFINE T == {i \in 0..n : Follows(s, r[i])}
<1>4. 0 \in T
  BY <1>2, FollowsOn DEF IsBatchRun
<1>5. ASSUME NEW i \in 1..n, i - 1 \in T PROVE i \in T
  <2>1. Follows(s, r[i - 1]) /\ Lawful(r[i - 1]) /\ i \in 0..n
    BY <1>5 DEF Follows
  <2>2. r[i] = Transition(r[i - 1], bs[i])
    BY <1>2 DEF IsBatchRun
  <2>3. bs[i] \in V
    OBVIOUS
  <2>4. Follows(r[i - 1], r[i])
    BY <2>1, <2>2, <2>3, TransitionFollows
  <2> QED
    BY <2>1, <2>4, FollowsOn
<1> HIDE DEF T
<1>6. \A i \in 0..n : i \in T
  BY <1>4, <1>5, CountUp, Zenon
<1> QED
  BY <1>3, <1>6 DEF T

-----------------------------------------------------------------------------
(* What a group of reports does to the commitment. *)

\* The report is of a batch in V, or of none (Deferring moves nothing).
ReportsBatch(V, rep) ==
  \/ rep.new_root = rep.previous_root
  \/ \E b \in V : rep.new_root = Transition(rep.previous_root, b)

\* The commitment after a group of reports: the old one or the root a report
\* ends at, and reached batch after batch.
LEMMA AccumulatedSteps ==
  ASSUME NEW stored \in LedgerState, NEW n \in Nat, NEW items, Len(items) = n,
         \A i \in 1..n : items[i] \in Reports(LedgerState),
         NEW V, \A b \in V : b \in Seq(SignedOperation),
         \A i \in 1..n : items[i].ok => ReportsBatch(V, items[i])
  PROVE  /\ \/ Accumulated(stored, items) = stored
            \/ \E i \in 1..n : items[i].ok /\ Accumulated(stored, items) = items[i].new_root
         /\ \E bs \in BoundedSeq(V, n) : Accumulated(stored, items) = Transitions(stored, bs)
<1> DEFINE Reached(m, root) == \E k \in 0..m : ReachedIn(stored, V, k, root)
           Ends(m, root) == \E i \in 1..m : items[i].ok /\ root = items[i].new_root
<1>1. PICK r \in [0..n -> Pending(LedgerState)] :
        /\ IsAccumulation(r, n, stored, items)
        /\ Accumulated(stored, items) = IF r[n].is = "some" THEN r[n].root ELSE stored
  BY AccumulatedRun
<1> DEFINE Good(i) == r[i].is = "some" => Reached(i, r[i].root) /\ Ends(i, r[i].root)
           T == {i \in 0..n : Good(i)}
<1>2. Reached(0, stored)
  <2> DEFINE e == [i \in 1..0 |-> {}]
  <2>1. e \in [1..0 -> V]
    OBVIOUS
  <2>2. Transitions(stored, e) = stored
    <3> HIDE DEF e
    <3> QED
      BY <2>1, TransitionsStep
  <2> HIDE DEF e
  <2>3. ReachedIn(stored, V, 0, stored)
    BY <2>1, <2>2 DEF ReachedIn
  <2> QED
    BY <2>3
<1>3. ASSUME NEW m \in Nat, NEW root, Reached(m, root), root \in LedgerState
      PROVE  /\ Reached(m + 1, root)
             /\ \A b \in V : Reached(m + 1, Transition(root, b))
  <2>1. PICK k \in 0..m : ReachedIn(stored, V, k, root)
    BY <1>3
  <2>2. PICK bs \in [1..k -> V] : root = Transitions(stored, bs)
    BY <2>1 DEF ReachedIn
  <2>3. k \in Nat /\ k \in 0..(m + 1) /\ k + 1 \in 0..(m + 1)
    OBVIOUS
  <2>4. \A b \in V : ReachedIn(stored, V, k + 1, Transition(root, b))
    BY <2>2, <2>3, TransitionsStep
  <2> QED
    BY <2>1, <2>3, <2>4
<1>4. 0 \in T
  <2>1. r[0].is # "some"
    BY <1>1 DEF IsAccumulation, NoneYet
  <2> QED
    BY <2>1
<1>5. ASSUME NEW i \in 1..n, i - 1 \in T PROVE i \in T
  <2> DEFINE a == r[i - 1]
             it == items[i]
  <2>1. i - 1 \in Nat /\ i \in 0..n /\ Good(i - 1) /\ a \in Pending(LedgerState)
    BY <1>5
  <2>2. r[i] = IF it.ok THEN SingleStep(a, it, stored) ELSE a
    BY <1>1 DEF IsAccumulation, OnWorkItemRecord
  <2>3. a.is = "some" => Reached(i - 1, a.root) /\ a.root \in LedgerState
    <3>1. a.is = "some" => a.root \in LedgerState
      <4> HIDE DEF a
      <4> QED
        BY <2>1 DEF Pending, Some, NoneYet, Err
    <3> HIDE DEF Reached, Ends
    <3> QED
      BY <2>1, <3>1
  <2>4. \A root : Ends(i - 1, root) => Ends(i, root)
    OBVIOUS
  <2>5. Reached(i - 1, stored)
    BY <1>2, <2>1
  <2>6. it.ok => ReportsBatch(V, it)
    OBVIOUS
  <2> DEFINE cur == IF a.is = "some" THEN a.root ELSE stored
  <2>7. Reached(i - 1, cur) /\ cur \in LedgerState
    BY <2>3, <2>5
  <2>8. Reached(i, cur) /\ \A b \in V : Reached(i, Transition(cur, b))
    <3>1. (i - 1) + 1 = i
      OBVIOUS
    <3> HIDE DEF Reached, cur
    <3> QED
      BY <1>3, <2>1, <2>7, <3>1
  <2>9. Good(i)
    <3>1. CASE it.ok
      <4>1. CASE a.is = "err"
        BY <2>2, <3>1, <4>1 DEF SingleStep
      <4>2. CASE a.is # "err" /\ it.previous_root # cur
        BY <2>2, <3>1, <4>2 DEF SingleStep, Err
      <4>3. CASE a.is # "err" /\ it.previous_root = cur
        <5>1. r[i] = Some(it.new_root)
          BY <2>2, <3>1, <4>3 DEF SingleStep
        <5>2. r[i].root = it.new_root
          BY <5>1 DEF Some
        <5>3. Reached(i, it.new_root)
          <6> HIDE DEF Reached, cur
          <6> QED
            BY <2>6, <2>8, <3>1, <4>3 DEF ReportsBatch
        <5>4. Ends(i, it.new_root)
          BY <3>1
        <5> QED
          BY <5>2, <5>3, <5>4
      <4> QED
        BY <4>1, <4>2, <4>3
    <3>2. CASE ~it.ok
      <4>1. r[i] = a
        BY <2>2, <3>2
      <4>2. a.is = "some" => cur = a.root
        OBVIOUS
      <4> HIDE DEF Reached, Ends, cur
      <4> QED
        BY <2>1, <2>4, <2>8, <4>1, <4>2
    <3> QED
      BY <3>1, <3>2
  <2> QED
    BY <2>1, <2>9
<1>6. Good(n)
  <2>1. \A i \in 0..n : i \in T
    <3> HIDE DEF T
    <3> QED
      BY <1>4, <1>5, CountUp, Zenon
  <2> HIDE DEF Good
  <2> QED
    BY <2>1
<1> DEFINE new == Accumulated(stored, items)
<1>7. Reached(n, new)
  <2>1. Reached(n, stored)
    BY <1>2
  <2> HIDE DEF Reached
  <2> QED
    BY <1>1, <1>6, <2>1
<1>8. new = stored \/ Ends(n, new)
  <2> HIDE DEF Ends, Reached
  <2> QED
    BY <1>1, <1>6
<1>9. \E bs \in BoundedSeq(V, n) : new = Transitions(stored, bs)
  <2>1. PICK k \in 0..n : \E bs \in [1..k -> V] : new = Transitions(stored, bs)
    BY <1>7 DEF ReachedIn
  <2>2. [1..k -> V] \subseteq BoundedSeq(V, n)
    BY DEF BoundedSeq, SeqOf
  <2> HIDE DEF new
  <2> QED
    BY <2>1, <2>2
<1> QED
  BY <1>8, <1>9

-----------------------------------------------------------------------------
(* The queues of the chain. *)

\* The reports that are left are reports that were there.
LEMMA WaitingType ==
  ASSUME NEW S, reports \in Seq(S), NEW taken
  PROVE  Waiting(taken) \in Seq(S)
<1> DEFINE n == Len(reports)
           X == Seq(S)
           Step(q, i) == IF i \in taken THEN q ELSE Append(q, reports[i])
           F == [i \in 1..n |-> [q \in X |-> Step(q, i)]]
           Rec(g) == g = [i \in 0..n |-> IF i = 0 THEN <<>>
                                         ELSE IF i \in taken THEN g[i - 1]
                                              ELSE Append(g[i - 1], reports[i])]
           G == CHOOSE g : Rec(g)
<1>1. n \in Nat /\ <<>> \in X
  OBVIOUS
<1>2. F \in [1..n -> [X -> X]]
  <2>1. \A i \in 1..n, q \in X : Step(q, i) \in X
    OBVIOUS
  <2> HIDE DEF Step
  <2> QED
    BY <2>1
<1>3. PICK r : IsRun(r, n, X, <<>>, F)
  <2> HIDE DEF F, X, n
  <2> QED
    BY <1>1, <1>2, LoopRuns
<1>4. Rec(G)
  <2>1. \A i \in 1..n : r[i] = Step(r[i - 1], i)
    <3> TAKE i \in 1..n
    <3>1. i - 1 \in 0..n
      BY <1>1
    <3> HIDE DEF X, Step, n
    <3> QED
      BY <1>3, <3>1 DEF IsRun
  <2>2. \A i \in 0..n : i # 0 => i \in 1..n
    BY <1>1
  <2>3. Rec(r)
    <3> HIDE DEF n, X
    <3> QED
      BY <1>3, <2>1, <2>2 DEF IsRun
  <2> HIDE DEF Rec
  <2> QED
    BY <2>3
<1>5. Waiting(taken) = G[n]
  BY DEF Waiting
<1>6. G[n] = r[n]
  <2> HIDE DEF G
  <2>1. G[0] = <<>> /\ \A i \in 1..n : G[i] = Step(G[i - 1], i)
    <3>1. \A i \in 1..n : i \in 0..n /\ i # 0
      BY <1>1
    <3>2. 0 \in 0..n
      BY <1>1
    <3> HIDE DEF n
    <3> QED
      BY <1>4, <3>1, <3>2
  <2>2. \A i \in 1..n : G[i - 1] \in X => G[i] = F[i][G[i - 1]]
    <3> HIDE DEF X, Step
    <3> QED
      BY <2>1
  <2> HIDE DEF F, X, n
  <2> QED
    BY <1>1, <1>3, <2>1, <2>2, LoopUnique
<1>7. r[n] \in X
  <2>1. n \in 0..n
    BY <1>1
  <2> QED
    BY <1>3, <2>1 DEF IsRun
<1> QED
  BY <1>5, <1>6, <1>7

\* What reaches the chain of a run's packages are copies of them.
LEMMA SentType ==
  ASSUME NEW S, NEW pkgs \in Seq(S), NEW d \in Sent(pkgs)
  PROVE  d \in Seq(S)
<1>1. CASE d = pkgs
  BY <1>1
<1>2. CASE d \in Deliveries(pkgs)
  <2>1. \A p \in S, n \in 1..Cores : Copies(p, n) \in Seq(S)
    BY WorkPackagesAssumption DEF Copies
  <2>2. \A i \in DOMAIN pkgs : pkgs[i] \in S
    OBVIOUS
  <2>3. CASE d = <<>>
    BY <2>3
  <2>4. ASSUME 1 \in DOMAIN pkgs, NEW n \in 1..Cores, d = Copies(pkgs[1], n)
        PROVE  d \in Seq(S)
    BY <2>1, <2>2, <2>4
  <2>5. ASSUME 1 \in DOMAIN pkgs, 2 \in DOMAIN pkgs, NEW n \in 1..Cores, NEW m \in 1..Cores,
               d = Copies(pkgs[1], n) \o Copies(pkgs[2], m)
        PROVE  d \in Seq(S)
    <3>1. Copies(pkgs[1], n) \in Seq(S) /\ Copies(pkgs[2], m) \in Seq(S)
      BY <2>1, <2>2, <2>5
    <3> QED
      BY <2>5, <3>1
  <2>6. \/ d = <<>>
        \/ 1 \in DOMAIN pkgs /\ \E n \in 1..Cores : d = Copies(pkgs[1], n)
        \/ /\ 1 \in DOMAIN pkgs /\ 2 \in DOMAIN pkgs
           /\ \E n \in 1..Cores, m \in 1..Cores : d = Copies(pkgs[1], n) \o Copies(pkgs[2], m)
    BY <1>2 DEF Deliveries
  <2> QED
    BY <2>3, <2>4, <2>5, <2>6
<1> QED
  BY <1>1, <1>2 DEF Sent

-----------------------------------------------------------------------------
(* The inductive invariant.  CommittedStateStored and SignedTransitions    *)
(* are about what accumulation will find in reports nobody has looked at   *)
(* yet, so what they promise of client_root is followed back through       *)
(* reports and segments to the packages.                                   *)

IsStored(l) == \E b \in Builders : l \in files[b]

\* A package that carries operations comes from a stored ledger, and the ledger
\* its operations lead to is stored.
StoredPackages ==
  {p \in Package : p.execution # "Deferred" =>
     IsStored(p.witness) /\ IsStored(Transition(p.witness, p.operations))}

\* So does a segment, whose operations were verified before it was exported.
StoredSegments ==
  {s \in [witness : LedgerState, operations : Verified] :
     IsStored(s.witness) /\ IsStored(Transition(s.witness, s.operations))}

\* A report leads to a stored ledger, by a verified batch or by none.
StoredReports ==
  {rep \in Reports(LedgerState) : rep.ok => IsStored(rep.new_root) /\ ReportsBatch(Verified, rep)}

RollupInv ==
  /\ heads \in [Builders -> LedgerState]
  /\ files \in [Builders -> SUBSET LedgerState]
  /\ runs \in 0..MaxRuns
  /\ packages \in Seq(StoredPackages)
  /\ DOMAIN segments \subseteq 1..MaxRuns
  /\ \A r \in DOMAIN segments : segments[r] \in StoredSegments
  /\ reports \in Seq(StoredReports)
  /\ Lawful(client_root)
  /\ IsStored(client_root)

\* A batch that passes verify_operations is a batch.
LEMMA VerifiedFacts ==
  \A b \in Verified : b \in Batches /\ b \in Seq(SignedOperation) /\ VerifyOperations(b)
BY RollupAssumption DEF Verified

\* Nothing waits at the beginning, and every builder has the empty ledger.
LEMMA InitRollup == Init => RollupInv
<1> SUFFICES ASSUME Init PROVE RollupInv
  OBVIOUS
<1>1. Lawful(EmptyLedger) /\ EmptyLedger \in LedgerState
  BY EmptyLawful DEF Lawful
<1>2. heads \in [Builders -> LedgerState] /\ files \in [Builders -> SUBSET LedgerState]
  BY <1>1 DEF Init
<1>3. IsStored(client_root) /\ Lawful(client_root)
  BY <1>1, RollupAssumption DEF Init, IsStored
<1>4. runs \in 0..MaxRuns /\ DOMAIN segments = {}
  BY RollupAssumption DEF Init
<1>5. packages \in Seq(StoredPackages) /\ reports \in Seq(StoredReports)
  BY DEF Init
<1> QED
  BY <1>2, <1>3, <1>4, <1>5 DEF RollupInv

\* A run stores the ledger its packages lead to.
LEMMA RunStep ==
  ASSUME RollupInv, NEW b \in Builders, NEW from \in files[b], NEW batch \in Batches,
         NEW segment \in BOOLEAN, Run(b, from, batch, segment)
  PROVE  RollupInv'
<1> DEFINE new == Transition(from, batch)
           pkgs == PackagesOf(runs + 1, from, batch, segment)
<1>1. from \in LedgerState /\ new \in LedgerState
  BY TransitionType, RollupAssumption DEF RollupInv
<1>2. /\ files' = [files EXCEPT ![b] = @ \cup {new}]
      /\ heads' = [heads EXCEPT ![b] = new]
      /\ runs < MaxRuns /\ runs' = runs + 1
      /\ UNCHANGED <<segments, reports, client_root>>
  BY DEF Run
<1>3. PICK d \in Sent(pkgs) : packages' = packages \o d
  BY DEF Run
<1> HIDE DEF new
<1>4. heads' \in [Builders -> LedgerState] /\ files' \in [Builders -> SUBSET LedgerState]
  BY <1>1, <1>2 DEF RollupInv
<1>5. runs + 1 \in 1..MaxRuns /\ runs' \in 0..MaxRuns
  BY <1>2, RollupAssumption DEF RollupInv
<1>6. \A l : IsStored(l) => IsStored(l)'
  <2>1. \A c \in Builders : files[c] \subseteq files'[c]
    BY <1>2 DEF RollupInv
  <2> QED
    BY <2>1 DEF IsStored
<1>7. IsStored(from)' /\ IsStored(new)'
  <2>1. from \in files'[b] /\ new \in files'[b]
    BY <1>2 DEF RollupInv
  <2> QED
    BY <2>1 DEF IsStored
<1>8. StoredPackages \subseteq StoredPackages' /\ StoredReports \subseteq StoredReports'
  BY <1>6 DEF StoredPackages, StoredReports
<1>9. packages' \in Seq(StoredPackages')
  <2>1. pkgs \in Seq(StoredPackages')
    <3> DEFINE p(e) == [run |-> runs + 1, execution |-> e, witness |-> from, operations |-> batch]
               q == [run |-> runs + 1, execution |-> "Deferred"]
    <3>1. \A e \in {"Immediate", "Deferring"} : p(e) \in StoredPackages'
      BY <1>1, <1>5, <1>7 DEF StoredPackages, Package, new
    <3>2. q \in StoredPackages'
      BY <1>5 DEF StoredPackages, Package
    <3>3. pkgs = IF segment THEN <<p("Deferring"), q>> ELSE <<p("Immediate")>>
      BY DEF PackagesOf
    <3> HIDE DEF p, q, pkgs
    <3>4. <<p("Deferring"), q>> \in Seq(StoredPackages') /\ <<p("Immediate")>> \in Seq(StoredPackages')
      BY <3>1, <3>2
    <3> QED
      BY <3>3, <3>4
  <2> HIDE DEF pkgs
  <2>2. d \in Seq(StoredPackages')
    BY <1>3, <2>1, SentType
  <2>3. packages \in Seq(StoredPackages')
    BY <1>8, SeqGrows DEF RollupInv
  <2> QED
    BY <1>3, <2>2, <2>3
<1>10. reports' \in Seq(StoredReports')
  BY <1>2, <1>8, SeqGrows DEF RollupInv
<1>11. \A r \in DOMAIN segments' : segments'[r] \in StoredSegments'
  BY <1>2, <1>6 DEF RollupInv, StoredSegments
<1>12. Lawful(client_root)' /\ IsStored(client_root)'
  BY <1>2, <1>6 DEF RollupInv
<1> QED
  BY <1>2, <1>4, <1>5, <1>9, <1>10, <1>11, <1>12 DEF RollupInv

\* The parts of an output.
LEMMA OutputFields ==
  ASSUME NEW p, NEW q
  PROVE  /\ Output(p, q).previous_root = p /\ Output(p, q).new_root = q
         /\ p \in LedgerState /\ q \in LedgerState => Output(p, q) \in Reports(LedgerState)
<1>1. Output(p, q).previous_root = p /\ Output(p, q).new_root = q
  BY DEF Output
<1>2. p \in LedgerState /\ q \in LedgerState => Output(p, q) \in Reports(LedgerState)
  BY DEF Reports
<1> QED
  BY <1>1, <1>2

\* A package is refined into a report of a verified batch: for Deferred, whose
\* operations nobody verifies, because only verified ones were exported.
LEMMA RefineTransitionFacts ==
  ASSUME RollupInv, NEW p \in StoredPackages
  PROVE  /\ RefineTransition(p) \in StoredReports
         /\ p.execution = "Deferring" /\ RefineTransition(p).ok =>
              [witness |-> p.witness, operations |-> p.operations] \in StoredSegments
<1>1. /\ p.run \in 1..MaxRuns /\ p.execution \in {"Immediate", "Deferring", "Deferred"}
      /\ p.execution # "Deferred" => /\ p.witness \in LedgerState /\ p.operations \in Batches
                                     /\ IsStored(p.witness)
                                     /\ IsStored(Transition(p.witness, p.operations))
  BY DEF StoredPackages, Package
<1>2. NoOutput \in StoredReports /\ ~NoOutput.ok
  BY DEF StoredReports, Reports, NoOutput
<1>3. ASSUME NEW w \in LedgerState, NEW ops \in Verified, IsStored(Transition(w, ops))
      PROVE  Output(w, Transition(w, ops)) \in StoredReports
  <2>1. Transition(w, ops) \in LedgerState
    BY VerifiedFacts, TransitionType
  <2>2. ReportsBatch(Verified, Output(w, Transition(w, ops)))
    BY OutputFields DEF ReportsBatch
  <2> QED
    BY <1>3, <2>1, <2>2, OutputFields DEF StoredReports
<1>4. ASSUME NEW w \in LedgerState, IsStored(w)
      PROVE  Output(w, w) \in StoredReports
  <2>1. ReportsBatch(Verified, Output(w, w))
    BY OutputFields DEF ReportsBatch
  <2> QED
    BY <1>4, <2>1, OutputFields DEF StoredReports
<1>5. CASE p.execution = "Deferred"
  <2>1. CASE p.run \in DOMAIN segments
    <3> DEFINE s == segments[p.run]
    <3>1. s.witness \in LedgerState /\ s.operations \in Verified /\ IsStored(Transition(s.witness, s.operations))
      BY <2>1 DEF RollupInv, StoredSegments
    <3>2. RefineTransition(p) = Output(s.witness, Transition(s.witness, s.operations))
      BY <1>5, <2>1 DEF RefineTransition
    <3> HIDE DEF s
    <3> QED
      BY <1>3, <1>5, <3>1, <3>2
  <2>2. CASE p.run \notin DOMAIN segments
    <3>1. RefineTransition(p) = NoOutput
      BY <1>5, <2>2 DEF RefineTransition
    <3> QED
      BY <1>2, <1>5, <3>1
  <2> QED
    BY <2>1, <2>2
<1>6. CASE p.execution # "Deferred" /\ VerifyOperations(p.operations)
  <2>1. p.operations \in Verified
    BY <1>1, <1>6 DEF Verified
  <2>2. RefineTransition(p) = IF p.execution = "Immediate"
                              THEN Output(p.witness, Transition(p.witness, p.operations))
                              ELSE Output(p.witness, p.witness)
    BY <1>1, <1>6 DEF RefineTransition
  <2>3. [witness |-> p.witness, operations |-> p.operations] \in StoredSegments
    BY <1>1, <1>6, <2>1 DEF StoredSegments
  <2> QED
    BY <1>1, <1>3, <1>4, <1>6, <2>1, <2>2, <2>3
<1>7. CASE p.execution # "Deferred" /\ ~VerifyOperations(p.operations)
  <2>1. RefineTransition(p) = NoOutput
    BY <1>1, <1>7 DEF RefineTransition
  <2> QED
    BY <1>2, <2>1
<1> QED
  BY <1>5, <1>6, <1>7

\* Refinement, also one that fails.
LEMMA RefineStep ==
  ASSUME RollupInv, NEW i \in DOMAIN packages, Refine(i)
  PROVE  RollupInv'
<1> DEFINE p == packages[i]
<1>1. p \in StoredPackages
  BY DEF RollupInv
<1>2. PICK output \in {RefineTransition(p), NoOutput} :
        /\ packages' = RemoveAt(packages, i)
        /\ reports' = Append(reports, output)
        /\ segments' = Exported(p, output)
        /\ UNCHANGED <<heads, files, runs, client_root>>
  BY DEF Refine
<1> HIDE DEF p
<1>3. NoOutput \in StoredReports /\ ~NoOutput.ok
  BY DEF StoredReports, Reports, NoOutput
<1>4. output \in StoredReports
  BY <1>1, <1>2, <1>3, RefineTransitionFacts
<1>5. /\ StoredPackages' = StoredPackages /\ StoredReports' = StoredReports
      /\ StoredSegments' = StoredSegments
  BY <1>2 DEF StoredPackages, StoredReports, StoredSegments, IsStored
<1>6. packages' \in Seq(StoredPackages')
  BY <1>2, <1>5, RemoveAtType DEF RollupInv
<1>7. reports' \in Seq(StoredReports')
  BY <1>2, <1>4, <1>5 DEF RollupInv
<1>8. DOMAIN segments' \subseteq 1..MaxRuns /\ \A r \in DOMAIN segments' : segments'[r] \in StoredSegments'
  <2>1. CASE p.execution = "Deferring" /\ output.ok
    <3> DEFINE seg == [witness |-> p.witness, operations |-> p.operations]
    <3>1. seg \in StoredSegments
      BY <1>1, <1>2, <1>3, <2>1, RefineTransitionFacts
    <3>2. p.run \in 1..MaxRuns
      BY <1>1 DEF StoredPackages, Package
    <3> HIDE DEF seg
    <3>3. segments' = [r \in DOMAIN segments \cup {p.run} |-> IF r = p.run THEN seg ELSE segments[r]]
      BY <1>2, <2>1 DEF Exported, seg
    <3> QED
      BY <1>5, <3>1, <3>2, <3>3 DEF RollupInv
  <2>2. CASE ~(p.execution = "Deferring" /\ output.ok)
    BY <1>2, <1>5, <2>2 DEF Exported, RollupInv
  <2> QED
    BY <2>1, <2>2
<1>9. Lawful(client_root)' /\ IsStored(client_root)'
  BY <1>2 DEF RollupInv, IsStored
<1> QED
  BY <1>2, <1>6, <1>7, <1>8, <1>9 DEF RollupInv

\* A group of waiting reports.
LEMMA ChosenFacts ==
  ASSUME RollupInv, NEW s \in Selections
  PROVE  \E n \in 1..MaxItems :
           /\ Len(Chosen(s)) = n
           /\ \A i \in 1..n : Chosen(s)[i] \in StoredReports
<1>1. PICK n \in 1..MaxItems : n <= Len(reports) /\ s \in [1..n -> DOMAIN reports]
  <2>1. PICK n \in 1..MaxItems :
          /\ n <= Len(reports)
          /\ s \in IF Orderly THEN {[i \in 1..n |-> i]}
                   ELSE {t \in [1..n -> DOMAIN reports] : IsInjective(t)}
    BY DEF Selections
  <2>2. [i \in 1..n |-> i] \in [1..n -> DOMAIN reports]
    BY <2>1, RollupAssumption DEF RollupInv
  <2> QED
    BY <2>1, <2>2
<1>2. n \in Nat /\ Chosen(s) = [i \in 1..n |-> reports[s[i]]]
  BY <1>1, RollupAssumption DEF Chosen
<1>3. \A i \in 1..n : reports[s[i]] \in StoredReports
  BY <1>1 DEF RollupInv
<1>4. Len(Chosen(s)) = n /\ \A i \in 1..n : Chosen(s)[i] \in StoredReports
  BY <1>2, <1>3
<1> QED
  BY <1>4

\* The commitment after a group of reports.
LEMMA AccumulatedFacts ==
  ASSUME RollupInv, NEW s \in Selections, NEW new, new = Accumulated(client_root, Chosen(s))
  PROVE  IsStored(new) /\ \E bs \in BoundedSeq(Verified, MaxItems) : new = Transitions(client_root, bs)
<1>1. PICK n \in 1..MaxItems : Len(Chosen(s)) = n /\ \A i \in 1..n : Chosen(s)[i] \in StoredReports
  BY ChosenFacts
<1> DEFINE items == Chosen(s)
<1> HIDE DEF items
<1>2. n \in Nat /\ client_root \in LedgerState
  BY <1>1, RollupAssumption DEF RollupInv, Lawful
<1>3. \A i \in 1..n : /\ items[i] \in Reports(LedgerState)
                      /\ items[i].ok => IsStored(items[i].new_root) /\ ReportsBatch(Verified, items[i])
  BY <1>1 DEF items, StoredReports
<1>4. Len(items) = n /\ new = Accumulated(client_root, items)
  BY <1>1 DEF items
<1>5. /\ \/ new = client_root
         \/ \E i \in 1..n : items[i].ok /\ new = items[i].new_root
      /\ \E bs \in BoundedSeq(Verified, n) : new = Transitions(client_root, bs)
  <2>1. \A b \in Verified : b \in Seq(SignedOperation)
    BY VerifiedFacts
  <2>2. /\ \A i \in 1..n : items[i] \in Reports(LedgerState)
        /\ \A i \in 1..n : items[i].ok => ReportsBatch(Verified, items[i])
    BY <1>3
  <2> DEFINE V == Verified
  <2> HIDE DEF V
  <2>3. /\ \/ Accumulated(client_root, items) = client_root
           \/ \E i \in 1..n : items[i].ok /\ Accumulated(client_root, items) = items[i].new_root
        /\ \E bs \in BoundedSeq(V, n) : Accumulated(client_root, items) = Transitions(client_root, bs)
    <3>1. /\ \A b \in V : b \in Seq(SignedOperation)
          /\ \A i \in 1..n : items[i].ok => ReportsBatch(V, items[i])
      BY <2>1, <2>2 DEF V
    <3>2. Len(items) = n
      BY <1>4
    <3> QED
      BY <1>2, <2>2, <3>1, <3>2, AccumulatedSteps
  <2> QED
    BY <1>4, <2>3 DEF V
<1>6. BoundedSeq(Verified, n) \subseteq BoundedSeq(Verified, MaxItems)
  <2>1. 0..n \subseteq 0..MaxItems
    BY RollupAssumption
  <2> QED
    BY <2>1 DEF BoundedSeq, SeqOf
<1>7. IsStored(new)
  BY <1>3, <1>5 DEF RollupInv
<1> QED
  BY <1>5, <1>6, <1>7

\* No batch at all leaves the commitment where it is.
LEMMA NothingMoves ==
  ASSUME RollupInv
  PROVE  \E bs \in BoundedSeq(Verified, MaxItems) : client_root = Transitions(client_root, bs)
<1> DEFINE e == [i \in 1..0 |-> {}]
<1>1. e \in [1..0 -> Verified]
  OBVIOUS
<1> HIDE DEF e
<1>2. e \in BoundedSeq(Verified, MaxItems)
  <2>1. 0 \in 0..MaxItems
    BY RollupAssumption
  <2> QED
    BY <1>1, <2>1 DEF BoundedSeq, SeqOf
<1>3. client_root \in LedgerState /\ \A b \in Verified : b \in Seq(SignedOperation)
  BY VerifiedFacts DEF RollupInv, Lawful
<1>4. Transitions(client_root, e) = client_root
  BY <1>1, <1>3, TransitionsStep
<1> QED
  BY <1>2, <1>4

\* The commitment moves along verified batches only, whichever reports the
\* chain passes on and whether the invocation succeeds.
LEMMA AccumulateMoves ==
  ASSUME RollupInv, NEW s \in Selections, Accumulate(s)
  PROVE  IsStored(client_root') /\ \E bs \in BoundedSeq(Verified, MaxItems) :
                                   client_root' = Transitions(client_root, bs)
<1>1. CASE client_root' = Accumulated(client_root, Chosen(s))
  BY <1>1, AccumulatedFacts
<1>2. CASE client_root' = client_root
  BY <1>2, NothingMoves DEF RollupInv
<1> QED
  BY <1>1, <1>2 DEF Accumulate

\* So the ledger it commits to is followed by a lawful successor.
LEMMA MovesFollow ==
  ASSUME RollupInv, NEW bs \in BoundedSeq(Verified, MaxItems)
  PROVE  Follows(client_root, Transitions(client_root, bs))
<1>1. PICK n \in 0..MaxItems : bs \in [1..n -> Verified]
  BY DEF BoundedSeq, SeqOf
<1>2. n \in Nat
  BY RollupAssumption
<1>3. Lawful(client_root)
  BY DEF RollupInv
<1> QED
  BY <1>1, <1>2, <1>3, VerifiedFacts, TransitionsFollow

\* An accumulation takes reports away and moves the commitment.
LEMMA AccumulateStep ==
  ASSUME RollupInv, NEW s \in Selections, Accumulate(s)
  PROVE  RollupInv'
<1>1. UNCHANGED <<heads, files, runs, packages, segments>> /\ reports' = Waiting(ToSet(s))
  BY DEF Accumulate
<1>2. /\ StoredPackages' = StoredPackages /\ StoredReports' = StoredReports
      /\ StoredSegments' = StoredSegments
  BY <1>1 DEF StoredPackages, StoredReports, StoredSegments, IsStored
<1>3. reports' \in Seq(StoredReports')
  BY <1>1, <1>2, WaitingType DEF RollupInv
<1>4. IsStored(client_root)' /\ Lawful(client_root)'
  <2>1. PICK bs \in BoundedSeq(Verified, MaxItems) : client_root' = Transitions(client_root, bs)
    BY AccumulateMoves
  <2>2. Lawful(client_root')
    BY <2>1, MovesFollow DEF Follows
  <2>3. IsStored(client_root')
    BY AccumulateMoves
  <2> QED
    BY <1>1, <2>2, <2>3 DEF IsStored
<1> QED
  BY <1>1, <1>2, <1>3, <1>4 DEF RollupInv

\* What the invariant is about is unchanged.
LEMMA StutterStep == RollupInv /\ UNCHANGED vars => RollupInv'
<1> SUFFICES ASSUME RollupInv, UNCHANGED vars PROVE RollupInv'
  OBVIOUS
<1>1. UNCHANGED <<heads, files, runs, packages, segments, reports, client_root>>
  BY DEF vars
<1>2. /\ StoredPackages' = StoredPackages /\ StoredReports' = StoredReports
      /\ StoredSegments' = StoredSegments
  BY <1>1 DEF StoredPackages, StoredReports, StoredSegments, IsStored
<1> QED
  BY <1>1, <1>2 DEF RollupInv, IsStored

-----------------------------------------------------------------------------
(* The theorems. *)

\* Whatever waits in the chain is signed, and leads from a stored ledger to a
\* stored one: packages, segments, reports and the commitment itself.
THEOREM RollupInvariance == Spec => []RollupInv
<1>1. Init => RollupInv
  BY InitRollup
<1>2. RollupInv /\ [Next]_vars => RollupInv'
  <2> SUFFICES ASSUME RollupInv, [Next]_vars PROVE RollupInv'
    OBVIOUS
  <2>1. CASE \E b \in Builders, batch \in Batches, segment \in BOOLEAN :
               \E from \in files[b] : Run(b, from, batch, segment)
    BY <2>1, RunStep
  <2>2. CASE \E i \in DOMAIN packages : Refine(i)
    BY <2>2, RefineStep
  <2>3. CASE \E s \in Selections : Accumulate(s)
    BY <2>3, AccumulateStep
  <2>4. CASE UNCHANGED vars
    BY <2>4, StutterStep
  <2> QED
    BY <2>1, <2>2, <2>3, <2>4 DEF Next
<1> QED
  BY <1>1, <1>2, PTL DEF Spec

\* The variables keep their types, whatever the chain loses or repeats.
THEOREM RollupTypes == Spec => []TypeOK
<1>1. RollupInv => TypeOK
  <2> SUFFICES ASSUME RollupInv PROVE TypeOK
    OBVIOUS
  <2>1. /\ heads \in [Builders -> LedgerState] /\ runs \in 0..MaxRuns
        /\ \A b \in Builders : files[b] \subseteq LedgerState
    BY DEF RollupInv
  <2>2. packages \in Seq(Package)
    BY SeqGrows DEF RollupInv, StoredPackages
  <2>3. /\ DOMAIN segments \subseteq 1..MaxRuns
        /\ \A r \in DOMAIN segments : segments[r] \in [witness : LedgerState, operations : Batches]
    BY VerifiedFacts DEF RollupInv, StoredSegments
  <2>4. \A i \in DOMAIN reports :
          reports[i] = NoOutput \/ reports[i] = Output(reports[i].previous_root, reports[i].new_root)
    <3> TAKE i \in DOMAIN reports
    <3>1. reports[i] \in Reports(LedgerState)
      BY DEF RollupInv, StoredReports
    <3>2. CASE reports[i] = NoOutput
      BY <3>2
    <3>3. CASE \E p \in LedgerState, q \in LedgerState : reports[i] = Output(p, q)
      BY <3>3, OutputFields
    <3> QED
      BY <3>1, <3>2, <3>3 DEF Reports
  <2>5. client_root \in LedgerState
    BY DEF RollupInv, Lawful
  <2> QED
    BY <2>1, <2>2, <2>3, <2>4, <2>5 DEF TypeOK
<1> QED
  BY <1>1, RollupInvariance, PTL

\* Some builder has stored the ledger the chain commits to, in every
\* interleaving of runs, refinements and accumulations, also failed ones.
THEOREM CommittedIsStored == Spec => []CommittedStateStored
<1>1. RollupInv => CommittedStateStored
  BY DEF RollupInv, IsStored, CommittedStateStored
<1> QED
  BY <1>1, RollupInvariance, PTL

\* Any group of reports that could be accumulated takes effect as a whole, when
\* it is a chain that starts at the commitment, or not at all.
THEOREM GroupsAreAtomic == Spec => []AllOrNothing
<1>1. RollupInv => AllOrNothing
  <2> SUFFICES ASSUME RollupInv, NEW s \in Selections
               PROVE  Accumulated(client_root, Chosen(s)) =
                        IF ChainedTo(client_root, Chosen(s), Len(Chosen(s)))
                        THEN EndOf(client_root, Chosen(s), Len(Chosen(s)))
                        ELSE client_root
    BY DEF AllOrNothing, ChainedTo, EndOf, OksTo
  <2>1. PICK n \in 1..MaxItems : Len(Chosen(s)) = n /\ \A i \in 1..n : Chosen(s)[i] \in StoredReports
    BY ChosenFacts
  <2>2. n \in Nat /\ client_root \in LedgerState /\ \A i \in 1..n : Chosen(s)[i] \in Reports(LedgerState)
    BY <2>1, RollupAssumption DEF RollupInv, Lawful, StoredReports
  <2> QED
    BY <2>1, <2>2, AccumulatedChains
<1> QED
  BY <1>1, RollupInvariance, PTL

\* The commitment moves only by what verified batches do to the ledger it
\* committed to, whatever is lost, delayed, repeated, forked or reordered.
THEOREM CommitmentIsSigned == Spec => SignedTransitions
<1> DEFINE Moves == \E bs \in BoundedSeq(Verified, MaxItems) :
                      client_root' = Transitions(client_root, bs)
<1>1. RollupInv /\ [Next]_vars => [Moves]_vars
  <2> SUFFICES ASSUME RollupInv, Next PROVE Moves
    OBVIOUS
  <2>1. CASE \E s \in Selections : Accumulate(s)
    BY <2>1, AccumulateMoves
  <2>2. CASE client_root' = client_root
    BY <2>2, NothingMoves
  <2> QED
    BY <2>1, <2>2 DEF Next, Run, Refine
<1> QED
  BY <1>1, RollupInvariance, PTL DEF Spec, SignedTransitions

\* The ledger behind client_root implements TokenSupply: an existing
\* supply never changes on the chain, and a new one is positive.
THEOREM RollupRefinement == Spec => ImplementsTokenSupply
<1>1. Init => Supply!Init
  BY DEF Init, Supply!Init, EmptyLedger, Supply!EmptyLedger, Account, Supply!Account
<1>2. ASSUME RollupInv, [Next]_vars
      PROVE  [Supply!Next]_client_root
  <2>1. CASE \E s \in Selections : Accumulate(s)
    <3>1. PICK bs \in BoundedSeq(Verified, MaxItems) : client_root' = Transitions(client_root, bs)
      BY <1>2, <2>1, AccumulateMoves
    <3>2. Follows(client_root, client_root')
      BY <1>2, <3>1, MovesFollow
    <3>3. client_root' \in Supply!LedgerState
      <4>1. Supply!LedgerState = LedgerState
        BY Zenon DEF LedgerState, Supply!LedgerState, Account, Supply!Account,
                     U64, Supply!U64, U64Max, Supply!U64Max
      <4> QED
        BY <3>2, <4>1 DEF Follows, Lawful
    <3>4. \A b : Supply!Total(b) = Total(b)
      BY DEF Total, Supply!Total, SumTo, Supply!SumTo
    <3>5. Supply!U64Max = U64Max
      BY DEF U64Max, Supply!U64Max
    <3>6. Supply!Change(client_root, client_root')
      BY <3>2, <3>4, <3>5 DEF Supply!Change, Follows, Lawful
    <3> QED
      BY <3>3, <3>6 DEF Supply!Next
  <2>2. CASE ~\E s \in Selections : Accumulate(s)
    BY <1>2, <2>2 DEF Next, vars, Run, Refine
  <2> QED
    BY <2>1, <2>2
<1> QED
  BY <1>1, <1>2, RollupInvariance, PTL DEF Spec, ImplementsTokenSupply, Supply!Spec

=============================================================================
