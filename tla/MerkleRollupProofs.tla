------------------------- MODULE MerkleRollupProofs -------------------------
(***************************************************************************)
(* Proofs about MerkleRollup, for any number of builders, batches and      *)
(* cores and a tree of any depth, as long as every key has the index of a  *)
(* leaf (LowIndices): builders that share nothing agree on what a root     *)
(* stands for, and the service gets through every package they send.       *)
(***************************************************************************)
EXTENDS MerkleRollup, OperatorProofs

\* What builder b has under a root, and where a batch leads from there.
Loaded(b, r) == LoadFile(files[b][r])
Ended(b, r, batch) == TransitionOn(Loaded(b, r), batch)

\* A state file has the root in its name, and the ledger that root stands for.
FileInv(b, r) ==
  /\ FileOK(files[b][r]) /\ RootOf(Loaded(b, r)) = r
  /\ r \in DOMAIN meaning /\ meaning[r] = LedgerOf(Loaded(b, r))

\* A package has the witness of a run, both ends of which its builder has stored.
FromRun(p) ==
  \E b \in Builders : \E r \in DOMAIN files[b] :
    /\ p.operations \in Batches
    /\ p.witness = TakeWitness(Ended(b, r, p.operations), files[b][r].tokens)
    /\ ~Ended(b, r, p.operations).panicked
    /\ RootOf(Ended(b, r, p.operations)) \in DOMAIN files[b]

Inv ==
  /\ files = [b \in Builders |-> files[b]]
  /\ \A b \in Builders : \A r \in DOMAIN files[b] : FileInv(b, r)
  /\ \A r \in DOMAIN meaning : \E b \in Builders : r \in DOMAIN files[b]
  /\ \E S : packages \in Seq(S) /\ \A p \in S : p.execution = "Deferred" \/ FromRun(p)

LEMMA InitInv ==
  ASSUME LowIndices, Init
  PROVE  Inv
<1> DEFINE g == GenesisFile
           fs == [r \in {EMPTY_HASH} |-> g]
<1>1. FileOK(g) /\ RootOf(LoadFile(g)) = EMPTY_HASH /\ LedgerOf(LoadFile(g)) = EmptyLedger
  BY GenesisFacts, GenesisLedger
<1>2. files = [b \in Builders |-> fs] /\ packages = <<>>
  BY DEF Init
<1>3. meaning = [r \in {EMPTY_HASH} |-> EmptyLedger]
  BY DEF Init
<1> HIDE DEF g
<1>4. DOMAIN fs = {EMPTY_HASH} /\ fs[EMPTY_HASH] = g
  OBVIOUS
<1>5. DOMAIN meaning = {EMPTY_HASH} /\ meaning[EMPTY_HASH] = EmptyLedger
  BY <1>3
<1> HIDE DEF fs
<1>6. /\ files = [b \in Builders |-> files[b]]
      /\ \A b \in Builders : DOMAIN files[b] = {EMPTY_HASH} /\ files[b][EMPTY_HASH] = g
  BY <1>2, <1>4
<1>7. \A b \in Builders : \A r \in DOMAIN files[b] : FileInv(b, r)
  BY <1>1, <1>5, <1>6 DEF FileInv, Loaded
<1>8. \A r \in DOMAIN meaning : \E b \in Builders : r \in DOMAIN files[b]
  BY <1>5, <1>6, MerkleRollupAssumption
<1>9. packages \in Seq({}) /\ \A p \in {} : p.execution = "Deferred" \/ FromRun(p)
  BY <1>2
<1> QED
  BY <1>6, <1>7, <1>8, <1>9 DEF Inv

\* What a run finds and leaves.
LEMMA RunFacts ==
  ASSUME LowIndices, Inv, NEW b \in Builders, NEW from \in DOMAIN files[b], NEW batch \in Batches,
         NEW checks, NEW new, new = TransitionIn(Loaded(b, from), batch, checks),
         NEW f, f = [key_values |-> new.tree.key_values, tokens |-> new.tokens]
  PROVE  /\ batch \in Seq(SignedOperation) /\ StateOK(new)
         /\ ~new.panicked => new = Ended(b, from, batch)
         /\ Loaded(b, from).tokens = files[b][from].tokens
         /\ FileOK(f) /\ RootOf(LoadFile(f)) = RootOf(new) /\ LedgerOf(LoadFile(f)) = LedgerOf(new)
<1>1. batch \in Seq(SignedOperation)
  BY MerkleRollupAssumption
<1>2. FileOK(files[b][from])
  BY DEF Inv, FileInv
<1>3. StateOK(Loaded(b, from)) /\ Loaded(b, from).tokens = files[b][from].tokens
  BY <1>2, LoadFacts DEF Loaded
<1>4. StateOK(new) /\ (~new.panicked => new = Ended(b, from, batch))
  BY <1>1, <1>3, ChecksOnlyPanic DEF Ended
<1>5. FileOK(f) /\ RootOf(LoadFile(f)) = RootOf(new)
  BY <1>4, Reload
<1>6. f.key_values = new.tree.key_values /\ f.tokens = new.tokens
  OBVIOUS
<1>7. LoadFile(f).tree.key_values = new.tree.key_values /\ LoadFile(f).tokens = new.tokens
  BY <1>5, <1>6, LoadFacts
<1>8. LedgerOf(LoadFile(f)) = LedgerOf(new)
  BY <1>7, SameEntries
<1> QED
  BY <1>1, <1>3, <1>4, <1>5, <1>8

\* A root that somebody has stored stands for the ledger of every state that has it.
LEMMA MeaningOfRoot ==
  ASSUME LowIndices, Inv, NEW c, StateOK(c), RootOf(c) \in DOMAIN meaning
  PROVE  meaning[RootOf(c)] = LedgerOf(c)
<1>1. PICK b \in Builders : RootOf(c) \in DOMAIN files[b]
  BY DEF Inv
<1> DEFINE r == RootOf(c)
           o == Loaded(b, r)
<1>2. FileOK(files[b][r]) /\ RootOf(o) = r /\ meaning[r] = LedgerOf(o)
  BY <1>1 DEF Inv, FileInv
<1>3. StateOK(o)
  BY <1>2, LoadFacts DEF Loaded
<1>4. RootOf(o) = RootOf(c)
  BY <1>2
<1> HIDE DEF o
<1>5. o.tokens = c.tokens /\ o.tree.key_values = c.tree.key_values
  BY <1>3, <1>4, RootCommits
<1> QED
  BY <1>2, <1>5, SameEntries

\* State files are only added.
FilesGrow ==
  /\ files' = [b \in Builders |-> files'[b]]
  /\ \A b \in Builders : \A r \in DOMAIN files[b] : r \in DOMAIN files'[b] /\ files'[b][r] = files[b][r]

LEMMA FromRunStays ==
  ASSUME FilesGrow, NEW p, FromRun(p)
  PROVE  FromRun(p)'
<1>0. PICK b \in Builders :
        \E r \in DOMAIN files[b] :
          /\ p.operations \in Batches
          /\ p.witness = TakeWitness(Ended(b, r, p.operations), files[b][r].tokens)
          /\ ~Ended(b, r, p.operations).panicked
          /\ RootOf(Ended(b, r, p.operations)) \in DOMAIN files[b]
  BY DEF FromRun
<1>1. PICK r \in DOMAIN files[b] :
        /\ p.operations \in Batches
        /\ p.witness = TakeWitness(Ended(b, r, p.operations), files[b][r].tokens)
        /\ ~Ended(b, r, p.operations).panicked
        /\ RootOf(Ended(b, r, p.operations)) \in DOMAIN files[b]
  BY <1>0
<1>2. /\ r \in DOMAIN files'[b] /\ files'[b][r] = files[b][r]
      /\ RootOf(Ended(b, r, p.operations)) \in DOMAIN files'[b]
  BY <1>1 DEF FilesGrow
<1>3. Ended(b, r, p.operations)' = Ended(b, r, p.operations)
  BY <1>2 DEF Ended, Loaded
<1>4. /\ r \in DOMAIN files'[b] /\ p.operations \in Batches
      /\ p.witness = TakeWitness(Ended(b, r, p.operations)', files'[b][r].tokens)
      /\ ~(Ended(b, r, p.operations)').panicked
      /\ RootOf(Ended(b, r, p.operations)') \in DOMAIN files'[b]
  BY <1>1, <1>2, <1>3
<1> QED
  BY <1>4 DEF FromRun

\* What the chain gets are packages of the run.
LEMMA DeliveriesType ==
  ASSUME NEW S, NEW pkgs \in Seq(S), NEW d \in Deliveries(pkgs)
  PROVE  d \in Seq(S)
<1>1. \A p \in S, n \in 1..Cores : Copies(p, n) \in Seq(S)
  BY WorkPackagesAssumption DEF Copies
<1>2. \A i \in DOMAIN pkgs : pkgs[i] \in S
  OBVIOUS
<1>3. \/ d = <<>>
      \/ 1 \in DOMAIN pkgs /\ \E n \in 1..Cores : d = Copies(pkgs[1], n)
      \/ /\ 1 \in DOMAIN pkgs /\ 2 \in DOMAIN pkgs
         /\ \E n \in 1..Cores, m \in 1..Cores : d = Copies(pkgs[1], n) \o Copies(pkgs[2], m)
  BY DEF Deliveries
<1>4. CASE d = <<>>
  BY <1>4
<1>5. ASSUME 1 \in DOMAIN pkgs, NEW n \in 1..Cores, d = Copies(pkgs[1], n)
      PROVE  d \in Seq(S)
  BY <1>1, <1>2, <1>5
<1>6. ASSUME 1 \in DOMAIN pkgs, 2 \in DOMAIN pkgs, NEW n \in 1..Cores, NEW m \in 1..Cores,
             d = Copies(pkgs[1], n) \o Copies(pkgs[2], m)
      PROVE  d \in Seq(S)
  <2>1. Copies(pkgs[1], n) \in Seq(S) /\ Copies(pkgs[2], m) \in Seq(S)
    BY <1>1, <1>2, <1>6
  <2> QED
    BY <1>6, <2>1
<1> QED
  BY <1>3, <1>4, <1>5, <1>6

LEMMA RunInv ==
  ASSUME LowIndices, Inv, NEW b \in Builders, NEW from \in DOMAIN files[b], NEW batch \in Batches,
         NEW segment \in BOOLEAN, NEW checks \in BOOLEAN, Run(b, from, batch, segment, checks)
  PROVE  Inv'
<1> DEFINE new == TransitionIn(Loaded(b, from), batch, checks)
           f == [key_values |-> new.tree.key_values, tokens |-> new.tokens]
           x == RootOf(new)
           w == TakeWitness(new, files[b][from].tokens)
           pkgs == PackagesOf(runs + 1, w, batch, segment)
           fs == files[b]
           gs == FilesWith(files[b], new)
<1>1. /\ batch \in Seq(SignedOperation) /\ StateOK(new)
      /\ ~new.panicked => new = Ended(b, from, batch)
      /\ Loaded(b, from).tokens = files[b][from].tokens
      /\ FileOK(f) /\ RootOf(LoadFile(f)) = x /\ LedgerOf(LoadFile(f)) = LedgerOf(new)
  BY RunFacts
<1>2. /\ files' = [files EXCEPT ![b] = gs]
      /\ meaning' = [r \in DOMAIN meaning \cup {x} |->
                      IF r \in DOMAIN meaning THEN meaning[r] ELSE LedgerOf(new)]
  BY DEF Run, Loaded
<1>3. \E sent \in IF new.panicked THEN {<<>>} ELSE Deliveries(pkgs) : packages' = packages \o sent
  BY <1>1 DEF Run, Loaded
<1>4. gs = [r \in DOMAIN fs \cup {x} |-> IF r \in DOMAIN fs THEN fs[r] ELSE f]
  BY DEF FilesWith
<1>5. files = [c \in Builders |-> files[c]]
  BY DEF Inv
<1> HIDE DEF new, f, x, gs, w, pkgs
<1>6. /\ files' = [c \in Builders |-> files'[c]] /\ files'[b] = gs
      /\ \A c \in Builders : c # b => files'[c] = files[c]
  BY <1>2, <1>5
<1>7. /\ DOMAIN gs = DOMAIN files[b] \cup {x}
      /\ \A r \in DOMAIN files[b] : gs[r] = files[b][r]
      /\ x \notin DOMAIN files[b] => gs[x] = f
  BY <1>4
<1>8. /\ DOMAIN meaning' = DOMAIN meaning \cup {x}
      /\ \A r \in DOMAIN meaning : meaning'[r] = meaning[r]
      /\ x \notin DOMAIN meaning => meaning'[x] = LedgerOf(new)
  BY <1>2
<1>9. FilesGrow
  BY <1>6, <1>7 DEF FilesGrow
<1>10. x \in DOMAIN meaning' /\ meaning'[x] = LedgerOf(new)
  <2>1. CASE x \in DOMAIN meaning
    <3>1. meaning[x] = LedgerOf(new)
      BY <1>1, <2>1, MeaningOfRoot DEF x
    <3> QED
      BY <1>8, <2>1, <3>1
  <2>2. CASE x \notin DOMAIN meaning
    BY <1>8, <2>2
  <2> QED
    BY <2>1, <2>2
<1>11. ASSUME NEW c \in Builders, NEW r \in DOMAIN files'[c]
       PROVE  FileInv(c, r)'
  <2>1. CASE r \in DOMAIN files[c]
    <3>1. FileInv(c, r)
      BY <2>1 DEF Inv
    <3>2. files'[c][r] = files[c][r]
      BY <1>9, <2>1 DEF FilesGrow
    <3>3. meaning'[r] = meaning[r] /\ r \in DOMAIN meaning'
      BY <1>8, <3>1 DEF FileInv
    <3> QED
      BY <3>1, <3>2, <3>3 DEF FileInv, Loaded
  <2>2. CASE r \notin DOMAIN files[c]
    <3>1. c = b /\ r = x
      BY <1>6, <1>7, <2>2
    <3>2. files'[c][r] = f
      BY <1>6, <1>7, <2>2, <3>1
    <3> QED
      BY <1>1, <1>10, <3>1, <3>2 DEF FileInv, Loaded
  <2> QED
    BY <2>1, <2>2
<1>12. ASSUME NEW r \in DOMAIN meaning'
       PROVE  \E c \in Builders : r \in DOMAIN files'[c]
  <2>1. CASE r \in DOMAIN meaning
    BY <1>9, <2>1 DEF Inv, FilesGrow
  <2>2. CASE r = x
    BY <1>6, <1>7, <2>2
  <2> QED
    BY <1>8, <2>1, <2>2
<1>13. \E S : packages' \in Seq(S) /\ \A p \in S : p.execution = "Deferred" \/ FromRun(p)'
  <2>1. PICK S : packages \in Seq(S) /\ \A p \in S : p.execution = "Deferred" \/ FromRun(p)
    BY DEF Inv
  <2>2. \A p \in S : p.execution = "Deferred" \/ FromRun(p)'
    BY <1>9, <2>1, FromRunStays
  <2>3. CASE new.panicked
    <3>1. packages' = packages \o <<>>
      BY <1>3, <2>3
    <3>2. packages' \in Seq(S)
      BY <2>1, <3>1
    <3> QED
      BY <2>2, <3>2
  <2>4. CASE ~new.panicked
    <3> DEFINE p(e) == [run |-> runs + 1, execution |-> e, witness |-> w, operations |-> batch]
               q == [run |-> runs + 1, execution |-> "Deferred"]
               P == {p("Deferring"), p("Immediate"), q}
    <3>1. ASSUME NEW y, y.operations = batch, y.witness = w
          PROVE  FromRun(y)'
      <4>1. from \in DOMAIN files'[b] /\ files'[b][from] = files[b][from]
        BY <1>9 DEF FilesGrow
      <4>2. Ended(b, from, batch)' = new
        BY <1>1, <2>4, <4>1 DEF Ended, Loaded
      <4>3. /\ y.operations \in Batches
            /\ y.witness = TakeWitness(Ended(b, from, y.operations)', files'[b][from].tokens)
            /\ ~(Ended(b, from, y.operations)').panicked
            /\ RootOf(Ended(b, from, y.operations)') \in DOMAIN files'[b]
        BY <1>6, <1>7, <2>4, <3>1, <4>1, <4>2 DEF w, x
      <4> QED
        BY <4>1, <4>3 DEF FromRun
    <3>2. \A e : p(e).operations = batch /\ p(e).witness = w
      OBVIOUS
    <3>3. q.execution = "Deferred"
      OBVIOUS
    <3>4. pkgs = IF segment THEN <<p("Deferring"), q>> ELSE <<p("Immediate")>>
      BY DEF PackagesOf, pkgs
    <3> HIDE DEF p, q
    <3>5. pkgs \in Seq(P)
      <4>1. <<p("Deferring"), q>> \in Seq(P) /\ <<p("Immediate")>> \in Seq(P)
        OBVIOUS
      <4> QED
        BY <3>4, <4>1
    <3>6. \A y \in P : y.execution = "Deferred" \/ FromRun(y)'
      BY <3>1, <3>2, <3>3
    <3> HIDE DEF P
    <3>7. PICK sent \in Deliveries(pkgs) : packages' = packages \o sent
      BY <1>3, <2>4
    <3>8. sent \in Seq(P)
      BY <3>5, DeliveriesType
    <3>9. packages' \in Seq(S \cup P)
      <4>1. packages \in Seq(S \cup P) /\ sent \in Seq(S \cup P)
        BY <2>1, <3>8, SeqGrows
      <4> QED
        BY <3>7, <4>1
    <3>10. \A y \in S \cup P : y.execution = "Deferred" \/ FromRun(y)'
      BY <2>2, <3>6
    <3> QED
      BY <3>9, <3>10
  <2> QED
    BY <2>3, <2>4
<1> QED
  BY <1>6, <1>11, <1>12, <1>13 DEF Inv

\* The chain has nothing to do with the directories, and makes no packages.
LEMMA ChainInv ==
  ASSUME Inv, files' = files, meaning' = meaning, NEW S, packages' \in Seq(S),
         \A p \in S : p.execution = "Deferred" \/ FromRun(p)
  PROVE  Inv'
<1>1. \A b, r : FileInv(b, r)' <=> FileInv(b, r)
  BY DEF FileInv, Loaded
<1>2. \A p : FromRun(p)' <=> FromRun(p)
  BY DEF FromRun, Ended, Loaded
<1>3. /\ files' = [b \in Builders |-> files'[b]]
      /\ \A b \in Builders : \A r \in DOMAIN files'[b] : FileInv(b, r)'
      /\ \A r \in DOMAIN meaning' : \E b \in Builders : r \in DOMAIN files'[b]
  BY <1>1 DEF Inv
<1>4. packages' \in Seq(S) /\ \A p \in S : p.execution = "Deferred" \/ FromRun(p)'
  BY <1>2
<1> QED
  BY <1>3, <1>4 DEF Inv

LEMMA NextInv ==
  ASSUME LowIndices, Inv, [Next]_vars
  PROVE  Inv'
<1>1. PICK S : packages \in Seq(S) /\ \A p \in S : p.execution = "Deferred" \/ FromRun(p)
  BY DEF Inv
<1>2. ASSUME NEW b \in Builders, NEW batch \in Batches, NEW segment \in BOOLEAN, NEW checks \in BOOLEAN,
             NEW from \in DOMAIN files[b], Run(b, from, batch, segment, checks)
      PROVE  Inv'
  BY <1>2, RunInv
<1>3. ASSUME NEW i \in DOMAIN packages, Refine(i) PROVE Inv'
  <2>1. packages' = RemoveAt(packages, i) /\ files' = files /\ meaning' = meaning
    BY <1>3 DEF Refine
  <2>2. packages' \in Seq(S)
    BY <1>1, <2>1, RemoveAtType
  <2> QED
    BY <1>1, <2>1, <2>2, ChainInv
<1>4. ASSUME NEW s \in Selections, Accumulate(s) PROVE Inv'
  <2>1. packages' = packages /\ files' = files /\ meaning' = meaning
    BY <1>4 DEF Accumulate
  <2> QED
    BY <1>1, <2>1, ChainInv
<1>5. CASE UNCHANGED vars
  <2>1. packages' = packages /\ files' = files /\ meaning' = meaning
    BY <1>5 DEF vars
  <2> QED
    BY <1>1, <2>1, ChainInv
<1> QED
  BY <1>2, <1>3, <1>4, <1>5 DEF Next

\* Whatever runs, refinements and accumulations follow each other, state files
\* have the root they are named after and packages the witness of a run between
\* stored states.
THEOREM MerkleInvariance ==
  ASSUME LowIndices
  PROVE  Spec => []Inv
<1>1. Init => Inv
  BY InitInv
<1>2. Inv /\ [Next]_vars => Inv'
  BY NextInv
<1> QED
  BY <1>1, <1>2, PTL DEF Spec

\* Two builders that store a state under the same root, whatever batches led each
\* of them there, load the same ledger from it: HashPair, the leaves and the list
\* of tokens leave nothing out.
THEOREM RootsStandForLedgers ==
  ASSUME LowIndices
  PROVE  Spec => []RootsAgree
<1>1. Inv => RootsAgree
  BY DEF Inv, FileInv, Loaded, RootsAgree
<1> QED
  BY <1>1, MerkleInvariance, PTL

\* The witness of every package under way loads in refine_transition, and
\* executing its batch leads from the root of a stored state to that of one,
\* unless the batch comes back to a leaf after creating its entry.
THEOREM PackagesRefine ==
  ASSUME LowIndices
  PROVE  Spec => []WitnessesRefine
<1>1. Inv => WitnessesRefine
  <2> SUFFICES ASSUME Inv, NEW i \in DOMAIN packages, packages[i].execution # "Deferred"
               PROVE  LET p == packages[i]
                          before == WitnessRoot(p.witness)
                          r == Replay(p.witness, p.operations)
                      IN  \E b \in Stores(before) :
                            \/ RereadsFreshEntry(p.operations, LoadFile(files[b][before]).tree)
                            \/ r.ok /\ r.previous_root = before /\ Stores(r.new_root) # {}
    BY DEF WitnessesRefine
  <2> DEFINE p == packages[i]
             before == WitnessRoot(p.witness)
             r == Replay(p.witness, p.operations)
  <2>1. FromRun(p)
    BY DEF Inv
  <2>2. PICK b \in Builders :
          \E x \in DOMAIN files[b] :
            /\ p.operations \in Batches
            /\ p.witness = TakeWitness(Ended(b, x, p.operations), files[b][x].tokens)
            /\ ~Ended(b, x, p.operations).panicked
            /\ RootOf(Ended(b, x, p.operations)) \in DOMAIN files[b]
    BY <2>1 DEF FromRun
  <2>3. PICK x \in DOMAIN files[b] :
          /\ p.operations \in Batches
          /\ p.witness = TakeWitness(Ended(b, x, p.operations), files[b][x].tokens)
          /\ ~Ended(b, x, p.operations).panicked
          /\ RootOf(Ended(b, x, p.operations)) \in DOMAIN files[b]
    BY <2>2
  <2> DEFINE f == files[b][x]
             o == Loaded(b, x)
             c == Ended(b, x, p.operations)
  <2>4. FileOK(f) /\ RootOf(o) = x
    BY DEF Inv, FileInv
  <2>5. o = LoadFile(f) /\ c = TransitionOn(o, p.operations)
    BY DEF Ended, Loaded
  <2>6. p.operations \in Seq(SignedOperation)
    BY <2>3, MerkleRollupAssumption
  <2>7. p.witness = TakeWitness(c, f.tokens) /\ ~c.panicked /\ RootOf(c) \in DOMAIN files[b]
    BY <2>3
  <2> DEFINE ops == p.operations
             w == p.witness
  <2> HIDE DEF f, o, c, p
  <2>8. o.tokens = f.tokens
    BY <2>4, <2>5, LoadFacts
  <2>9. c.hashes[RootIndex] = o.tree.hashes[RootIndex]
    BY <2>4, <2>5, <2>6, WitnessHasRoot
  <2>10. w.hashes = c.hashes /\ w.tokens = o.tokens
    BY <2>7, <2>8 DEF TakeWitness
  <2>11. before = x
    <3>1. RootOf(o) = HashPair(o.tree.hashes[RootIndex], TokensHash(o.tokens))
      BY DEF RootOf, StateRoot, Root
    <3> QED
      BY <2>4, <2>9, <2>10, <3>1 DEF WitnessRoot
  <2>12. b \in Stores(before)
    BY <2>11 DEF Stores
  <2>13. CASE RereadsFreshEntry(ops, o.tree)
    <3>1. LoadFile(files[b][before]).tree = o.tree
      BY <2>5, <2>11 DEF f
    <3> QED
      BY <2>12, <2>13, <3>1 DEF p
  <2>14. CASE ~RereadsFreshEntry(ops, o.tree)
    <3>1. r = Replay(TakeWitness(c, o.tokens), ops)
      BY <2>7, <2>8
    <3> HIDE DEF r
    <3>2. r.ok /\ r.previous_root = RootOf(o) /\ r.new_root = RootOf(c)
      BY <2>4, <2>5, <2>6, <2>7, <2>14, <3>1, WitnessSuffices
    <3>3. b \in Stores(r.new_root)
      BY <2>7, <3>2 DEF Stores
    <3> QED
      BY <2>4, <2>11, <2>12, <3>2, <3>3 DEF p, r
  <2> QED
    BY <2>13, <2>14
<1> QED
  BY <1>1, MerkleInvariance, PTL
=============================================================================
