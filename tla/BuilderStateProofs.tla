------------------------- MODULE BuilderStateProofs -------------------------
(***************************************************************************)
(* Proofs about BuilderState, for a tree of any depth and any batches, as  *)
(* long as every key has the index of a leaf (LowIndices).                 *)
(***************************************************************************)
EXTENDS BuilderState, OperatorProofs

\* The state at the end of the last run.
Result == TransitionIn(LoadFile(files[last.from]), last.batch, last.checks)

\* What is stored under a name has that root.
FilesInv == \A r \in DOMAIN files : FileOK(files[r]) /\ RootOf(LoadFile(files[r])) = r

\* HEAD and what was handed over come from the last run.
LastInv ==
  /\ last.from \in DOMAIN files /\ last.batch \in Batches \cup {<<>>}
  /\ last.checks \in BOOLEAN
  /\ last.panicked <=> Result.panicked
  /\ head = RootOf(Result)
  /\ last.witness = TakeWitness(Result, files[last.from].tokens)

Inv == runs \in 0..MaxRuns /\ head \in DOMAIN files /\ FilesInv /\ LastInv

LEMMA BatchFacts ==
  ASSUME NEW batch \in Batches \cup {<<>>}
  PROVE  batch \in Seq(SignedOperation)
<1>1. <<>> \in Seq(SignedOperation)
  OBVIOUS
<1> QED
  BY <1>1, BuilderStateAssumption

LEMMA InitInv ==
  ASSUME LowIndices, Init
  PROVE  Inv
<1> DEFINE g == GenesisFile
<1>1. FileOK(g) /\ RootOf(LoadFile(g)) = EMPTY_HASH
  BY GenesisFacts
<1>2. DOMAIN files = {EMPTY_HASH} /\ files[EMPTY_HASH] = g
  <2> HIDE DEF g
  <2>1. files = [r \in {EMPTY_HASH} |-> g]
    BY DEF Init, g
  <2> QED
    BY <2>1
<1>3. /\ last.from = EMPTY_HASH /\ last.batch = <<>> /\ (last.panicked <=> FALSE)
      /\ last.checks = FALSE
      /\ last.witness = TakeWitness(LoadFile(g), <<>>)
  BY DEF Init, NoRun
<1>4. g.tokens = <<>>
  BY DEF GenesisFile
<1> HIDE DEF g
<1>5. Result = LoadFile(g)
  <2>1. <<>> \in Seq(SignedOperation)
    OBVIOUS
  <2>2. Result = TransitionIn(LoadFile(g), <<>>, FALSE)
    BY <1>2, <1>3 DEF Result
  <2> QED
    BY <2>1, <2>2, WithoutChecks, NothingToDo
<1>6. ~LoadFile(g).panicked
  BY LoadedNotPanicked
<1>7. head = EMPTY_HASH /\ runs = 0
  BY DEF Init
<1>8. FilesInv
  BY <1>1, <1>2 DEF FilesInv
<1>9. LastInv
  BY <1>1, <1>2, <1>3, <1>4, <1>5, <1>6, <1>7 DEF LastInv
<1> QED
  BY <1>2, <1>7, <1>8, <1>9, BuilderStateAssumption DEF Inv

LEMMA RunInv ==
  ASSUME LowIndices, Inv, NEW batch \in Batches, NEW from \in DOMAIN files,
         NEW checks \in BOOLEAN, Run(batch, from, checks)
  PROVE  Inv'
<1> DEFINE loaded == LoadFile(files[from])
           b == TransitionIn(loaded, batch, checks)
           f == [key_values |-> b.tree.key_values, tokens |-> b.tokens]
<1>1. batch \in Seq(SignedOperation)
  BY BatchFacts
<1>2. StateOK(loaded) /\ loaded.tokens = files[from].tokens
  BY LoadFacts DEF Inv, FilesInv
<1>3. StateOK(b)
  BY <1>1, <1>2, ChecksOnlyPanic
<1>4. FileOK(f) /\ RootOf(LoadFile(f)) = RootOf(b)
  <2>1. f = [key_values |-> b.tree.key_values, tokens |-> b.tokens]
    OBVIOUS
  <2> HIDE DEF f, b
  <2> QED
    BY <1>3, <2>1, Reload
<1>5. /\ runs < MaxRuns /\ runs' = runs + 1 /\ files' = FilesWith(files, b) /\ head' = RootOf(b)
      /\ last' = [from |-> from, batch |-> batch, checks |-> checks, panicked |-> b.panicked,
                  witness |-> TakeWitness(b, loaded.tokens)]
  BY DEF Run
<1>6. /\ DOMAIN files' = DOMAIN files \cup {RootOf(b)}
      /\ \A r \in DOMAIN files : files'[r] = files[r]
      /\ RootOf(b) \notin DOMAIN files => files'[RootOf(b)] = f
  <2> DEFINE gs == files'
             x == RootOf(b)
  <2>1. gs = [r \in DOMAIN files \cup {x} |-> IF r \in DOMAIN files THEN files[r] ELSE f]
    BY <1>5 DEF FilesWith
  <2> HIDE DEF f, b, gs, x
  <2>2. /\ DOMAIN gs = DOMAIN files \cup {x}
        /\ \A r \in DOMAIN files : gs[r] = files[r]
        /\ x \notin DOMAIN files => gs[x] = f
    BY <2>1
  <2> QED
    BY <2>2 DEF gs, x
<1>7. /\ last'.from = from /\ last'.batch = batch /\ last'.panicked = b.panicked
      /\ last'.checks = checks
      /\ last'.witness = TakeWitness(b, loaded.tokens)
  <2> HIDE DEF b, loaded
  <2> QED
    BY <1>5
<1>8. Result' = b
  BY <1>6, <1>7 DEF Result
<1> HIDE DEF loaded, b, f
<1>9. FilesInv'
  BY <1>4, <1>6 DEF Inv, FilesInv
<1>10. LastInv'
  BY <1>2, <1>5, <1>6, <1>7, <1>8 DEF LastInv
<1>11. runs' \in 0..MaxRuns
  BY <1>5, BuilderStateAssumption DEF Inv
<1> QED
  BY <1>5, <1>6, <1>9, <1>10, <1>11 DEF Inv

LEMMA NextInv ==
  ASSUME LowIndices, Inv, [Next]_vars
  PROVE  Inv'
<1>1. CASE Next
  BY <1>1, RunInv DEF Next
<1>2. CASE UNCHANGED vars
  BY <1>2 DEF vars, Inv, FilesInv, LastInv, Result
<1> QED
  BY <1>1, <1>2

\* Every state file is what a run of the builder left, and HEAD, the witness and
\* the outcome of the last run are those of the transition it made.
THEOREM Invariance ==
  ASSUME LowIndices
  PROVE  Spec => []Inv
<1>1. Init => Inv
  BY InitInv
<1>2. Inv /\ [Next]_vars => Inv'
  BY NextInv
<1> QED
  BY <1>1, <1>2, PTL DEF Spec

LEMMA ResultFacts ==
  ASSUME LowIndices, Inv, NEW loaded, loaded = LoadFile(files[last.from])
  PROVE  /\ last.batch \in Seq(SignedOperation)
         /\ FileOK(files[last.from]) /\ StateOK(loaded) /\ StateOK(Result)
         /\ Result = TransitionIn(loaded, last.batch, last.checks)
         /\ ~Result.panicked => Result = TransitionOn(loaded, last.batch)
         /\ loaded.tokens = files[last.from].tokens
<1>1. last.batch \in Seq(SignedOperation)
  BY BatchFacts DEF Inv, LastInv
<1>2. FileOK(files[last.from])
  BY DEF Inv, FilesInv, LastInv
<1>3. StateOK(loaded) /\ loaded.tokens = files[last.from].tokens
  BY <1>2, LoadFacts
<1> QED
  BY <1>1, <1>2, <1>3, ChecksOnlyPanic DEF Result

\* HEAD always names a state file, and state files only hold tokens and keys of
\* the ledger.
THEOREM TypeCorrect ==
  ASSUME LowIndices
  PROVE  Spec => []TypeOK
<1>1. Inv => TypeOK
  <2> SUFFICES ASSUME Inv PROVE TypeOK
    OBVIOUS
  <2>1. ASSUME NEW r \in DOMAIN files
        PROVE  /\ ToSet(files[r].tokens) \subseteq TokenIds
               /\ \A i \in TreeIndex : files[r].key_values[i] = NoEntry
                                       \/ files[r].key_values[i].key \in Key
    <3>1. FileOK(files[r])
      BY DEF Inv, FilesInv
    <3>2. \A e \in LeafEntry : e.key \in Key
      BY EntryFields
    <3>3. files[r].tokens \in Seq(TokenIds)
      BY <3>1 DEF FileOK
    <3>4. ToSet(files[r].tokens) \subseteq TokenIds
      <4> DEFINE s == files[r].tokens
      <4> HIDE DEF s
      <4>1. s \in Seq(TokenIds)
        BY <3>3 DEF s
      <4>2. ToSet(s) \subseteq TokenIds
        BY <4>1 DEF ToSet
      <4> QED
        BY <4>2 DEF s
    <3> QED
      BY <3>1, <3>2, <3>4 DEF FileOK
  <2> QED
    BY <2>1 DEF Inv, LastInv, TypeOK
<1> QED
  BY <1>1, Invariance, PTL

\* from_stream rebuilds the tree a state file was written from, although it sets
\* the entries in another order: the file's name is the root it gives.
THEOREM ReloadRoots ==
  ASSUME LowIndices
  PROVE  Spec => []ReloadKeepsRoot
<1>1. Inv => ReloadKeepsRoot
  BY DEF Inv, FilesInv, ReloadKeepsRoot
<1> QED
  BY <1>1, Invariance, PTL

\* insert keeps every slot of the array of hashes what the tree over the stored
\* entries has there, through any batch.
THEOREM HashesMatch ==
  ASSUME LowIndices
  PROVE  Spec => []HashesMatchEntries
<1>1. Inv => HashesMatchEntries
  <2> SUFFICES ASSUME Inv PROVE HashesMatchEntries
    OBVIOUS
  <2>1. StateOK(Result)
    BY ResultFacts
  <2> QED
    BY <2>1 DEF StateOK, HashesMatchEntries, Result
<1> QED
  BY <1>1, Invariance, PTL

\* HEAD names a file with the ledger that state_transition gives for the last
\* batch, also when a file of that name was there before: a root commits to one
\* ledger.
THEOREM HeadIsResult ==
  ASSUME LowIndices
  PROVE  Spec => []HeadHoldsResult
<1>1. Inv => HeadHoldsResult
  <2> SUFFICES ASSUME Inv, ~last.panicked
               PROVE  LedgerOf(LoadFile(files[head])) =
                        Transition(LedgerOf(LoadFile(files[last.from])), last.batch)
    BY DEF HeadHoldsResult
  <2> DEFINE loaded == LoadFile(files[last.from])
             stored == LoadFile(files[head])
  <2>1. /\ last.batch \in Seq(SignedOperation) /\ StateOK(loaded) /\ StateOK(Result)
        /\ ~Result.panicked => Result = TransitionOn(loaded, last.batch)
    BY ResultFacts
  <2>2. ~Result.panicked
    BY DEF Inv, LastInv
  <2>3. FileOK(files[head]) /\ RootOf(stored) = RootOf(Result)
    BY DEF Inv, FilesInv, LastInv
  <2>4. StateOK(stored)
    BY <2>3, LoadFacts
  <2> HIDE DEF loaded, stored
  <2>5. LedgerOf(Result) = Transition(LedgerOf(loaded), last.batch)
    BY <2>1, <2>2, TransitionLedger
  <2>6. stored.tokens = Result.tokens /\ stored.tree.key_values = Result.tree.key_values
    BY <2>1, <2>3, <2>4, RootCommits
  <2>7. LedgerOf(stored) = LedgerOf(Result)
    BY <2>6, SameEntries
  <2> QED
    BY <2>5, <2>7 DEF loaded, stored
<1> QED
  BY <1>1, Invariance, PTL

\* A batch that panicked, on a collision or on an overflow, leaves under HEAD a
\* ledger on its way: whole operations, and at most half of the one it panicked in.
THEOREM HeadIsPrefix ==
  ASSUME LowIndices
  PROVE  Spec => []HeadHoldsPrefix
<1>1. Inv => HeadHoldsPrefix
  <2> DEFINE loaded == LoadFile(files[last.from])
             stored == LoadFile(files[head])
             ops == OpsOf(last.batch)
             ledger == LedgersOf(LedgerOf(loaded), ops)
  <2> SUFFICES ASSUME Inv, last.panicked
               PROVE  \E i \in DOMAIN ops : LedgerOf(stored) \in Halfway(ledger[i - 1], ops[i])
    BY DEF HeadHoldsPrefix
  <2>1. /\ last.batch \in Seq(SignedOperation) /\ StateOK(loaded) /\ StateOK(Result)
        /\ Result = TransitionIn(loaded, last.batch, last.checks)
    BY ResultFacts
  <2>2. Result.panicked /\ ~loaded.panicked
    BY LoadedNotPanicked DEF Inv, LastInv
  <2>3. FileOK(files[head]) /\ RootOf(stored) = RootOf(Result)
    BY DEF Inv, FilesInv, LastInv
  <2>4. StateOK(stored)
    BY <2>3, LoadFacts
  <2>5. ops = OpsOf(last.batch) /\ ledger = LedgersOf(LedgerOf(loaded), ops)
    OBVIOUS
  <2> HIDE DEF loaded, stored, ops, ledger
  <2>6. \E i \in DOMAIN ops : LedgerOf(Result) \in Halfway(ledger[i - 1], ops[i])
    BY <2>1, <2>2, <2>5, PanicLeavesPrefix
  <2>7. stored.tokens = Result.tokens /\ stored.tree.key_values = Result.tree.key_values
    BY <2>1, <2>3, <2>4, RootCommits
  <2>8. LedgerOf(stored) = LedgerOf(Result)
    BY <2>7, SameEntries
  <2> QED
    BY <2>6, <2>8
<1> QED
  BY <1>1, Invariance, PTL

\* The hashes and entries that the accesses of a batch recorded are all that
\* refinement needs to find the roots before and after it, unless the batch comes
\* back to a leaf after creating its entry.
THEOREM WitnessesReplay ==
  ASSUME LowIndices
  PROVE  Spec => []WitnessReplays
<1>1. Inv => WitnessReplays
  <2> DEFINE loaded == LoadFile(files[last.from])
  <2> SUFFICES ASSUME Inv, ~last.panicked, ~RereadsFreshEntry(last.batch, loaded.tree)
               PROVE  ReplayMatches
    BY DEF WitnessReplays
  <2>1. /\ last.batch \in Seq(SignedOperation) /\ FileOK(files[last.from])
        /\ ~Result.panicked => Result = TransitionOn(loaded, last.batch)
        /\ loaded.tokens = files[last.from].tokens
    BY ResultFacts
  <2>2. ~Result.panicked
    BY DEF Inv, LastInv
  <2>3. RootOf(loaded) = last.from /\ RootOf(Result) = head
    BY DEF Inv, FilesInv, LastInv
  <2>4. last.witness = TakeWitness(Result, loaded.tokens)
    BY <2>1 DEF Inv, LastInv
  <2>5. LastReplay = Replay(TakeWitness(Result, loaded.tokens), last.batch)
    BY <2>4 DEF LastReplay
  <2>6. loaded = LoadFile(files[last.from])
    OBVIOUS
  <2> HIDE DEF loaded
  <2>7. /\ LastReplay.ok /\ LastReplay.previous_root = RootOf(loaded)
        /\ LastReplay.new_root = RootOf(Result)
    BY <2>1, <2>2, <2>5, <2>6, WitnessSuffices
  <2> QED
    BY <2>3, <2>7 DEF ReplayMatches
<1> QED
  BY <1>1, Invariance, PTL

=============================================================================
