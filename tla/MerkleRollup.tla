---------------------------- MODULE MerkleRollup ----------------------------
(***************************************************************************)
(* The rollup of version 2 put together from its parts: builders with the  *)
(* recorded state and the state files of WitnessedState, a service that    *)
(* rebuilds the partial state from the witness, and accumulation on Merkle *)
(* roots.  Rollup describes the same system with a ledger in the place of  *)
(* every root and every witness; ImplementsRollup is the claim that        *)
(* nothing is lost by that, so that what Rollup guarantees holds here.     *)
(*                                                                         *)
(* The chain fails, delays, duplicates and reorders as in Rollup.          *)
(* Witnesses are those that a builder recorded.                            *)
(***************************************************************************)
EXTENDS WitnessedState, WorkPackages, Accumulation

CONSTANTS Builders, Batches,            \* as in Rollup
          MaxRuns, MaxItems, MaxBacklog  \* the bounds of Rollup

ASSUME MerkleRollupAssumption ==
  /\ Builders # {}
  /\ \A b \in Batches : b \in Seq(SignedOperation)
  /\ MaxRuns \in Nat /\ MaxItems \in Nat /\ MaxBacklog \in Nat

VARIABLES heads,        \* HEAD of each builder, a root
          files,        \* the state files of each builder: root |-> content
          runs, packages, segments, reports, client_root,  \* as in Rollup
          meaning       \* history: root |-> the ledger first stored under it

vars == <<heads, files, runs, packages, segments, reports, client_root, meaning>>

Init ==
  /\ heads = [b \in Builders |-> EMPTY_HASH]
  /\ files = [b \in Builders |-> [r \in {EMPTY_HASH} |-> GenesisFile]]
  /\ runs = 0
  /\ packages = <<>>
  /\ segments = <<>>
  /\ reports = <<>>
  /\ client_root = EMPTY_HASH
  /\ meaning = [r \in {EMPTY_HASH} |-> EmptyLedger]

-----------------------------------------------------------------------------
\* compute_transition_witness and the submission.  A panic (on a collision, or
\* on an overflow in a build that checks for it) ends the process after Drop has
\* persisted the state and before anything is sent.
Run(b, from, batch, segment, checks) ==
  LET loaded == LoadFile(files[b][from])
      new == TransitionIn(loaded, batch, checks)
      witness == TakeWitness(new, loaded.tokens)
  IN  /\ runs < MaxRuns
      /\ runs' = runs + 1
      /\ files' = [files EXCEPT ![b] = FilesWith(@, new)]
      /\ heads' = [heads EXCEPT ![b] = RootOf(new)]
      /\ meaning' = [r \in DOMAIN meaning \cup {RootOf(new)} |->
                      IF r \in DOMAIN meaning THEN meaning[r] ELSE LedgerOf(new)]
      /\ \E sent \in IF new.panicked THEN {<<>>}
                     ELSE Deliveries(PackagesOf(runs + 1, witness, batch, segment)) :
           /\ Len(packages) + Len(reports) + Len(sent) <= MaxBacklog
           /\ packages' = packages \o sent
      /\ UNCHANGED <<segments, reports, client_root>>

-----------------------------------------------------------------------------
\* from_witness returns a state.
Loads(witness) == WitnessTree(witness.hashes, witness.entries).ok

\* The transition on the partial state; none when it panics.
Executed(witness, operations) ==
  LET r == Replay(witness, operations)
  IN  IF r.panicked THEN NoOutput ELSE Output(r.previous_root, r.new_root)

WitnessRoot(witness) == HashPair(witness.hashes[RootIndex], TokensHash(witness.tokens))

\* refine_transition: load, verify, then execute or export.
RefineTransition(p) ==
  CASE p.execution = "Deferred" ->
         IF p.run \in DOMAIN segments /\ Loads(segments[p.run].witness)
         THEN Executed(segments[p.run].witness, segments[p.run].operations)
         ELSE NoOutput
    [] p.execution = "Immediate" /\ Loads(p.witness) /\ VerifyOperations(p.operations) ->
         Executed(p.witness, p.operations)
    [] p.execution = "Deferring" /\ Loads(p.witness) /\ VerifyOperations(p.operations) ->
         Output(WitnessRoot(p.witness), WitnessRoot(p.witness))
    [] OTHER -> NoOutput

Exported(p, output) ==
  IF p.execution = "Deferring" /\ output.ok
  THEN [r \in DOMAIN segments \cup {p.run} |->
          IF r = p.run THEN [witness |-> p.witness, operations |-> p.operations] ELSE segments[r]]
  ELSE segments

Refine(i) ==
  \E output \in {RefineTransition(packages[i]), NoOutput} :
    /\ packages' = RemoveAt(packages, i)
    /\ reports' = Append(reports, output)
    /\ segments' = Exported(packages[i], output)
    /\ UNCHANGED <<heads, files, runs, client_root, meaning>>

-----------------------------------------------------------------------------
Selections ==
  UNION {{s \in [1..n -> DOMAIN reports] : IsInjective(s)} :
         n \in {m \in 1..MaxItems : m <= Len(reports)}}

Chosen(s) == [i \in DOMAIN s |-> reports[s[i]]]

Accumulate(s) ==
  /\ client_root' \in {Accumulated(client_root, Chosen(s)), client_root}
  /\ reports' = LET rest == SetToSortSeq(DOMAIN reports \ ToSet(s), <)
                IN  [i \in DOMAIN rest |-> reports[rest[i]]]
  /\ UNCHANGED <<heads, files, runs, packages, segments, meaning>>

Next ==
  \/ \E b \in Builders, batch \in Batches, segment \in BOOLEAN, checks \in BOOLEAN :
       \E from \in DOMAIN files[b] : Run(b, from, batch, segment, checks)
  \/ \E i \in DOMAIN packages : Refine(i)
  \/ \E s \in Selections : Accumulate(s)

Spec == Init /\ [][Next]_vars

-----------------------------------------------------------------------------
(* The refinement mapping: a root stands for the ledger stored under it, a *)
(* witness for the ledger of its root.                                     *)

Unknown == [ledger |-> "unknown"]
LedgerAt(root) == IF root \in DOMAIN meaning THEN meaning[root] ELSE Unknown

LedgerOfPackage(p) ==
  IF p.execution = "Deferred" THEN p
  ELSE [p EXCEPT !.witness = LedgerAt(WitnessRoot(p.witness))]

LedgerOfReport(r) ==
  IF r.ok THEN Output(LedgerAt(r.previous_root), LedgerAt(r.new_root)) ELSE r

Ledgers == INSTANCE Rollup WITH
  Orderly <- FALSE,
  heads <- [b \in Builders |-> LedgerAt(heads[b])],
  files <- [b \in Builders |-> {LedgerAt(r) : r \in DOMAIN files[b]}],
  packages <- [i \in DOMAIN packages |-> LedgerOfPackage(packages[i])],
  segments <- [r \in DOMAIN segments |->
                 [segments[r] EXCEPT !.witness = LedgerAt(WitnessRoot(segments[r].witness))]],
  reports <- [i \in DOMAIN reports |-> LedgerOfReport(reports[i])],
  client_root <- LedgerAt(client_root)

\* Builders and service agree on every transition although they share nothing
\* but witnesses and roots: with the ledgers put in their place, every step
\* (a run from an older state, a copy, a segment, a late or forked report) is
\* one that Rollup allows, so its guarantees carry over to the Merkle roots.
ImplementsRollup == Ledgers!Spec

\* A root stands for one ledger: whoever stores a state file under it, by
\* whatever batches and from whatever older state it got there, loads the same
\* balances from it.
RootsAgree ==
  \A b \in Builders : \A r \in DOMAIN files[b] :
    LedgerOf(LoadFile(files[b][r])) = meaning[r]

Stores(root) == {b \in Builders : root \in DOMAIN files[b]}

\* Refinement turns nothing down but unsigned operations: the witness of every
\* package under way loads, and executing it leads from the root of a stored
\* state to the root of one, whichever builder recorded it and however many
\* runs ago.  (Batches that come back to a leaf after creating its entry excepted.)
WitnessesRefine ==
  \A i \in DOMAIN packages :
    packages[i].execution = "Deferred"
      \/ LET p == packages[i]
             before == WitnessRoot(p.witness)
             r == Replay(p.witness, p.operations)
         IN  \E b \in Stores(before) :
               \/ RereadsFreshEntry(p.operations, LoadFile(files[b][before]).tree)
               \/ r.ok /\ r.previous_root = before /\ Stores(r.new_root) # {}

=============================================================================
