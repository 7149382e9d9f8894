------------------------------- MODULE Rollup -------------------------------
(***************************************************************************)
(* The rollup of version 2: builders that keep the ledger on disk          *)
(* (main.rs), the refinement and the accumulation of                       *)
(* token-ledger-service-v2, and the chain between them.                    *)
(*                                                                         *)
(* A root stands for the ledger it commits to and a witness for the ledger *)
(* it was taken from; BuilderState checks when that is right.  A state     *)
(* file is the ledger stored in it.                                        *)
(*                                                                         *)
(* The chain (external) refines a package when it likes, keeps what it     *)
(* exports under the package's hash, and hands the reports to              *)
(* accumulation in groups.  Unless Orderly, it may forget a package, run   *)
(* two of them in either order, lose a refinement or an accumulation to a  *)
(* panic or to gas, and take a package that it answered with an error.     *)
(***************************************************************************)
EXTENDS WorkPackages, Accumulation

CONSTANTS Builders,  \* clients, each with a directory of its own
          Batches,   \* the operation files given to them
          Orderly,   \* no failures, runs from HEAD only, first in first out
          MaxRuns,   \* bound: runs of builders
          MaxItems,  \* bound: reports in one accumulation
          MaxBacklog \* bound: packages and reports the chain holds at once

ASSUME RollupAssumption ==
  /\ Builders # {}
  /\ \A b \in Batches : b \in Seq(SignedOperation)
  /\ Orderly \in BOOLEAN
  /\ MaxRuns \in Nat /\ MaxItems \in Nat /\ MaxBacklog \in Nat

VARIABLES heads,        \* HEAD of each builder
          files,        \* the states each builder has stored
          runs,         \* runs so far; a run's number names its packages
          packages,     \* work packages waiting for refinement
          segments,     \* what Deferring packages exported, by run
          reports,      \* refinement outputs waiting for accumulation
          client_root   \* the service's only storage entry

vars == <<heads, files, runs, packages, segments, reports, client_root>>

\* get("client_root").unwrap_or_default() is the root of the empty ledger.
Init ==
  /\ heads = [b \in Builders |-> EmptyLedger]
  /\ files = [b \in Builders |-> {EmptyLedger}]
  /\ runs = 0
  /\ packages = <<>>
  /\ segments = <<>>
  /\ reports = <<>>
  /\ client_root = EmptyLedger

-----------------------------------------------------------------------------
(* The builder. *)

\* What a run leaves at the chain.
Sent(pkgs) == IF Orderly THEN {pkgs} ELSE Deliveries(pkgs)

\* Faulty: the result is not persisted.
RunUnsaved(b, from, batch, segment) ==
  /\ runs < MaxRuns
  /\ from \in files[b]
  /\ Orderly => from = heads[b]
  /\ runs' = runs + 1
  /\ heads' = [heads EXCEPT ![b] = Transition(from, batch)]
  /\ \E sent \in Sent(PackagesOf(runs + 1, from, batch, segment)) :
       /\ Len(packages) + Len(reports) + Len(sent) <= MaxBacklog
       /\ packages' = packages \o sent
  /\ UNCHANGED <<files, segments, reports, client_root>>

\* Load a stored state (HEAD's, or --head), carry the batch out, persist the
\* result and only then submit.  Nothing here verifies the operations.
Run(b, from, batch, segment) ==
  LET new == Transition(from, batch) IN
  /\ runs < MaxRuns
  /\ from \in files[b]
  /\ Orderly => from = heads[b]
  /\ runs' = runs + 1
  /\ files' = [files EXCEPT ![b] = @ \cup {new}]
  /\ heads' = [heads EXCEPT ![b] = new]
  /\ \E sent \in Sent(PackagesOf(runs + 1, from, batch, segment)) :
       /\ Len(packages) + Len(reports) + Len(sent) <= MaxBacklog
       /\ packages' = packages \o sent
  /\ UNCHANGED <<segments, reports, client_root>>

-----------------------------------------------------------------------------
(* Refinement. *)

\* Faulty: Deferring leaves the verification to Deferred, which has none.
RefineTransitionTrusting(p) ==
  CASE p.execution = "Deferred" ->
         IF p.run \in DOMAIN segments
         THEN LET s == segments[p.run]
              IN  Output(s.witness, Transition(s.witness, s.operations))
         ELSE NoOutput
    [] p.execution = "Immediate" /\ VerifyOperations(p.operations) ->
         Output(p.witness, Transition(p.witness, p.operations))
    [] p.execution = "Deferring" -> Output(p.witness, p.witness)
    [] OTHER -> NoOutput

RefineTransition(p) ==
  CASE p.execution = "Deferred" ->
         IF p.run \in DOMAIN segments
         THEN LET s == segments[p.run]
              IN  Output(s.witness, Transition(s.witness, s.operations))
         ELSE NoOutput
    [] p.execution = "Immediate" /\ VerifyOperations(p.operations) ->
         Output(p.witness, Transition(p.witness, p.operations))
    [] p.execution = "Deferring" /\ VerifyOperations(p.operations) ->
         Output(p.witness, p.witness)
    [] OTHER -> NoOutput

Exported(p, output) ==
  IF p.execution = "Deferring" /\ output.ok
  THEN [r \in DOMAIN segments \cup {p.run} |->
          IF r = p.run THEN [witness |-> p.witness, operations |-> p.operations] ELSE segments[r]]
  ELSE segments

\* A package is refined, or its refinement fails without exporting anything:
\* it panics, runs out of gas, cannot load the witness or has no segment left.
Refine(i) ==
  \E output \in {RefineTransition(packages[i])} \cup (IF Orderly THEN {} ELSE {NoOutput}) :
    /\ Orderly => i = 1
    /\ packages' = RemoveAt(packages, i)
    /\ reports' = Append(reports, output)
    /\ segments' = Exported(packages[i], output)
    /\ UNCHANGED <<heads, files, runs, client_root>>

-----------------------------------------------------------------------------
(* Accumulation. *)

\* The groups of waiting reports the chain may pass on, as lists of positions.
Selections ==
  UNION {IF Orderly THEN {[i \in 1..n |-> i]}
         ELSE {s \in [1..n -> DOMAIN reports] : IsInjective(s)} :
         n \in {m \in 1..MaxItems : m <= Len(reports)}}

Chosen(s) == [i \in DOMAIN s |-> reports[s[i]]]

\* The others, in the order they came in.
Waiting(taken) ==
  LET rest[i \in 0..Len(reports)] ==
        IF i = 0 THEN <<>>
        ELSE IF i \in taken THEN rest[i - 1] ELSE Append(rest[i - 1], reports[i])
  IN  rest[Len(reports)]

\* The set is the last host call, after the only checkpoint: an invocation
\* that fails leaves client_root alone, and its reports are gone.
Accumulate(s) ==
  /\ client_root' \in
       {Accumulated(client_root, Chosen(s))} \cup (IF Orderly THEN {} ELSE {client_root})
  /\ reports' = Waiting(ToSet(s))
  /\ UNCHANGED <<heads, files, runs, packages, segments>>

Next ==
  \/ \E b \in Builders, batch \in Batches, segment \in BOOLEAN :
       \E from \in files[b] : Run(b, from, batch, segment)
  \/ \E i \in DOMAIN packages : Refine(i)
  \/ \E s \in Selections : Accumulate(s)

Spec == Init /\ [][Next]_vars

\* The chain neither stops refining what it was given nor accumulating what
\* was refined.  Nobody has to run a builder.
FairSpec ==
  /\ Spec
  /\ WF_vars(\E i \in DOMAIN packages : Refine(i))
  /\ WF_vars(\E s \in Selections : Accumulate(s))

-----------------------------------------------------------------------------
Package ==
  [run : 1..MaxRuns, execution : {"Immediate", "Deferring"}, witness : LedgerState,
   operations : Batches]
    \cup
  [run : 1..MaxRuns, execution : {"Deferred"}]

TypeOK ==
  /\ heads \in [Builders -> LedgerState]
  /\ \A b \in Builders : files[b] \subseteq LedgerState
  /\ runs \in 0..MaxRuns
  /\ packages \in Seq(Package)
  /\ DOMAIN segments \subseteq 1..MaxRuns
  /\ \A r \in DOMAIN segments :
       segments[r] \in [witness : LedgerState, operations : Batches]
  /\ \A i \in DOMAIN reports :
       reports[i] = NoOutput \/ reports[i] = Output(reports[i].previous_root, reports[i].new_root)
  /\ client_root \in LedgerState

Verified == {b \in Batches : VerifyOperations(b)}

\* Whatever is lost, delayed, forked or reordered, and although Deferred carries
\* the operations of a segment out without verifying them, the commitment moves
\* only by what verified batches do, one after the other, to the very ledger it
\* committed to.  A late or duplicated report counts if it starts where
\* client_root stands now (accumulation.rs:124): operations have no nonce, and
\* once a root has come back a second copy takes effect again.  So this says
\* nothing of how often a signed batch is carried out.
SignedTransitions ==
  [][\E bs \in BoundedSeq(Verified, MaxItems) :
       client_root' = Transitions(client_root, bs)]_vars

\* Reports accumulated together take effect together, when each starts where
\* the one before ended and the first at client_root, or not at all
\* ("Mismatch root, skipping all transitions", accumulation.rs:75).  Stated of
\* every group of reports that could be accumulated next.
AllOrNothing ==
  \A s \in Selections :
    LET items == Chosen(s)
        oks(i) == {j \in 1..i : items[j].ok}
        end(i) == IF oks(i) = {} THEN client_root ELSE items[Max(oks(i))].new_root
        chained == \A i \in oks(Len(items)) : items[i].previous_root = end(i - 1)
    IN  Accumulated(client_root, items) = IF chained THEN end(Len(items)) ELSE client_root

\* Somebody has stored the ledger the chain commits to: a builder persists
\* before it submits, so no failure in between leaves a root nobody can extend.
CommittedStateStored == \E b \in Builders : client_root \in files[b]

\* The ledger behind client_root implements the abstract ledger.
Supply == INSTANCE TokenSupply WITH ledger <- client_root
ImplementsTokenSupply == Supply!Spec

\* One client, nothing fails, operations properly signed: the chain catches up
\* with HEAD, whichever way runs, refinements and accumulations interleave.
CatchesUp == \A b \in Builders : []<>(client_root = heads[b])

=============================================================================
