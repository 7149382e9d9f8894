---------------------------- MODULE BuilderState ----------------------------
(***************************************************************************)
(* The state of token-ledger-builder-v2 (state.rs) and the one run of it   *)
(* that compute_transition_witness in main.rs makes: load the state HEAD   *)
(* names (or another stored one), carry the batch out while recording the  *)
(* witness, and persist the result.  The other end is the refinement of    *)
(* token-ledger-service-v2, which rebuilds a partial state from the        *)
(* witness and repeats the transition.                                     *)
(*                                                                         *)
(* A run is one step: one process uses the directory at a time and none    *)
(* crashes.  BuilderProcess takes a run apart.                             *)
(***************************************************************************)
EXTENDS WitnessedState

CONSTANTS Batches,  \* the operation files given to the builder
          MaxRuns   \* bound: runs of the builder

ASSUME BuilderStateAssumption ==
  /\ \A b \in Batches : b \in Seq(SignedOperation)
  /\ MaxRuns \in Nat

VARIABLES files,  \* the state files: root |-> what is stored under its name
          head,   \* the content of HEAD
          runs,   \* runs of the builder so far
          last    \* the last run: where it started, what it was given, what it
                  \* handed over, whether the builder was a debug build and
                  \* whether it panicked

vars == <<files, head, runs, last>>

-----------------------------------------------------------------------------
NoRun == [from |-> EMPTY_HASH, batch |-> <<>>, checks |-> FALSE, panicked |-> FALSE,
          witness |-> TakeWitness(LoadFile(GenesisFile), <<>>)]

Init ==
  /\ files = [r \in {EMPTY_HASH} |-> GenesisFile]
  /\ head = EMPTY_HASH
  /\ runs = 0
  /\ last = NoRun

\* compute_transition_witness from the state named `from`: HEAD, or the root
\* given on the command line.  The operations are not verified.  Unwinding a
\* panic drops the state too, so what was reached by then is persisted.
Run(batch, from, checks) ==
  LET loaded == LoadFile(files[from])
      b == TransitionIn(loaded, batch, checks)
  IN  /\ runs < MaxRuns
      /\ runs' = runs + 1
      /\ files' = FilesWith(files, b)
      /\ head' = RootOf(b)
      /\ last' = [from |-> from, batch |-> batch, checks |-> checks, panicked |-> b.panicked,
                  witness |-> TakeWitness(b, loaded.tokens)]

\* `cargo run` builds the builder with overflow checks, `--release` without.
Next ==
  \E batch \in Batches, from \in DOMAIN files, checks \in BOOLEAN : Run(batch, from, checks)

Spec == Init /\ [][Next]_vars

-----------------------------------------------------------------------------
TypeOK ==
  /\ head \in DOMAIN files
  /\ last.from \in DOMAIN files
  /\ last.batch \in Batches \cup {<<>>}
  /\ last.checks \in BOOLEAN
  /\ runs \in 0..MaxRuns
  /\ \A r \in DOMAIN files :
       /\ ToSet(files[r].tokens) \subseteq TokenIds
       /\ \A i \in TreeIndex : files[r].key_values[i] = NoEntry
                               \/ files[r].key_values[i].key \in Key

\* A state file rebuilds the tree it was written from: its name is the root of
\* what loading it gives, although entries are set in index order and not in
\* the order the operations set them (the test at state.rs:436 asserts it for
\* one state).
ReloadKeepsRoot == \A r \in DOMAIN files : RootOf(LoadFile(files[r])) = r

\* Whatever order entries are set and overwritten in, every slot of the array
\* of hashes holds the hash of the tree over the stored entries: insert
\* updates the whole path and nothing beside it, from the file on to the end
\* of the last batch or to the panic in it.
HashesMatchEntries ==
  LET tree == TransitionIn(LoadFile(files[last.from]), last.batch, last.checks).tree
  IN  Matches(tree.hashes, tree.key_values)

\* The ledger that HEAD names is the one the ledger rules give for the batch:
\* no run is lost behind a state file of the same name, so a root commits to
\* one ledger.
HeadHoldsResult ==
  ~last.panicked =>
    LedgerOf(LoadFile(files[head])) =
      Transition(LedgerOf(LoadFile(files[last.from])), last.batch)

\* A panic leaves the operations before it carried out in full, the ones after it
\* untouched, and of its own at most the half that the code had got to: what Drop
\* stores, and HEAD names from then on, is a ledger on the way of the batch, with
\* nothing of it lost to the entry that the panicking operation collided with.
HeadHoldsPrefix ==
  LET ops == OpsOf(last.batch)
      ledger == LedgersOf(LedgerOf(LoadFile(files[last.from])), ops)
  IN  last.panicked =>
        \E i \in DOMAIN ops :
          LedgerOf(LoadFile(files[head])) \in Halfway(ledger[i - 1], ops[i])

LastReplay == Replay(last.witness, last.batch)
ReplayMatches ==
  LastReplay.ok /\ LastReplay.previous_root = last.from /\ LastReplay.new_root = head

\* The witness is all that refinement needs: from it alone it finds the root
\* the builder started from and, repeating the batch, the root it ended at.
\* Batches that come back to a leaf after creating its entry are left out.
WitnessReplays ==
  ~last.panicked /\ ~RereadsFreshEntry(last.batch, LoadFile(files[last.from]).tree)
    => ReplayMatches

\* The same for every batch: the witness "is the data needed for refinement to
\* replay and verify a proposed state transition" (3-ExternalClient.md:34).
WitnessAlwaysReplays == ~last.panicked => ReplayMatches

=============================================================================
