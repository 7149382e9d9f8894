# A TLA+ model of the JAM token ledger services

This project specifies and checks the services of `services_tutorial/`: a token
ledger kept in the storage of a JAM service (version 1) and the same ledger as a
rollup (version 2), in which clients keep the ledger, refinement verifies a batch
of operations against a Merkle witness, and accumulation only stores the root.

## The system

| part | state | operations | interacts with |
|---|---|---|---|
| `token-ledger-common` | none | operations, signatures, `canonical_transfer`, storage keys, JSON | all others |
| `token-ledger-state-v2/transition.rs` | a `StateOps` and the staged transfers | `verify_operations`, `state_transition` | run by the builder and by refinement |
| `token-ledger-state-v2/{lib,merkle}.rs` | tree hashes, key/value per leaf, known tokens | index of a key, insert, get, set, root, load a witness | the two `State`s |
| `token-ledger-builder-v2/state.rs` | the same, plus what the witness has recorded; state files and `HEAD` | load, transition, `take_witness`, serialize on `Drop` | the directory |
| `token-ledger-builder-v2/main.rs` | none | one run: transition, persist, submit one or two packages | node RPC |
| `token-ledger-service-v2` | `client_root` | refine (Immediate, Deferring, Deferred), accumulate | packages, segments, reports |
| `token-ledger-service-v1` | known tokens and balances in storage | refine (validate, net), accumulate (write, checkpoint) | host calls |
| `json.rs`, `sign_ops` | the file of signed operations | sign and write a file; parse one, hex texts included | read by the builder and by v1 |
| `minimal_service` | `last`, `lasttx` in storage | refine (greet), accumulate (store the latest) | not modelled |
| `scripts` | none | wrappers around the node's tools | not modelled |

What is hard to test here: batches in which mints, netted transfers and refusals
meet; 64-bit casts and wrapping; gas or storage running out between two writes;
a witness that must describe the state before a batch although it is recorded
during it; panics while a `Drop` implementation persists; crashes and other
processes between the system calls of `serialize`; packages and reports that are
lost, duplicated, forked or reordered between builders and the chain.
`PROJECT.json` lists these hazards with the line where each one bites.

What makes each part correct: a transition keeps supplies and debits only what
was signed; netting has the effect of the signed transfers; version 1 keeps whole
operations whatever the host does; a state file reloads to its root and a
witness suffices for refinement; a directory stays usable whatever processes and
crashes do in it; a file of operations is read whole or refused; `client_root`
moves only along verified batches that start from it.

## Modules

| module | models |
|---|---|
| `TokenOps` | operations, verification, 64-bit arithmetic, netting, `process_mint`, `process_transfer` |
| `TokenSupply` | the abstract ledger: a token is minted once, then its supply is fixed |
| `StateTransition` | `state_transition` as refinement runs it, one step per loop iteration, in release and debug builds |
| `BatchOps` | whole batches as functions: `state_transition` of v2, `refine` of v1 |
| `LedgerServiceV1` | `accumulate` of v1, one step per writing host call |
| `MerkleTree` | the tree, its array of hashes, the key/value table, loading a witness |
| `WitnessedState` | a builder's state as a value: recording, storing, loading, and the replay in refinement |
| `BuilderState` | whole builder runs on it, one after the other |
| `WorkPackages` | the packages of a run and what a submission may leave of them at the chain |
| `BuilderProcess` | the builder command as processes in one directory, system call by system call |
| `Accumulation` | the fold of v2's accumulation over a group of reports |
| `Rollup` | builders, packages, segments, reports and `client_root`, on ledgers |
| `MerkleRollup` | the same with Merkle trees, witnesses and roots |
| `OperationFiles` | `sign_ops`, `parse_signed_operations`, `decode_hex` |
| `OperatorProofs` | the lemmas the theorems share: sums over accounts, supplies, whole batches, the tree, the recorded state, the witness |
| `StateTransitionProofs`, `LedgerServiceV1Proofs`, `BuilderStateProofs`, `BuilderProcessProofs`, `RollupProofs`, `MerkleRollupProofs`, `OperationFilesProofs` | the theorems |
| `MC*` | instances for TLC |

`BatchOps`, `MerkleTree` and `OperationFiles` are built on `TokenOps`;
`LedgerServiceV1` and `WorkPackages` use the functions of `BatchOps`, and
`StateTransition` is compared with them;
`WitnessedState` puts `BatchOps` on the tree of `MerkleTree` and is the base of
`BuilderState` and `MerkleRollup`. Four abstractions are checked and not
assumed:

* the steps of `StateTransition` add up to the function `Transition` of
  `BatchOps`, with which the other modules take a batch in one step
  (`TransitionExact`);
* `StateTransition`, `LedgerServiceV1` and `Rollup` each implement `TokenSupply`,
  with the ledger, the checkpointed storage and the ledger behind `client_root`
  as its `ledger`;
* `MerkleRollup` implements `Rollup`: a root is mapped to the ledger that was
  first stored under it (the history variable `meaning`), a witness to the ledger
  of its root. So `Rollup` may speak of ledgers where the code has hashes, and
  what it guarantees holds of the roots;
* what `BuilderProcess` submits call by call is among the `Deliveries` that
  `Rollup` and `MerkleRollup` take for the outcome of a run.

`map` in `PROJECT.json` gives the lines every definition stands for.

Definitions whose comment begins with *Faulty* are plausible slips in the
definition that follows them. No specification uses them; put in its place, each
makes TLC report the property it is listed with under `mutants`.

### How state and actions correspond to the code

* **Accounts, signatures, hashes.** An account is a number (only the order of
  ids matters); a signature is the key that verifies it; a hash is the record of
  what was hashed. Ed25519 is unforgeable, BLAKE2 injective.
* **StateTransition.** `Begin` is `verify_operations` followed by the call;
  `MintOp` and `StageOp` are iterations of the first loop, `ApplyNet` of the
  second, in the order of the `BTreeMap`. `checks` tells for each transition
  whether it is run by a debug build, in which overflow panics, or by a release
  build, in which it wraps. This is the service: its state is rebuilt from the
  witness and lost with a panic, the work item has no output and the ledger that
  was committed to stays (`Abort`). The builder is the next item but one.
  `refused` remembers, for `NettingExact`, that an early return was taken.
* **LedgerServiceV1.** `MintKnown`, `Debit`, `Credit`, `Checkpoint` are the host
  calls of `process_mint` and `process_transfer`; `Refuse` their early returns;
  `OutOfGas` may happen anywhere and falls back to the last checkpoint. `Write`
  fails beyond `Capacity` entries and the service does not notice.
* **MerkleTree, WitnessedState, BuilderState.** The array layout, the climb of
  `insert` and the bit that `tree_index_from_key` clears are those of the code,
  with `TREE_DEPTH` 2 or 3 instead of 15. A run of the builder is one step: load a
  stored state, carry the batch out while recording, take the witness, persist.
  A collision stops the batch, and so does, in a debug build (what the plain
  `cargo run` of `3-ExternalClient.md` gives), an overflow (`Overflows`, by
  `TransitionIn`); the state reached is persisted by `Drop` and becomes `HEAD`.
  Nothing is verified before, as in the code.
* **BuilderProcess.** One action per system call or RPC of a process: `ReadHead`,
  `OpenState` (read the file, transition, witness), `CheckFile`, `CreateFile`,
  `WriteFile`, `OpenHead`, `CreateHead`, `WriteHead`, then per package `Export`,
  `Connect`, `CheckService` and `SubmitOk` or `SubmitErr` per core. A state file
  is the number of its writes that were done; loading an incomplete one panics.
  `Crash` stops a process between two calls. `alone`
  remembers, for `OverrideRecovers`, that no other process ran beside it. The
  result of a run is a label here; a transition that panics is left to
  `BuilderState`, as it is in `Rollup`.
* **Rollup.** A root is the ledger it commits to and a witness the ledger it was
  taken from; `MerkleRollup` shows that to be right. `Run` persists and then
  submits; `Deliveries` is what the submission loop may leave at the chain;
  `Refine` and `Accumulate` are the service's two entry points. With `Orderly`
  the chain loses nothing and works first in, first out. `MerkleRollup` has the
  same actions on trees, witnesses and roots.
* **OperationFiles.** `writeln!` on a `File` makes two writes: `WriteOutput` is
  the list, `WriteNewline` the newline after it, and other processes may come in
  between. A file is the list written last, at its beginning, its size and where
  newlines were written since, so a short list over a longer one does not parse,
  and the newline of one process may fall on the list of another. What it does
  there depends on the lengths of numbers, which the model leaves open
  (`ParseSignedOperations` is the set of what a reader may get): nothing on white
  space, an error nearly everywhere, and on an end of a number a smaller number,
  with which the signature no longer agrees (`Spoilt`). The properties are about
  what a reader (the builder's `read_ops_from_file`, or refinement of version 1)
  may get at any time; it reads the file in one step. Hex texts are decoded byte
  by byte with radix 2, in the run with ids of 2 bytes; `c1` and `c2` are the
  bytes of one character of two.

## Runs

| run | checks | bounds |
|---|---|---|
| `state_transition` | `SupplyKept`, `FreshSupplySigned`, `DebitsSigned`, `NettingExact`, `TransitionExact`, `ImplementsTokenSupply` | both builds, 3 accounts, 2 tokens, 13 requests, batches of up to 3, i64::MAX = 3 |
| `ledger_service_v1` | `CheckpointExact`, `AgreesWithV2`, `ImplementsTokenSupply` | 6 payloads, 2 items per accumulation, room for every entry |
| `builder_state` | `ReloadKeepsRoot`, `HashesMatchEntries`, `HeadHoldsResult`, `HeadHoldsPrefix`, `WitnessReplays` | both builds, depth 3, 6 keys of which two share a leaf, 10 batches of which two overflow, 4 runs from any stored state |
| `rollup` | `AllOrNothing`, `CommittedStateStored`, `SignedTransitions`, `ImplementsTokenSupply` | 2 builders, 3 runs, 2 cores, 2 reports together, 3 packages and reports waiting |
| `rollup_orderly` | `CatchesUp` | 1 builder, 3 runs, 3 reports together |
| `merkle_rollup` | `RootsAgree`, `WitnessesRefine`, `ImplementsRollup` | depth 2, 2 keys, 2 builders, 3 runs, 2 packages and reports waiting |
| `builder_process` | `HeadNamesState`, `SubmittedIsSaved`, `DeliveredAsAssumed`, `CrashDamagesOneFile`, `OverrideRecovers`, `StateFilesKept` | 2 processes, 2 runs of one or two packages, 2 crashes, 2 cores, state files of 2 writes |
| `operation_files` | `ReadsWhole`, `SignedFilesVerify`, `DecodesNumerals` | 2 signers of one file, 1 crash, 2 tokens, 3 unsigned files, 1 file written by hand out of about 230 |

Three operations are enough for a mint, a transfer and one that nets against it
or is refused after it; ledgers are carried from batch to batch without a bound.
With i64::MAX = 3 two or three transfers already overflow. Three builder runs
give a state, a successor and a fork; two copies of a package are what two cores
can yield. Two processes are what a race needs. They start in an empty directory
or in one that a completed run has left, so that one of two runs may crash over
an existing `HEAD` and the other meets what it left. A state file of two writes
can be absent, empty, cut and complete. The texts in the files written by hand
are up to one digit longer than an id of two bytes in radix 2. `MaxOps`,
`MaxItems`, `MaxRuns`, `MaxBacklog`, `MaxCrashes` and `MaxEdits` are the only
bounds. Processes and signers are interchangeable and treated as symmetric.

Four runs show where the code does not do what the repository says of it:

| run | shows |
|---|---|
| `large_amounts` | an amount above i64::MAX reverses the direction of a transfer |
| `storage_full` | v1: a write that fails unnoticed leaves a token nobody holds and nobody can mint |
| `fresh_entry` | a witness of a batch that mints to an account and then transfers from it is rejected |
| `high_index` | `tree_index_from_key` clears bit 8 instead of bit 15; high indices overwrite inner nodes and the root changes on reload |

`DebitsSigned` and `NettingExact` therefore assume that the amounts of a batch
fit an i64 together, as the comment in `refinement.rs` of version 1 does, and
`WitnessReplays` and `WitnessesRefine` leave out batches that come back to a leaf,
with the same key or with another one, after creating its entry
(`RereadsFreshEntry`); the unconditional forms are the properties of the failing
runs. `ImplementsRollup` needs no such exception, because `Rollup` lets refinement
fail. `DecodesNumerals` leaves out texts with a sign. The passing runs on trees
use indices below `2^TREE_DEPTH`. `HeadNamesState` and `SubmittedIsSaved` are
stated up to the first crash: that a crash leaves a file that cannot be loaded is
documented (`state.rs:2`, "breaks on any crash"), and `CrashDamagesOneFile` and
`OverrideRecovers` say how far it goes. A process with `--head` and a state that
loads gets through and moves `HEAD` to its result, but it does not rewrite a file
that is there: repeating the very batch that crashed leaves `HEAD` at the file
the crash has cut, and only another batch leads past it.

Six more things are in the models as the code has them, without a run of their
own:

* On a leaf collision `set_balance` panics, and in a debug build `state_transition`
  panics on overflow; `Drop` then persists the state in the middle of the batch and
  moves `HEAD` to it (`state.rs:169-173`), and nothing is submitted. `builder_state`
  includes such runs: `HeadHoldsPrefix` says what is left of them, `HeadHoldsResult`
  and `WitnessReplays` speak of the others.
* Operations have no nonce, and accumulation compares roots only
  (`accumulation.rs:124`): when the ledger comes back to an earlier state, a second
  report of a batch, which the retry at `main.rs:422` may have made, takes effect
  again. `rollup` has such behaviours. Supplies are kept all the same, and every
  move is one of a verified batch; how often a signed batch is carried out no
  property limits, since nothing in the code does.
* The newline of one `sign_ops` may change an amount or a token in the file of
  another (`sign_ops.rs:104`). Refinement refuses it; the builder, which does not
  verify, carries it out and moves its `HEAD`.
* The builder carries operations out without verifying them (`main.rs:628`), so
  `HEAD` can move to a state the chain never accepts. `Rollup` has such runs;
  `CatchesUp` is checked for properly signed operations.
* Without `--connect-rpc` the output file, which `main.rs:58` says is then
  required, is never written (`main.rs:205`): `export_payload` is only reached
  from `create_and_submit_package`. In `BuilderProcess` `Export` is likewise only
  reached by a process that has a node to talk to.
* `u8::from_str_radix` takes a plus sign, so `decode_hex` accepts texts that are
  not hex strings (`json.rs:127`).

**Deadlock** is checked where the system goes on for ever (`StateTransition`,
`LedgerServiceV1`). It is off for the other modules, in which nothing is left to
do, or nothing new to read, once the bounded number of runs is used up.

**Fairness.** `Rollup!FairSpec`: the chain goes on refining packages and
accumulating reports; builders need not run. `CatchesUp` further assumes an
orderly chain, since `3-ExternalClient.md:28-29` excludes failures and parallel
transitions.

## Theorems

The theorems hold for every number of accounts, set of tokens, integer width,
set of requests, batches or payloads, and every value of the bounds. They rest on
the assumptions named in the modules and on nothing else: the token ids in use
are finitely many (they are u32s), i64::MAX is positive, the administrator's key
decodes, requests are signed operations, there is a builder and a core, a state
file takes at least one write, every id of the right length is an account,
the account of a seed has a key, the tree has at least two leaves, and hashes of
keys are indices. Two provisos are hypotheses of the theorems that need them:
`RoomForAll` and `LowIndices`, explained below. `PROJECT.json` lists each theorem with the
property of a run that it states.

| module | theorems (property) | inductive invariant |
|---|---|---|
| `StateTransitionProofs` | `TypeCorrect`, `SupplyIsKept`, `FreshSupplyIsSigned`, `Refinement` (of `TokenSupply`) | `Inv` |
| | `LoopsAreTransition` (`TransitionExact`) | `LoopsInv` |
| | `DebitsAreSigned`, `NettingIsExact` | `NettingInv` |
| `LedgerServiceV1Proofs` | `V1Types` | `TypeInv` |
| | `CheckpointsAreExact`, `V1AgreesWithV2`, `V1Refinement`, if `RoomForAll` | `V1Inv` |
| `BuilderStateProofs` | `TypeCorrect`, `ReloadRoots`, `HashesMatch`, `HeadIsResult`, `HeadIsPrefix`, `WitnessesReplay`, if `LowIndices` | `Inv` |
| `MerkleRollupProofs` | `RootsStandForLedgers` (`RootsAgree`), `PackagesRefine` (`WitnessesRefine`), if `LowIndices` | `Inv` |
| `RollupProofs` | `RollupTypes`, `CommittedIsStored`, `GroupsAreAtomic`, `CommitmentIsSigned`, `RollupRefinement` | `RollupInv` |
| `BuilderProcessProofs` | `BuilderTypes`, `HeadNamesAState`, `SubmittedStateIsSaved`, `DeliveriesAreAssumed`, `CrashesDamageOneFile`, `OverrideIsAWayOut`, `CompleteFilesAreKept` | `BuilderInv` |
| `OperationFilesProofs` | `ReadersGetWholeFiles`, `SignedFilesAreVerified`, `TextsAreNumerals` | `FilesInv` |

Why the properties need more than themselves:

* `Inv`. `Lawful` of both ledgers: every supply fits a u64 and unknown tokens are
  held by nobody; without it an addition might saturate. `VerifyOperations(batch)`:
  what `Begin` checked still holds. `MintsKnown`: a mint that was met has made its
  token known, so the mint that creates a token is the first one in the batch.
  `NoSelfStaged`: no sum is staged between an account and itself, the one transfer
  that would create tokens. One step is covered by `MintSupply` and
  `TransferSupply` of `OperatorProofs`, and these by facts about finite sums
  (`SumToUpdate`, `TotalBounds`).
* `LoopsInv`. In the first loop state and sums are where the function is after as
  many operations. In the second some keys of the nonzero sums have been applied,
  in order, and exactly these sums are zero by now, so the first one left is that
  of the next key. That the keys in order leave none out follows from their number
  (`KeysInOrderCover`).
* `NettingInv`, for batches whose amounts fit an i64 together. No sum has wrapped;
  what an account has lost so far and what it is still to pay is covered by what it
  signed in the operations seen; and, if nothing was refused, its balance is the
  old one plus what it received, less what it sent, less what is still owed to it
  or by it.
* `V1Inv`. Between two operations the invocation sees what a failure would leave.
  After the first write of an operation it is that ledger with one value changed,
  and the balance read for the second write is still the one of the last
  checkpoint; after the second it is the ledger after the whole operation.
  `RoomForAll` says that the deposit pays for every token and every balance: the
  service ignores the error of a write, and without it the three theorems are false
  (`storage_full`); the bound of `ledger_service_v1` is just enough for it.
  `V1AgreesWithV2` is then a fact about functions (`PayloadsDoTheSame`): netting in
  `refine`, followed by single operations in `accumulate`, is the transition.
* `Inv` of `BuilderStateProofs`. Every state file is one that a transition left and
  loads to the root in its name (`FilesInv`); `HEAD`, the witness and the panic flag
  of the last run are those of the transition it made (`LastInv`). The properties
  then follow from facts about single transitions, the next paragraphs.
  `HeadIsPrefix` follows from `PanicLeavesPrefix`: up to the panic the states are
  those of the ledger rules operation by operation, the panicking one leaves one of
  the ledgers `Halfway`, and after it nothing changes. That overflow checks only add
  panics (`ChecksOnlyPanic`, `WithoutChecks`) carries the other theorems over to
  debug builds.
* `Inv` of `MerkleRollupProofs`. The same for every builder's files, with the
  ledger that `meaning` has for the root (`FileInv`); and a package that carries a
  witness has that of a run which did not panic and both ends of which its builder
  has stored (`FromRun`). Files are never removed or changed, so this stays true
  while the package waits.
* `RollupInv`. Whatever waits at the chain, a package, a segment or a report, comes
  from a stored ledger and leads to a stored one, and a report that carries a
  transition has a verified batch for it. So whichever reports are chosen, in
  whichever order, the accumulated ones are a chain of such batches.
* `BuilderInv`. Each run belongs to one process; an unfinished state file has one
  writer, which leaves it only when it is complete; whoever names a file has seen
  it; and what the node has of a run is what its process has got to, core by core.
* `FilesInv`. A file has no list, or one written by hand, or what `sign_ops` made of
  one unsigned file, possibly with something left behind it or newlines on it; a
  process that has begun to write is at such a list as well. What a reader gets of
  it has all the operations of the list, and one that a newline has changed does not
  verify (`ParsedWhole`, `SpoiltFails`). The rest is about texts: hex::encode
  and `decode_hex` are inverse (`RoundTrip`), the bytes of an account determine it
  (`BytesInjective`, from the last byte back to the first), and the bytes that a
  numeral spells are those of its value (`NumeralFacts`), for ids of any length.

**The tree.** `LowIndices` says that every key has the index of a leaf. It is what
the comment on `tree_index_from_key` promises and what the code, which clears bit 8,
does not ensure: without it `ReloadKeepsRoot` is false (`high_index`), and
`ClearingTheTopBit` proves that clearing bit `TREE_DEPTH` would ensure it. Keys
may still share a leaf. With it, the slots of the array are one for each node
(`NodesApart`); `insert` writes the path of a leaf and nothing beside it
(`InsertFacts`) and so keeps the array the tree over the entries (`InsertMatches`).
Such an array is determined by the entries (`EntriesDetermine`), hence a reload in
index order gives the same hashes (`Reload`); and, hashes being injective, its root
determines the entries, from the root down (`RootDetermines`, `RootCommits`), hence
no run is lost behind a file of the same name. `TransitionLedger` shows that a
transition on the tree that does not panic does to the balances what `Transition`
does to a ledger.

**The witness.** For the theorems on replays the leaves that a batch reads are
divided into those already read and those still untouched. The builder has recorded
what a partial tree needs for the former: the root, the siblings along their paths
as they were when the state was loaded, and the entries they had then (`Witnessed`,
kept by every operation: `WitnessRun`). Such a witness loads without changing its
root, which is that of the whole tree (`WitnessLoads`), and from then on the partial
tree has all that the whole one has at these leaves (`Covers`) and gives the same
answer to every read; a write to one of these leaves changes the same
path in both trees, because the hashes beside it are the same (`SamePath`). So the
two transitions go side by side (`Repeats`) to the same root (`WitnessSuffices`).
An entry that the batch itself created is recorded as it was created, not as
absent; that is the one case left out.

The definitions that loop are recursive functions on an interval. That such a
recursion has a solution, and only one, is proved once (`LoopRuns`, `LoopUnique`),
from induction over a set of indices (`CountUp`), itself from the
well-foundedness of the naturals (`LeastNatural`). `StageAllRun`, `MintAllRun`,
`TransferAllRun`, `TransitionsRun`, `ProcessFirstRun` and `FlattenRun` turn a
definition into its run.

Only model-checked:

* `CatchesUp`: liveness under fairness is beyond the prover.
* `ImplementsRollup`. Its safety rests on `RootsStandForLedgers`, `PackagesRefine`
  and `TransitionLedger`, which are proved, but the step from them to the
  refinement is not. It is not true of every instance: a run that panics, on a
  collision or on overflow, moves `HEAD` to a state in the middle of a batch, for
  which `Rollup` has no step, so the keys of `merkle_rollup` do not collide and its
  batches do not overflow. And a batch that
  comes back to an entry it created, which the proofs about witnesses leave out,
  needs an argument of its own: that a witness with such an entry is refused.

## Not modelled

* SCALE encoding, JSON syntax, logging and printing.
* The two delivery modes are not told apart: the same witness travels in the
  payload or in an extrinsic. The preimage mode has a flag and no code.
* What the RPC queries before a submission return, beyond an answer or an error.
* A panic of the transition in `BuilderProcess` and `Rollup`: such a run submits
  nothing, and what `Drop` stores then is what `BuilderState` and `MerkleRollup`
  say.
* Witnesses made by anybody but a builder; a power failure that loses or reorders
  writes the kernel has taken (a crash here is that of a process).
* `minimal_service`: `refine` prefixes its payload with a greeting and
  `accumulate` overwrites two unrelated entries, panicking when a write fails.
  There is no relation between pieces of state to get wrong.
* A `State` used for several witnesses without being reloaded, as only the test
  `create_token_and_distribute` does; the builder takes one per load.
* `scripts`: wrappers around the node's command line tools and sample data.

## What is left

Every invariant that a run checks is also proved, and so are the action properties
and the three refinements of `TokenSupply`. Open are:

1. `ImplementsRollup` as a theorem, for keys that do not share a leaf.
2. That a witness which holds an entry the batch created is always refused by
   `init_from_witness`, which would make the exception in `WitnessesRefine` exact.
