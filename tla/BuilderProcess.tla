--------------------------- MODULE BuilderProcess ---------------------------
(***************************************************************************)
(* Runs of the command token-ledger-builder-v2 (main.rs) as processes that *)
(* share a working directory, taken apart at every system call and RPC     *)
(* another process or a crash can come between: reading HEAD and the state *)
(* file, serialize with its two create_new, the export of the payload and  *)
(* the submission, core by core.                                           *)
(*                                                                         *)
(* As in Rollup a root is the ledger it commits to, so a state file is     *)
(* known by the ledger it should hold; its content is how many of its      *)
(* writes have been done.  Loading a file that lacks one of them panics.   *)
(* A crash stops a process between two calls and loses nothing the kernel  *)
(* has taken; an I/O error that an unwrap() panics on looks the same.      *)
(***************************************************************************)
EXTENDS WorkPackages

CONSTANTS Procs,      \* processes that may run at the same time
          Batches,    \* the operation files given to them
          Options,    \* the command lines in use: output, connect, segment
          Writes,     \* writes that make up a state file
          MaxRuns,    \* bound: runs of the command
          MaxCrashes  \* bound: processes killed

ASSUME BuilderProcessAssumption ==
  /\ \A b \in Batches : b \in Seq(SignedOperation)
  /\ Options \subseteq [output : BOOLEAN, connect : BOOLEAN, segment : BOOLEAN]
  /\ Writes \in Nat \ {0} /\ MaxRuns \in Nat /\ MaxCrashes \in Nat

VARIABLES files,   \* the state files: ledger |-> writes done
          head,    \* the file HEAD: NoHead, BlankHead or a ledger
          proc,    \* what each process is doing
          sent,    \* per run, the packages it makes and what the node took of them
          crashes  \* processes killed so far

vars == <<files, head, proc, sent, crashes>>

NoHead == [head |-> "missing"]
BlankHead == [head |-> "blank"]
DEFAULT_CORE == 0

\* The ways a process ends: the end of main, exit(1), a panic, a crash.
Ends == {"Done", "Failed", "Panicked", "Crashed"}

NotStarted ==
  [pc |-> "Done", run |-> 0, opts |-> [output |-> TRUE, connect |-> FALSE, segment |-> FALSE],
   override |-> FALSE, alone |-> TRUE, batch |-> <<>>, from |-> NoHead, package |-> 1,
   core |-> DEFAULT_CORE]

\* A new directory, or one a completed run has left.
Init ==
  /\ \/ files = <<>> /\ head = NoHead
     \/ \E batch \in Batches :
          /\ head = Transition(EmptyLedger, batch)
          /\ files = [l \in {head} |-> Writes]
  /\ proc = [p \in Procs |-> NotStarted]
  /\ sent = <<>>
  /\ crashes = 0

At(p, label) == proc[p].pc = label
Goto(p, label) == proc' = [proc EXCEPT ![p].pc = label]

\* The state of this process after the transition.
Result(p) == Transition(proc[p].from, proc[p].batch)

\* The genesis state needs no file.
Loadable(l) == l = EmptyLedger \/ (l \in DOMAIN files /\ files[l] = Writes)

-----------------------------------------------------------------------------
(* From the command line to the transition. *)

\* The early returns: an output file or a node is needed.  `override` is the
\* root given with --head, or NoHead.  `alone` is history: no other process ran
\* since this one was started.
Start(p, batch, opts, override) ==
  /\ proc[p].pc \in Ends
  /\ Len(sent) < MaxRuns
  /\ opts.connect \/ opts.output
  /\ proc' = [q \in Procs |->
       IF q # p THEN [proc[q] EXCEPT !.alone = FALSE]
       ELSE [NotStarted EXCEPT
          !.pc = IF override = NoHead THEN "ReadHead" ELSE "OpenState",
          !.run = Len(sent) + 1, !.opts = opts, !.override = override # NoHead,
          !.alone = \A other \in Procs \ {p} : proc[other].pc \in Ends,
          !.batch = batch, !.from = override]]
  /\ sent' = Append(sent, [packages |-> <<>>, received |-> <<>>])
  /\ UNCHANGED <<files, head, crashes>>

\* read_head: without a HEAD the builder starts at genesis; copy_from_slice
\* panics on an empty one.
ReadHead(p) ==
  /\ At(p, "ReadHead")
  /\ proc' = [proc EXCEPT
       ![p].pc = IF head = BlankHead THEN "Panicked" ELSE "OpenState",
       ![p].from = IF head \in {NoHead, BlankHead} THEN EmptyLedger ELSE head]
  /\ UNCHANGED <<files, head, sent, crashes>>

\* Faulty: the packages are sent while the state is still to be dropped.
OpenStateKeeps(p) ==
  /\ At(p, "OpenState")
  /\ Loadable(proc[p].from)
  /\ Goto(p, IF proc[p].opts.connect THEN "Export" ELSE "CheckFile")
  /\ sent' = [sent EXCEPT ![proc[p].run].packages =
       PackagesOf(proc[p].run, proc[p].from, proc[p].batch, proc[p].opts.segment)]
  /\ UNCHANGED <<files, head, crashes>>

\* from_db_path, state_transition and take_witness; then the state is dropped.
OpenState(p) ==
  /\ At(p, "OpenState")
  /\ IF Loadable(proc[p].from)
     THEN /\ Goto(p, "CheckFile")
          /\ sent' = [sent EXCEPT ![proc[p].run].packages =
               PackagesOf(proc[p].run, proc[p].from, proc[p].batch, proc[p].opts.segment)]
     ELSE Goto(p, "Panicked") /\ UNCHANGED sent
  /\ UNCHANGED <<files, head, crashes>>

-----------------------------------------------------------------------------
(* serialize *)

\* A file of this name is left alone, whatever it holds.
CheckFile(p) ==
  /\ At(p, "CheckFile")
  /\ Goto(p, IF Result(p) \in DOMAIN files THEN "OpenHead" ELSE "CreateFile")
  /\ UNCHANGED <<files, head, sent, crashes>>

\* Faulty: File::create, which empties a file that has appeared meanwhile.
CreateFileTruncates(p) ==
  /\ At(p, "CreateFile")
  /\ Goto(p, "WriteFile")
  /\ files' = [l \in DOMAIN files \cup {Result(p)} |-> IF l = Result(p) THEN 0 ELSE files[l]]
  /\ UNCHANGED <<head, sent, crashes>>

\* File::create_new fails if another process has created it meanwhile.
CreateFile(p) ==
  /\ At(p, "CreateFile")
  /\ IF Result(p) \in DOMAIN files
     THEN Goto(p, "Panicked") /\ UNCHANGED files
     ELSE /\ Goto(p, "WriteFile")
          /\ files' = [l \in DOMAIN files \cup {Result(p)} |->
                         IF l = Result(p) THEN 0 ELSE files[l]]
  /\ UNCHANGED <<head, sent, crashes>>

\* Faulty: the last write is forgotten.
WriteFileShort(p) ==
  /\ At(p, "WriteFile")
  /\ files' = [files EXCEPT ![Result(p)] = IF @ + 1 < Writes THEN @ + 1 ELSE @]
  /\ Goto(p, IF files[Result(p)] + 2 >= Writes THEN "OpenHead" ELSE "WriteFile")
  /\ UNCHANGED <<head, sent, crashes>>

\* Faulty: one write too many.
WriteFileLong(p) ==
  /\ At(p, "WriteFile")
  /\ files' = [files EXCEPT ![Result(p)] = @ + 1]
  /\ Goto(p, IF files[Result(p)] = Writes THEN "OpenHead" ELSE "WriteFile")
  /\ UNCHANGED <<head, sent, crashes>>

\* One of the writes: the number of entries, each entry, the tokens.
WriteFile(p) ==
  /\ At(p, "WriteFile")
  /\ files' = [files EXCEPT ![Result(p)] = @ + 1]
  /\ Goto(p, IF files[Result(p)] + 1 = Writes THEN "OpenHead" ELSE "WriteFile")
  /\ UNCHANGED <<head, sent, crashes>>

\* Faulty: a blank HEAD is taken for a missing one.
OpenHeadNonblank(p) ==
  /\ At(p, "OpenHead")
  /\ Goto(p, IF head \in {NoHead, BlankHead} THEN "CreateHead" ELSE "WriteHead")
  /\ UNCHANGED <<files, head, sent, crashes>>

OpenHead(p) ==
  /\ At(p, "OpenHead")
  /\ Goto(p, IF head = NoHead THEN "CreateHead" ELSE "WriteHead")
  /\ UNCHANGED <<files, head, sent, crashes>>

CreateHead(p) ==
  /\ At(p, "CreateHead")
  /\ IF head = NoHead THEN Goto(p, "WriteHead") /\ head' = BlankHead
                      ELSE Goto(p, "Panicked") /\ UNCHANGED head
  /\ UNCHANGED <<files, sent, crashes>>

\* Every root has the same length, so nothing of the old one is left.  Without
\* --connect-rpc main has nothing more to do.
WriteHead(p) ==
  /\ At(p, "WriteHead")
  /\ head' = Result(p)
  /\ Goto(p, IF proc[p].opts.connect THEN "Export" ELSE "Done")
  /\ UNCHANGED <<files, sent, crashes>>

-----------------------------------------------------------------------------
(* create_and_submit_package *)

CurrentPackage(p) == sent[proc[p].run].packages[proc[p].package]

\* export_payload: nothing reads the payload file, so its content is left out.
Export(p) ==
  /\ At(p, "Export")
  /\ Goto(p, "Connect")
  /\ UNCHANGED <<files, head, sent, crashes>>

\* connect_to_node and create_refine_context: no connection, or an error from
\* one of the queries, and the process exits.
Connect(p) ==
  /\ At(p, "Connect")
  /\ Goto(p, "CheckService") \/ Goto(p, "Failed")
  /\ UNCHANGED <<files, head, sent, crashes>>

\* get_service_data: the service, its code and the authorizer's must be there.
CheckService(p) ==
  /\ At(p, "CheckService")
  /\ \/ proc' = [proc EXCEPT ![p].pc = "Submit", ![p].core = DEFAULT_CORE]
     \/ Goto(p, "Failed")
  /\ UNCHANGED <<files, head, sent, crashes>>

Take(p) == [sent EXCEPT ![proc[p].run].received = Append(@, CurrentPackage(p))]

\* The next package, if there is one.
SubmitOk(p) ==
  /\ At(p, "Submit")
  /\ sent' = Take(p)
  /\ IF proc[p].package < Len(sent[proc[p].run].packages)
     THEN proc' = [proc EXCEPT ![p].pc = "Export", ![p].package = @ + 1]
     ELSE Goto(p, "Done")
  /\ UNCHANGED <<files, head, crashes>>

\* Faulty: after the last core main goes on with the next package.
SubmitErrContinues(p, taken) ==
  LET next == (proc[p].core + 1) % Cores IN
  /\ At(p, "Submit")
  /\ sent' = IF taken THEN Take(p) ELSE sent
  /\ IF next # DEFAULT_CORE THEN proc' = [proc EXCEPT ![p].core = next]
     ELSE IF proc[p].package < Len(sent[proc[p].run].packages)
     THEN proc' = [proc EXCEPT ![p].pc = "Export", ![p].package = @ + 1]
     ELSE Goto(p, "Failed")
  /\ UNCHANGED <<files, head, crashes>>

\* An error, also for a package the node has taken: the next core, until they
\* are all tried.
SubmitErr(p, taken) ==
  LET next == (proc[p].core + 1) % Cores IN
  /\ At(p, "Submit")
  /\ sent' = IF taken THEN Take(p) ELSE sent
  /\ IF next = DEFAULT_CORE THEN Goto(p, "Failed")
                            ELSE proc' = [proc EXCEPT ![p].core = next]
  /\ UNCHANGED <<files, head, crashes>>

-----------------------------------------------------------------------------
Crash(p) ==
  /\ proc[p].pc \notin Ends
  /\ crashes < MaxCrashes
  /\ crashes' = crashes + 1
  /\ Goto(p, "Crashed")
  /\ UNCHANGED <<files, head, sent>>

Step(p) ==
  \/ ReadHead(p) \/ OpenState(p)
  \/ CheckFile(p) \/ CreateFile(p) \/ WriteFile(p)
  \/ OpenHead(p) \/ CreateHead(p) \/ WriteHead(p)
  \/ Export(p) \/ Connect(p) \/ CheckService(p) \/ SubmitOk(p)
  \/ \E taken \in BOOLEAN : SubmitErr(p, taken)

Next ==
  \E p \in Procs :
    \/ \E batch \in Batches, opts \in Options,
          override \in DOMAIN files \cup {EmptyLedger, NoHead} : Start(p, batch, opts, override)
    \/ Step(p)
    \/ Crash(p)

Spec == Init /\ [][Next]_vars

-----------------------------------------------------------------------------
Labels ==
  {"ReadHead", "OpenState", "CheckFile", "CreateFile", "WriteFile", "OpenHead",
   "CreateHead", "WriteHead", "Export", "Connect", "CheckService", "Submit"}

TypeOK ==
  /\ DOMAIN files \subseteq LedgerState /\ \A l \in DOMAIN files : files[l] \in 0..Writes
  /\ head \in LedgerState \cup {NoHead, BlankHead}
  /\ \A p \in Procs :
       /\ proc[p].pc \in Labels \cup Ends
       /\ proc[p].run \in 0..MaxRuns
       /\ proc[p].from \in LedgerState \cup {NoHead}
       /\ proc[p].package \in 1..2 /\ proc[p].core \in 0..(Cores - 1)
  /\ \A r \in DOMAIN sent : Len(sent[r].packages) <= 2
  /\ crashes \in 0..MaxCrashes

Writing(l) == \E p \in Procs : At(p, "WriteFile") /\ Result(p) = l

\* HEAD names a state that can be loaded, or that another process is still
\* writing: a process that passes over a state file because it exists, or
\* loses a race for create_new, does not leave HEAD at one nobody completes, as
\* long as none crashes.
HeadNamesState ==
  crashes = 0 =>
    \/ head = NoHead
    \/ head = BlankHead /\ \E p \in Procs : At(p, "WriteHead")
    \/ Loadable(head)
    \/ Writing(head)

\* What reached the node can be continued from: its result is on disk before
\* the first package is sent (main drops the state before it submits), or
\* another process is writing it, as long as none crashes.
SubmittedIsSaved ==
  \A r \in DOMAIN sent :
    crashes = 0 /\ sent[r].received # <<>> =>
      LET first == sent[r].packages[1]
          new == Transition(first.witness, first.operations)
      IN  Loadable(new) \/ Writing(new)

\* What the node may have of a run is what Rollup assumes: copies of the first
\* package and, only after the node accepted it, copies of the second.
DeliveredAsAssumed ==
  \A r \in DOMAIN sent : sent[r].received \in Deliveries(sent[r].packages)

Damaged ==
  {l \in DOMAIN files : files[l] < Writes /\ ~Writing(l)}
    \cup (IF head = BlankHead /\ \A p \in Procs : ~At(p, "WriteHead") THEN {BlankHead} ELSE {})

\* "breaks on any crash" (state.rs:2) has a limit: a crash spoils at most one
\* file, the state file or HEAD it was about to fill, and a panic spoils none,
\* whatever the processes that run beside it or later do.
CrashDamagesOneFile == \E f \in [Damaged -> 1..crashes] : IsInjective(f)

\* A state file that could be loaded stays so, also when two processes find it
\* missing and both set out to create it.
StateFilesKept == [][\A l \in DOMAIN files : files[l] = Writes => files'[l] = Writes]_files

\* The way out after a crash: with --head and a file that loads, a process that
\* is alone in its directory never panics, and it leaves HEAD at its result
\* even when HEAD was blank.  A result is not rewritten when its file is there,
\* so the file HEAD ends at may be one that an earlier crash has cut: repeating
\* the very batch that crashed does not mend it, another batch leads past it.
OverrideRecovers ==
  \A p \in Procs :
    proc[p].alone /\ proc[p].override /\ Loadable(proc[p].from) =>
      /\ ~At(p, "Panicked")
      /\ proc[p].pc \in {"Export", "Connect", "CheckService", "Submit", "Done", "Failed"} => head = Result(p)

=============================================================================
