------------------------ MODULE BuilderProcessProofs ------------------------
(***************************************************************************)
(* Safety of the builder command for every number of processes, runs,      *)
(* cores, writes and crashes: what HEAD and the node know of is on disk,   *)
(* crashes damage one file each, and what the node received is what Rollup *)
(* assumes.                                                                *)
(***************************************************************************)
EXTENDS BuilderProcess, OperatorProofs

Before == {"ReadHead", "OpenState"}
Saving == {"CheckFile", "CreateFile", "WriteFile", "OpenHead", "CreateHead", "WriteHead"}
Sending == {"Export", "Connect", "CheckService", "Submit"}

\* Where a process has made sure of its state file.
Saved == {"OpenHead", "CreateHead", "WriteHead"} \cup Sending

Process ==
  [pc : Labels \cup Ends, run : 0..MaxRuns,
   opts : [output : BOOLEAN, connect : BOOLEAN, segment : BOOLEAN],
   override : BOOLEAN, alone : BOOLEAN, batch : Batches \cup {<<>>},
   from : LedgerState \cup {NoHead}, package : 1..2, core : 0..(Cores - 1)]

Pkg ==
  [run : 1..MaxRuns, execution : {"Immediate", "Deferring"}, witness : LedgerState,
   operations : Batches]
    \cup
  [run : 1..MaxRuns, execution : {"Deferred"}]

Submission == [packages : Seq(Pkg), received : Seq(Pkg)]

\* The processes: a run belongs to one of them.
ProcInv ==
  /\ proc \in [Procs -> Process]
  /\ sent \in Seq(Submission)
  /\ crashes \in 0..MaxCrashes
  /\ Len(sent) <= MaxRuns
  /\ \A p \in Procs : proc[p].pc \notin Ends =>
       /\ proc[p].run \in 1..Len(sent)
       /\ proc[p].batch \in Batches
       /\ proc[p].pc # "ReadHead" => proc[p].from \in LedgerState
       /\ proc[p].pc \in Before \cup Saving => proc[p].package = 1
       /\ \A q \in Procs \ {p} : proc[q].pc \notin Ends => proc[q].run # proc[p].run

\* The directory: a file has one writer, which leaves it only when it is
\* complete, and whoever names a file has seen it.
FilesInv ==
  /\ DOMAIN files \subseteq LedgerState
  /\ files \in [DOMAIN files -> 0..Writes]
  /\ head \in LedgerState \cup {NoHead, BlankHead}
  /\ head \in LedgerState => head \in DOMAIN files
  /\ \A p \in Procs : At(p, "WriteFile") =>
       /\ Result(p) \in DOMAIN files /\ files[Result(p)] < Writes
       /\ \A q \in Procs \ {p} : At(q, "WriteFile") => Result(q) # Result(p)
  /\ \A p \in Procs : proc[p].pc \in Saved => Result(p) \in DOMAIN files
  /\ crashes = 0 => \A l \in DOMAIN files : files[l] = Writes \/ Writing(l)
  /\ crashes = 0 /\ head = BlankHead => \E p \in Procs : At(p, "WriteHead")

\* The node has received all it takes of the packages before the i-th, and at
\* most m copies of that.
HasReceived(pkgs, received, i, m) ==
  IF i = 1
  THEN \E k \in 0..m : received = Copies(pkgs[1], k)
  ELSE \E n \in 1..Cores, k \in 0..m : received = Copies(pkgs[1], n) \o Copies(pkgs[2], k)

\* What the node has received of process p's packages.
Received(p) ==
  /\ proc[p].package # 1 => proc[p].opts.segment
  /\ HasReceived(sent[proc[p].run].packages, sent[proc[p].run].received, proc[p].package,
                 IF At(p, "Submit") THEN proc[p].core ELSE 0)

\* The packages of a run.
RunSent(r) ==
  \/ sent[r].packages = <<>> /\ sent[r].received = <<>>
  \/ \E from \in LedgerState, batch \in Batches, segment \in BOOLEAN :
       /\ sent[r].packages = PackagesOf(r, from, batch, segment)
       /\ sent[r].received \in Deliveries(sent[r].packages)
       /\ sent[r].received # <<>> => Transition(from, batch) \in DOMAIN files

\* What process p has made and sent of its run.
ProcSent(p) ==
  /\ proc[p].pc \in Before => sent[proc[p].run].packages = <<>>
  /\ proc[p].pc \in Before \cup Saving => sent[proc[p].run].received = <<>>
  /\ proc[p].pc \in Saving \cup Sending =>
       sent[proc[p].run].packages =
         PackagesOf(proc[p].run, proc[p].from, proc[p].batch, proc[p].opts.segment)
  /\ proc[p].pc \in Sending => Received(p)

SentInv ==
  /\ \A r \in 1..Len(sent) : RunSent(r)
  /\ \A p \in Procs : ProcSent(p)

\* A process that is alone with --head.
Recovers(p) ==
  proc[p].alone /\ proc[p].override =>
    /\ proc[p].pc # "ReadHead"
    /\ At(p, "Panicked") => ~Loadable(proc[p].from)
    /\ At(p, "CreateFile") => Result(p) \notin DOMAIN files
    /\ At(p, "CreateHead") => head = NoHead
    /\ proc[p].pc \in Sending \cup {"Done", "Failed"} => head = Result(p)

RecoveryInv ==
  \A p \in Procs :
    /\ proc[p].alone => \A q \in Procs \ {p} : proc[q].pc \in Ends
    /\ Recovers(p)

-----------------------------------------------------------------------------
(* What a step does to the processes. *)

\* p is now at pc with this state loaded, package and core; nothing else of it
\* has changed, and nothing of the others.
Becomes(p, pc, from, package, core) ==
  /\ proc' \in [Procs -> Process]
  /\ proc'[p].pc = pc /\ proc'[p].from = from
  /\ proc'[p].package = package /\ proc'[p].core = core
  /\ proc'[p].run = proc[p].run /\ proc'[p].opts = proc[p].opts
  /\ proc'[p].override = proc[p].override /\ proc'[p].alone = proc[p].alone
  /\ proc'[p].batch = proc[p].batch
  /\ \A q \in Procs \ {p} : proc'[q] = proc[q]

\* The field of a process, one by one.
LEMMA ProcessFields ==
  ASSUME proc \in [Procs -> Process], NEW p \in Procs
  PROVE  /\ proc[p].pc \in Labels \cup Ends /\ proc[p].run \in 0..MaxRuns
         /\ proc[p].opts \in [output : BOOLEAN, connect : BOOLEAN, segment : BOOLEAN]
         /\ proc[p].override \in BOOLEAN /\ proc[p].alone \in BOOLEAN
         /\ proc[p].batch \in Batches \cup {<<>>} /\ proc[p].from \in LedgerState \cup {NoHead}
         /\ proc[p].package \in 1..2 /\ proc[p].core \in 0..(Cores - 1)
BY DEF Process

\* A process goes on to another label.
LEMMA GotoBecomes ==
  ASSUME proc \in [Procs -> Process], NEW p \in Procs, NEW label \in Labels \cup Ends, Goto(p, label)
  PROVE  Becomes(p, label, proc[p].from, proc[p].package, proc[p].core)
BY DEF Goto, Becomes, Process

\* It has read HEAD.
LEMMA FromBecomes ==
  ASSUME proc \in [Procs -> Process], NEW p \in Procs, NEW label \in Labels \cup Ends,
         NEW from \in LedgerState \cup {NoHead},
         proc' = [proc EXCEPT ![p].pc = label, ![p].from = from]
  PROVE  Becomes(p, label, from, proc[p].package, proc[p].core)
BY DEF Becomes, Process

\* It goes on to the next package.
LEMMA PackageBecomes ==
  ASSUME proc \in [Procs -> Process], NEW p \in Procs, NEW label \in Labels \cup Ends,
         proc[p].package + 1 \in 1..2,
         proc' = [proc EXCEPT ![p].pc = label, ![p].package = @ + 1]
  PROVE  Becomes(p, label, proc[p].from, proc[p].package + 1, proc[p].core)
BY DEF Becomes, Process

\* It tries another core.
LEMMA CoreBecomes ==
  ASSUME proc \in [Procs -> Process], NEW p \in Procs, NEW label \in Labels \cup Ends,
         NEW core \in 0..(Cores - 1),
         \/ proc' = [proc EXCEPT ![p].pc = label, ![p].core = core]
         \/ label = proc[p].pc /\ proc' = [proc EXCEPT ![p].core = core]
  PROVE  Becomes(p, label, proc[p].from, proc[p].package, core)
<1>1. CASE proc' = [proc EXCEPT ![p].pc = label, ![p].core = core]
  BY <1>1 DEF Becomes, Process
<1>2. CASE label = proc[p].pc /\ proc' = [proc EXCEPT ![p].core = core]
  <2>1. proc' \in [Procs -> Process]
    BY <1>2 DEF Process
  <2> QED
    BY <1>2, <2>1 DEF Becomes, Process
<1> QED
  BY <1>1, <1>2

\* The next core.
LEMMA NextCore ==
  ASSUME NEW c \in 0..(Cores - 1)
  PROVE  /\ c + 1 = Cores => (c + 1) % Cores = 0
         /\ c + 1 # Cores => (c + 1) % Cores = c + 1
BY WorkPackagesAssumption

-----------------------------------------------------------------------------
(* The packages of a run. *)

\* What PackagesOf makes.
LEMMA PackagesOfType ==
  ASSUME NEW run \in 1..MaxRuns, NEW from \in LedgerState, NEW batch \in Batches, NEW segment \in BOOLEAN,
         NEW pkgs, pkgs = PackagesOf(run, from, batch, segment)
  PROVE  /\ pkgs \in Seq(Pkg) /\ Len(pkgs) = IF segment THEN 2 ELSE 1
         /\ DOMAIN pkgs = IF segment THEN {1, 2} ELSE {1}
         /\ \A i \in DOMAIN pkgs : pkgs[i] \in Pkg
         /\ pkgs[1].witness = from /\ pkgs[1].operations = batch
<1> DEFINE q(e) == [run |-> run, execution |-> e, witness |-> from, operations |-> batch]
           d == [run |-> run, execution |-> "Deferred"]
<1>1. \A e \in {"Immediate", "Deferring"} :
        q(e) \in Pkg /\ q(e).witness = from /\ q(e).operations = batch
  BY DEF Pkg
<1>2. d \in Pkg
  BY DEF Pkg
<1>3. pkgs = IF segment THEN <<q("Deferring"), d>> ELSE <<q("Immediate")>>
  BY DEF PackagesOf
<1> HIDE DEF q, d
<1>4. CASE segment
  BY <1>1, <1>2, <1>3, <1>4
<1>5. CASE ~segment
  BY <1>1, <1>3, <1>5
<1> QED
  BY <1>4, <1>5

\* One copy more.
LEMMA CopiesAppend ==
  ASSUME NEW x, NEW n \in Nat
  PROVE  /\ Append(Copies(x, n), x) = Copies(x, n + 1)
         /\ Copies(x, 0) = <<>>
         /\ \A S : x \in S => Copies(x, n) \in Seq(S)
BY DEF Copies

\* Copies of the first package, then copies of the second.
Both(x, y, n, k) == Copies(x, n) \o Copies(y, k)

\* One copy of the second package more.
LEMMA SecondAppend ==
  ASSUME NEW x, NEW y, NEW n \in Nat, NEW k \in Nat
  PROVE  /\ Append(Both(x, y, n, k), y) = Both(x, y, n, k + 1)
         /\ Both(x, y, n, 0) = Copies(x, n)
<1> DEFINE a == Copies(x, n)
           b == Copies(y, k)
           S == {x, y}
<1>1. a \in Seq(S) /\ b \in Seq(S)
  BY CopiesAppend
<1>2. Append(b, y) = Copies(y, k + 1) /\ Copies(y, 0) = <<>>
  BY CopiesAppend
<1> HIDE DEF a, b
<1>3. Append(a \o b, y) = a \o Append(b, y)
  BY <1>1
<1>4. a \o <<>> = a
  BY <1>1
<1> QED
  BY <1>2, <1>3, <1>4 DEF a, b, Both

-----------------------------------------------------------------------------
(* The whole invariant, and the steps of a process. *)

BuilderInv ==
  ProcInv /\ FilesInv /\ SentInv /\ RecoveryInv /\ CrashDamagesOneFile

\* The package being submitted.
LEMMA CurrentFacts ==
  ASSUME BuilderInv, NEW p \in Procs, proc[p].pc \in Sending
  PROVE  LET pkgs == sent[proc[p].run].packages IN
         /\ proc[p].run \in 1..Len(sent)
         /\ pkgs = PackagesOf(proc[p].run, proc[p].from, proc[p].batch, proc[p].opts.segment)
         /\ Len(pkgs) = IF proc[p].opts.segment THEN 2 ELSE 1
         /\ DOMAIN pkgs = IF proc[p].opts.segment THEN {1, 2} ELSE {1}
         /\ proc[p].package = 2 => proc[p].opts.segment
         /\ proc[p].package \in {1, 2}
         /\ CurrentPackage(p) = pkgs[proc[p].package] /\ CurrentPackage(p) \in Pkg
<1> DEFINE pkgs == sent[proc[p].run].packages
<1>1. proc[p].pc \notin Ends /\ proc[p].pc # "ReadHead"
  BY DEF Sending, Ends
<1>2. /\ proc[p].run \in 1..Len(sent) /\ proc[p].batch \in Batches /\ proc[p].from \in LedgerState
      /\ proc[p].run \in 1..MaxRuns
  BY <1>1, BuilderProcessAssumption DEF BuilderInv, ProcInv
<1>3. /\ proc[p].opts.segment \in BOOLEAN /\ proc[p].package \in {1, 2}
  BY ProcessFields DEF BuilderInv, ProcInv
<1>4. pkgs = PackagesOf(proc[p].run, proc[p].from, proc[p].batch, proc[p].opts.segment) /\ Received(p)
  BY DEF BuilderInv, SentInv, ProcSent
<1>5. proc[p].package = 2 => proc[p].opts.segment
  BY <1>4 DEF Received
<1>6. /\ Len(pkgs) = IF proc[p].opts.segment THEN 2 ELSE 1
      /\ DOMAIN pkgs = IF proc[p].opts.segment THEN {1, 2} ELSE {1}
      /\ \A i \in DOMAIN pkgs : pkgs[i] \in Pkg
  <2> DEFINE r == proc[p].run
             f == proc[p].from
             b == proc[p].batch
             sg == proc[p].opts.segment
  <2>1. /\ r \in 1..MaxRuns /\ f \in LedgerState /\ b \in Batches /\ sg \in BOOLEAN
        /\ pkgs = PackagesOf(r, f, b, sg)
    BY <1>2, <1>3, <1>4
  <2> HIDE DEF pkgs, r, f, b, sg
  <2>2. /\ Len(pkgs) = IF sg THEN 2 ELSE 1
        /\ DOMAIN pkgs = IF sg THEN {1, 2} ELSE {1}
        /\ \A i \in DOMAIN pkgs : pkgs[i] \in Pkg
    BY <2>1, PackagesOfType
  <2> QED
    BY <2>2 DEF sg
<1>7. CurrentPackage(p) = pkgs[proc[p].package]
  BY DEF CurrentPackage
<1> HIDE DEF pkgs
<1>8. CurrentPackage(p) \in Pkg
  BY <1>3, <1>5, <1>6, <1>7
<1> QED
  BY <1>2, <1>3, <1>4, <1>5, <1>6, <1>7, <1>8 DEF pkgs

\* What a submission the node takes adds.
LEMMA TakeFacts ==
  ASSUME BuilderInv, NEW p \in Procs, proc[p].pc \in Sending, NEW s, s = Take(p)
  PROVE  LET r == proc[p].run IN
         /\ s \in Seq(Submission) /\ Len(s) = Len(sent)
         /\ \A i \in 1..Len(sent) : i # r => s[i] = sent[i]
         /\ s[r].packages = sent[r].packages
         /\ s[r].received = Append(sent[r].received, CurrentPackage(p))
<1> DEFINE r == proc[p].run
           c == CurrentPackage(p)
<1>1. r \in 1..Len(sent) /\ c \in Pkg /\ sent \in Seq(Submission)
  BY CurrentFacts DEF BuilderInv, ProcInv
<1>2. s = [sent EXCEPT ![r].received = Append(@, c)]
  BY DEF Take
<1> HIDE DEF r, c
<1>3. sent[r] \in Submission /\ sent[r].received \in Seq(Pkg) /\ sent[r].packages \in Seq(Pkg)
  <2>1. sent[r] \in Submission
    BY <1>1
  <2> QED
    BY <2>1 DEF Submission
<1>4. Append(sent[r].received, c) \in Seq(Pkg)
  BY <1>1, <1>3
<1> DEFINE n == [sent[r] EXCEPT !.received = Append(sent[r].received, c)]
<1>5. n \in Submission /\ n.packages = sent[r].packages /\ n.received = Append(sent[r].received, c)
  BY <1>3, <1>4 DEF Submission
<1>6. s = [sent EXCEPT ![r] = n]
  BY <1>2
<1> HIDE DEF n
<1> QED
  BY <1>1, <1>5, <1>6 DEF r, c

-----------------------------------------------------------------------------
(* A step of process p leaves the part of the invariant that is about the  *)
(* other processes alone.                                                  *)

\* The processes.
LEMMA ProcKept ==
  ASSUME BuilderInv, NEW p \in Procs, proc[p].pc \notin Ends,
         NEW l, NEW f, NEW k, NEW c, Becomes(p, l, f, k, c),
         l # "ReadHead", l \notin Ends => f \in LedgerState, l \in Before \cup Saving => k = 1,
         sent' \in Seq(Submission), Len(sent') = Len(sent), crashes' \in 0..MaxCrashes
  PROVE  ProcInv'
<1>1. \A q \in Procs :
        /\ proc'[q].run = proc[q].run /\ proc'[q].batch = proc[q].batch
        /\ proc'[q].pc \notin Ends => proc[q].pc \notin Ends
        /\ q # p => proc'[q] = proc[q]
  BY DEF Becomes
<1>2. proc'[p].pc = l /\ proc'[p].from = f /\ proc'[p].package = k /\ proc' \in [Procs -> Process]
  BY DEF Becomes
<1>3. \A q \in Procs : proc[q].pc \notin Ends =>
       /\ proc[q].run \in 1..Len(sent)
       /\ proc[q].batch \in Batches
       /\ proc[q].pc # "ReadHead" => proc[q].from \in LedgerState
       /\ proc[q].pc \in Before \cup Saving => proc[q].package = 1
       /\ \A o \in Procs \ {q} : proc[o].pc \notin Ends => proc[o].run # proc[q].run
  BY DEF BuilderInv, ProcInv
<1>4. Len(sent') <= MaxRuns
  BY DEF BuilderInv, ProcInv
<1>5. ASSUME NEW q \in Procs, proc'[q].pc \notin Ends
      PROVE  /\ proc'[q].run \in 1..Len(sent')
             /\ proc'[q].batch \in Batches
             /\ proc'[q].pc # "ReadHead" => proc'[q].from \in LedgerState
             /\ proc'[q].pc \in Before \cup Saving => proc'[q].package = 1
             /\ \A o \in Procs \ {q} : proc'[o].pc \notin Ends => proc'[o].run # proc'[q].run
  <2>1. proc[q].pc \notin Ends /\ proc'[q].run = proc[q].run /\ proc'[q].batch = proc[q].batch
    BY <1>1, <1>5
  <2>2. proc'[q].run \in 1..Len(sent') /\ proc'[q].batch \in Batches
    BY <1>3, <2>1
  <2>3. /\ proc'[q].pc # "ReadHead" => proc'[q].from \in LedgerState
        /\ proc'[q].pc \in Before \cup Saving => proc'[q].package = 1
    <3>1. CASE q = p
      BY <1>2, <1>5, <3>1
    <3>2. CASE q # p
      <4>1. proc'[q] = proc[q]
        BY <1>1, <3>2
      <4> QED
        BY <1>3, <2>1, <4>1, Zenon
    <3> QED
      BY <3>1, <3>2
  <2>4. ASSUME NEW o \in Procs \ {q}, proc'[o].pc \notin Ends PROVE proc'[o].run # proc'[q].run
    <3>1. proc[o].pc \notin Ends /\ proc'[o].run = proc[o].run
      BY <1>1, <2>4
    <3> QED
      BY <1>3, <2>1, <3>1
  <2> QED
    BY <2>2, <2>3, <2>4
<1> QED
  BY <1>2, <1>4, <1>5 DEF ProcInv

\* The packages.  Only the run of p may change.
LEMMA SentKept ==
  ASSUME BuilderInv, NEW p \in Procs, proc[p].pc \notin Ends,
         NEW l, NEW f, NEW k, NEW c, Becomes(p, l, f, k, c),
         Len(sent') = Len(sent), \A i \in 1..Len(sent) : i # proc[p].run => sent'[i] = sent[i],
         DOMAIN files \subseteq DOMAIN files', RunSent(proc[p].run)', ProcSent(p)'
  PROVE  SentInv'
<1>1. ASSUME NEW r \in 1..Len(sent') PROVE RunSent(r)'
  <2>1. CASE r = proc[p].run
    <3>1. proc'[p].run = proc[p].run
      BY DEF Becomes
    <3> QED
      BY <2>1, <3>1
  <2>2. CASE r # proc[p].run
    <3>1. sent'[r] = sent[r] /\ RunSent(r)
      BY <2>2 DEF BuilderInv, SentInv
    <3> QED
      BY <3>1 DEF RunSent
  <2> QED
    BY <2>1, <2>2
<1>2. ASSUME NEW q \in Procs, q # p PROVE ProcSent(q)'
  <2>1. proc'[q] = proc[q] /\ ProcSent(q)
    BY <1>2 DEF Becomes, BuilderInv, SentInv
  <2>2. CASE proc[q].pc \in Before \cup Saving \cup Sending
    <3>1. proc[q].pc \notin Ends
      BY <2>2 DEF Ends, Before, Saving, Sending
    <3>2. proc[q].run \in 1..Len(sent) /\ proc[q].run # proc[p].run
      BY <1>2, <3>1 DEF BuilderInv, ProcInv
    <3>3. sent'[proc[q].run] = sent[proc[q].run]
      BY <3>2
    <3>4. Received(q)' <=> Received(q)
      BY <2>1, <3>3 DEF Received, At
    <3> HIDE DEF Received
    <3> QED
      BY <2>1, <3>3, <3>4 DEF ProcSent
  <2>3. CASE proc[q].pc \notin Before \cup Saving \cup Sending
    BY <2>1, <2>3 DEF ProcSent
  <2> QED
    BY <2>2, <2>3
<1> QED
  BY <1>1, <1>2 DEF SentInv

\* Nothing of p's run changes either.
LEMMA SentSame ==
  ASSUME BuilderInv, NEW p \in Procs, proc[p].pc \notin Ends,
         NEW l, NEW f, NEW k, NEW c, Becomes(p, l, f, k, c),
         sent' = sent, DOMAIN files \subseteq DOMAIN files', ProcSent(p)'
  PROVE  SentInv'
<1>1. proc[p].run \in 1..Len(sent)
  BY DEF BuilderInv, ProcInv
<1>2. RunSent(proc[p].run)
  BY <1>1 DEF BuilderInv, SentInv
<1>3. proc'[p].run = proc[p].run
  BY DEF Becomes
<1>4. RunSent(proc[p].run)'
  BY <1>2, <1>3 DEF RunSent
<1> QED
  BY <1>4, SentKept

\* While another process runs, a process is not alone.
LEMMA RecoveryKept ==
  ASSUME BuilderInv, NEW p \in Procs, proc[p].pc \notin Ends,
         NEW l, NEW f, NEW k, NEW c, Becomes(p, l, f, k, c), Recovers(p)'
  PROVE  RecoveryInv'
<1>1. \A q \in Procs : proc[q].alone => \A o \in Procs \ {q} : proc[o].pc \in Ends
  BY DEF BuilderInv, RecoveryInv
<1>2. \A q \in Procs \ {p} : ~proc[q].alone /\ proc'[q] = proc[q]
  BY <1>1 DEF Becomes
<1>3. \A q \in Procs \ {p} : Recovers(q)'
  BY <1>2 DEF Recovers
<1>4. proc'[p].alone = proc[p].alone
  BY DEF Becomes
<1> QED
  BY <1>1, <1>2, <1>3, <1>4 DEF RecoveryInv

\* As long as no file is damaged, the crashes so far account for all damage.
LEMMA DamageKept ==
  ASSUME CrashDamagesOneFile, Damaged' \subseteq Damaged, crashes' = crashes
  PROVE  CrashDamagesOneFile'
<1>1. PICK f \in [Damaged -> 1..crashes] : IsInjective(f)
  BY DEF CrashDamagesOneFile
<1> DEFINE g == [d \in Damaged' |-> f[d]]
<1>2. g \in [Damaged' -> 1..crashes'] /\ IsInjective(g)
  BY <1>1 DEF IsInjective
<1> HIDE DEF g
<1> QED
  BY <1>2 DEF CrashDamagesOneFile

\* Where the processes are and what they work on.
LEMMA Places ==
  ASSUME NEW p \in Procs, NEW l, NEW f, NEW k, NEW c, Becomes(p, l, f, k, c)
  PROVE  /\ \A q \in Procs \ {p} :
              /\ proc'[q] = proc[q] /\ Result(q)' = Result(q)
              /\ \A m : At(q, m)' <=> At(q, m)
         /\ Result(p)' = Transition(f, proc[p].batch)
         /\ \A m : At(p, m)' <=> l = m
         /\ proc'[p].pc = l
BY DEF Becomes, Result, At

\* A step that writes nothing.
LEMMA KeepsFiles ==
  ASSUME BuilderInv, NEW p \in Procs, NEW l, NEW f, NEW k, NEW c, Becomes(p, l, f, k, c),
         UNCHANGED <<files, head, crashes>>,
         proc[p].pc \notin {"WriteFile", "WriteHead"}, l # "WriteFile",
         l \in Saved => Transition(f, proc[p].batch) \in DOMAIN files
  PROVE  FilesInv' /\ CrashDamagesOneFile'
<1>1. \A x : Writing(x)' <=> Writing(x)
  <2>1. ~At(p, "WriteFile") /\ ~At(p, "WriteFile")'
    BY Places DEF At
  <2>2. \A q \in Procs \ {p} : Result(q)' = Result(q) /\ (At(q, "WriteFile")' <=> At(q, "WriteFile"))
    BY Places
  <2> QED
    BY <2>1, <2>2 DEF Writing
<1>2. \A q \in Procs : At(q, "WriteFile")' => At(q, "WriteFile") /\ Result(q)' = Result(q)
  BY Places
<1>3. \A q \in Procs : At(q, "WriteHead") => At(q, "WriteHead")'
  BY Places DEF At
<1>4. \A q \in Procs : proc'[q].pc \in Saved => Result(q)' \in DOMAIN files
  <2>1. \A q \in Procs : proc[q].pc \in Saved => Result(q) \in DOMAIN files
    BY DEF BuilderInv, FilesInv
  <2>2. \A q \in Procs \ {p} : proc'[q] = proc[q] /\ Result(q)' = Result(q)
    BY Places
  <2>3. Result(p)' = Transition(f, proc[p].batch) /\ proc'[p].pc = l
    BY Places
  <2> QED
    BY <2>1, <2>2, <2>3
<1>5. FilesInv'
  BY <1>1, <1>2, <1>3, <1>4 DEF FilesInv, BuilderInv
<1>6. Damaged' \subseteq Damaged
  BY <1>1, <1>3 DEF Damaged
<1>7. CrashDamagesOneFile'
  BY <1>6, DamageKept DEF BuilderInv
<1> QED
  BY <1>5, <1>7

\* A ledger is neither of the two states of HEAD that name none.
LEMMA NoLedger == NoHead \notin LedgerState /\ BlankHead \notin LedgerState /\ NoHead # BlankHead
<1>1. \A l \in LedgerState : DOMAIN l = {"known", "bal"}
  BY DEF LedgerState
<1>2. DOMAIN NoHead = {"head"} /\ DOMAIN BlankHead = {"head"}
  BY DEF NoHead, BlankHead
<1>3. NoHead.head # BlankHead.head
  BY DEF NoHead, BlankHead
<1> QED
  BY <1>1, <1>2, <1>3

\* What is known of a running process.
LEMMA Running ==
  ASSUME BuilderInv, NEW p \in Procs, proc[p].pc \notin Ends
  PROVE  /\ proc \in [Procs -> Process] /\ sent \in Seq(Submission) /\ crashes \in 0..MaxCrashes
         /\ proc[p].run \in 1..Len(sent) /\ proc[p].run \in 1..MaxRuns /\ proc[p].batch \in Batches
         /\ proc[p].batch \in Seq(SignedOperation)
         /\ proc[p].opts.segment \in BOOLEAN /\ proc[p].package \in 1..2
         /\ proc[p].core \in 0..(Cores - 1)
         /\ proc[p].pc # "ReadHead" => proc[p].from \in LedgerState /\ Result(p) \in LedgerState
         /\ proc[p].pc \in Before \cup Saving => proc[p].package = 1
         /\ ProcSent(p) /\ Recovers(p)
<1>1. /\ proc \in [Procs -> Process] /\ sent \in Seq(Submission) /\ crashes \in 0..MaxCrashes
      /\ Len(sent) <= MaxRuns
  BY DEF BuilderInv, ProcInv
<1>2. /\ proc[p].run \in 1..Len(sent) /\ proc[p].batch \in Batches
      /\ proc[p].pc # "ReadHead" => proc[p].from \in LedgerState
      /\ proc[p].pc \in Before \cup Saving => proc[p].package = 1
  BY DEF BuilderInv, ProcInv
<1>3. proc[p].opts.segment \in BOOLEAN /\ proc[p].package \in 1..2 /\ proc[p].core \in 0..(Cores - 1)
  BY <1>1, ProcessFields
<1>4. proc[p].run \in 1..MaxRuns /\ proc[p].batch \in Seq(SignedOperation)
  BY <1>1, <1>2, BuilderProcessAssumption
<1>5. proc[p].pc # "ReadHead" => Result(p) \in LedgerState
  BY <1>2, <1>4, TransitionType DEF Result
<1>6. ProcSent(p) /\ Recovers(p)
  BY DEF BuilderInv, SentInv, RecoveryInv
<1> QED
  BY <1>1, <1>2, <1>3, <1>4, <1>5, <1>6

-----------------------------------------------------------------------------
(* The actions. *)

\* A step of p that touches neither the directory nor the node.
LEMMA QuietStep ==
  ASSUME BuilderInv, NEW p \in Procs, proc[p].pc \notin Ends,
         NEW l, NEW f, NEW k, NEW c, Becomes(p, l, f, k, c), UNCHANGED <<files, head, sent, crashes>>,
         proc[p].pc \notin {"WriteFile", "WriteHead"}, l \notin {"WriteFile", "ReadHead"},
         l \notin Ends => f \in LedgerState, l \in Before \cup Saving => k = 1,
         l \in Saved => Transition(f, proc[p].batch) \in DOMAIN files, ProcSent(p)', Recovers(p)'
  PROVE  BuilderInv'
<1>1. ProcInv'
  BY Running, ProcKept
<1>2. FilesInv' /\ CrashDamagesOneFile'
  BY KeepsFiles
<1>3. SentInv'
  BY SentSame
<1>4. RecoveryInv'
  BY RecoveryKept
<1> QED
  BY <1>1, <1>2, <1>3, <1>4 DEF BuilderInv

\* read_head panics on a blank HEAD.
LEMMA ReadHeadStep ==
  ASSUME BuilderInv, NEW p \in Procs, ReadHead(p)
  PROVE  BuilderInv'
<1> DEFINE l == IF head = BlankHead THEN "Panicked" ELSE "OpenState"
           f == IF head \in {NoHead, BlankHead} THEN EmptyLedger ELSE head
<1>1. proc[p].pc = "ReadHead" /\ UNCHANGED <<files, head, sent, crashes>>
  BY DEF ReadHead, At
<1>2. proc[p].pc \notin Ends /\ proc[p].pc \in Before
  BY <1>1 DEF Ends, Before
<1>3. f \in LedgerState
  BY EmptyLawful DEF Lawful, BuilderInv, FilesInv
<1>4. l \in {"Panicked", "OpenState"}
  OBVIOUS
<1>5. proc' = [proc EXCEPT ![p].pc = l, ![p].from = f]
  BY DEF ReadHead
<1> HIDE DEF l, f
<1>6. Becomes(p, l, f, proc[p].package, proc[p].core)
  <2>1. l \in Labels \cup Ends
    BY <1>4 DEF Labels, Ends
  <2> QED
    BY <1>2, <1>3, <1>5, <2>1, FromBecomes, Running
<1>7. ProcInv'
  BY <1>1, <1>2, <1>3, <1>4, <1>6, Running, ProcKept DEF BuilderInv, ProcInv
<1>8. FilesInv' /\ CrashDamagesOneFile'
  <2>1. l \notin Saved
    BY <1>4 DEF Saved, Sending
  <2> QED
    BY <1>1, <1>4, <1>6, <2>1, KeepsFiles
<1>9. SentInv'
  <2>1. /\ sent'[proc'[p].run] = sent[proc[p].run] /\ proc'[p].pc = l
    BY <1>1, <1>6 DEF Becomes
  <2>2. sent[proc[p].run].packages = <<>> /\ sent[proc[p].run].received = <<>>
    BY <1>2, Running DEF ProcSent
  <2>3. ProcSent(p)'
    BY <1>4, <2>1, <2>2 DEF ProcSent, Before, Saving, Sending
  <2> QED
    BY <1>1, <1>2, <1>6, <2>3, SentSame
<1>10. RecoveryInv'
  <2>1. ~(proc[p].alone /\ proc[p].override)
    BY <1>1, <1>2, Running DEF Recovers
  <2>2. Recovers(p)'
    BY <1>6, <2>1 DEF Recovers, Becomes
  <2> QED
    BY <1>2, <1>6, <2>2, RecoveryKept
<1> QED
  BY <1>7, <1>8, <1>9, <1>10 DEF BuilderInv

\* The packages are made, or the state file cannot be loaded.
LEMMA OpenStateStep ==
  ASSUME BuilderInv, NEW p \in Procs, OpenState(p)
  PROVE  BuilderInv'
<1> DEFINE r == proc[p].run
           f == proc[p].from
           pkgs == PackagesOf(r, f, proc[p].batch, proc[p].opts.segment)
<1>1. proc[p].pc = "OpenState" /\ UNCHANGED <<files, head, crashes>>
  BY DEF OpenState, At
<1>2. proc[p].pc \notin Ends /\ proc[p].pc \in Before /\ proc[p].pc # "ReadHead"
  BY <1>1 DEF Ends, Before
<1>3. CASE ~Loadable(f)
  <2>1. Goto(p, "Panicked") /\ sent' = sent
    BY <1>3 DEF OpenState
  <2>2. Becomes(p, "Panicked", f, proc[p].package, proc[p].core)
    BY <1>2, <2>1, GotoBecomes, Running DEF Ends
  <2>3. ProcSent(p)'
    BY <2>2 DEF Becomes, ProcSent, Before, Saving, Sending
  <2>4. Recovers(p)'
    <3>1. ~Loadable(f)' /\ proc'[p].from = f /\ proc'[p].pc = "Panicked"
      BY <1>1, <1>3, <2>2 DEF Loadable, Becomes
    <3> QED
      BY <3>1 DEF Recovers, At, Sending
  <2> QED
    BY <1>1, <1>2, <2>1, <2>2, <2>3, <2>4, QuietStep DEF Ends, Before, Saving, Saved, Sending
<1>4. CASE Loadable(f)
  <2>1. Goto(p, "CheckFile") /\ sent' = [sent EXCEPT ![r].packages = pkgs]
    BY <1>4 DEF OpenState
  <2>2. Becomes(p, "CheckFile", f, proc[p].package, proc[p].core)
    BY <1>2, <2>1, GotoBecomes, Running DEF Labels
  <2>3. /\ r \in 1..Len(sent) /\ r \in 1..MaxRuns /\ f \in LedgerState /\ proc[p].batch \in Batches
        /\ proc[p].opts.segment \in BOOLEAN /\ sent \in Seq(Submission) /\ proc[p].package = 1
        /\ crashes \in 0..MaxCrashes
        /\ sent[r].received = <<>>
    BY <1>2, Running DEF ProcSent
  <2>4. pkgs \in Seq(Pkg)
    <3> DEFINE b == proc[p].batch
               sg == proc[p].opts.segment
    <3>1. b \in Batches /\ sg \in BOOLEAN /\ pkgs = PackagesOf(r, f, b, sg)
      BY <2>3
    <3> HIDE DEF pkgs, r, f, b, sg
    <3> QED
      BY <2>3, <3>1, PackagesOfType
  <2>5. /\ sent' \in Seq(Submission) /\ Len(sent') = Len(sent)
        /\ \A i \in 1..Len(sent) : i # r => sent'[i] = sent[i]
        /\ sent'[r].packages = pkgs /\ sent'[r].received = <<>>
    <3> HIDE DEF r, pkgs
    <3>1. sent[r] \in Submission
      BY <2>3
    <3> DEFINE n == [sent[r] EXCEPT !.packages = pkgs]
    <3>2. n \in Submission /\ n.packages = pkgs /\ n.received = sent[r].received
      BY <2>4, <3>1 DEF Submission
    <3>3. sent' = [sent EXCEPT ![r] = n]
      BY <2>1
    <3> HIDE DEF n
    <3> QED
      BY <2>3, <3>2, <3>3
  <2>6. ProcInv'
    BY <1>1, <1>2, <2>2, <2>3, <2>5, ProcKept
  <2>7. FilesInv' /\ CrashDamagesOneFile'
    BY <1>1, <2>2, KeepsFiles DEF Saved, Sending
  <2>8. SentInv'
    <3>1. RunSent(r)'
      <4>1. <<>> \in Deliveries(pkgs)
        BY DEF Deliveries
      <4>2. r' = r
        BY <2>2 DEF Becomes
      <4> QED
        BY <2>3, <2>5, <4>1, <4>2 DEF RunSent
    <3>2. /\ proc'[p].run = r /\ proc'[p].from = f /\ proc'[p].batch = proc[p].batch
          /\ proc'[p].opts = proc[p].opts /\ proc'[p].pc = "CheckFile"
      BY <2>2 DEF Becomes
    <3>3. ProcSent(p)'
      BY <2>5, <3>2 DEF ProcSent, Before, Saving, Sending
    <3> QED
      BY <1>1, <1>2, <2>2, <2>5, <3>1, <3>3, SentKept
  <2>9. RecoveryInv'
    <3>1. Recovers(p)'
      BY <2>2 DEF Recovers, Becomes, At, Sending
    <3> QED
      BY <1>2, <2>2, <3>1, RecoveryKept
  <2> QED
    BY <2>6, <2>7, <2>8, <2>9 DEF BuilderInv
<1> QED
  BY <1>3, <1>4

\* Between two labels of serialize nothing is sent.
LEMMA SavingSent ==
  ASSUME BuilderInv, NEW p \in Procs, proc[p].pc \in Saving, sent' = sent,
         NEW l \in Saving \cup {"Panicked", "Done", "Crashed"}, NEW k, NEW c, Becomes(p, l, proc[p].from, k, c)
  PROVE  ProcSent(p)'
<1>1. ProcSent(p) /\ proc[p].pc \notin Before \cup Sending
  BY DEF BuilderInv, SentInv, Saving, Before, Sending
<1>2. /\ proc'[p].run = proc[p].run /\ proc'[p].from = proc[p].from /\ proc'[p].batch = proc[p].batch
      /\ proc'[p].opts = proc[p].opts /\ proc'[p].pc = l
  BY DEF Becomes
<1>3. l \notin Before \cup Sending
  BY DEF Saving, Before, Sending
<1> QED
  BY <1>1, <1>2, <1>3 DEF ProcSent

\* An existing file is passed over.
LEMMA CheckFileStep ==
  ASSUME BuilderInv, NEW p \in Procs, CheckFile(p)
  PROVE  BuilderInv'
<1> DEFINE l == IF Result(p) \in DOMAIN files THEN "OpenHead" ELSE "CreateFile"
<1>1. proc[p].pc = "CheckFile" /\ Goto(p, l) /\ UNCHANGED <<files, head, sent, crashes>>
  BY DEF CheckFile, At
<1>2. proc[p].pc \notin Ends /\ proc[p].pc \in Saving
  BY <1>1 DEF Ends, Saving
<1>3. /\ l \in {"OpenHead", "CreateFile"}
      /\ l = "CreateFile" => Result(p) \notin DOMAIN files
      /\ l = "OpenHead" => Result(p) \in DOMAIN files
  OBVIOUS
<1> HIDE DEF l
<1>4. l \in Labels /\ l \in Saving
  BY <1>3 DEF Labels, Saving
<1>5. Becomes(p, l, proc[p].from, proc[p].package, proc[p].core)
  BY <1>1, <1>2, <1>4, GotoBecomes, Running
<1>6. ProcSent(p)'
  BY <1>1, <1>2, <1>4, <1>5, SavingSent
<1>7. Recovers(p)'
  <2>1. Result(p)' = Result(p) /\ proc'[p].pc = l
    BY <1>5 DEF Becomes, Result
  <2> QED
    BY <1>1, <1>3, <2>1 DEF Recovers, At, Sending
<1>8. l \in Saved => Transition(proc[p].from, proc[p].batch) \in DOMAIN files
  BY <1>3 DEF Saved, Sending, Result
<1>9. proc[p].from \in LedgerState /\ proc[p].package = 1
  BY <1>1, <1>2, Running
<1> QED
  BY <1>1, <1>2, <1>3, <1>5, <1>6, <1>7, <1>8, <1>9, QuietStep

\* create_new makes p the only writer of the file, or fails.
LEMMA CreateFileStep ==
  ASSUME BuilderInv, NEW p \in Procs, CreateFile(p)
  PROVE  BuilderInv'
<1> DEFINE x == Result(p)
<1>1. proc[p].pc = "CreateFile" /\ UNCHANGED <<head, sent, crashes>>
  BY DEF CreateFile, At
<1>2. proc[p].pc \notin Ends /\ proc[p].pc \in Saving
  BY <1>1 DEF Ends, Saving
<1>3. proc[p].from \in LedgerState /\ proc[p].package = 1 /\ x \in LedgerState
  BY <1>1, <1>2, Running
<1>4. CASE x \in DOMAIN files
  <2>1. Goto(p, "Panicked") /\ files' = files
    BY <1>4 DEF CreateFile
  <2>2. Becomes(p, "Panicked", proc[p].from, proc[p].package, proc[p].core)
    BY <1>2, <2>1, GotoBecomes, Running DEF Ends
  <2>3. ProcSent(p)'
    BY <1>1, <1>2, <2>2, SavingSent
  <2>4. Recovers(p)'
    <3>1. ~(proc[p].alone /\ proc[p].override)
      BY <1>1, <1>2, <1>4, Running DEF Recovers, At
    <3> QED
      BY <2>2, <3>1 DEF Recovers, Becomes
  <2> QED
    BY <1>1, <1>2, <2>1, <2>2, <2>3, <2>4, QuietStep DEF Ends, Before, Saving, Saved, Sending
<1>5. CASE x \notin DOMAIN files
  <2>1. /\ Goto(p, "WriteFile")
        /\ files' = [l \in DOMAIN files \cup {x} |-> IF l = x THEN 0 ELSE files[l]]
    BY <1>5 DEF CreateFile
  <2>2. Becomes(p, "WriteFile", proc[p].from, proc[p].package, proc[p].core)
    BY <1>2, <2>1, GotoBecomes, Running DEF Labels
  <2>3. /\ \A q \in Procs \ {p} : /\ proc'[q] = proc[q] /\ Result(q)' = Result(q)
                                  /\ \A m : At(q, m)' <=> At(q, m)
        /\ x' = x /\ At(p, "WriteFile")' /\ proc'[p].pc = "WriteFile"
    BY <2>2, Places DEF Result
  <2> HIDE DEF x
  <2>4. ProcInv'
    BY <1>1, <1>2, <1>3, <2>2, Running, ProcKept
  <2>5. SentInv'
    <3>1. ProcSent(p)'
      BY <1>1, <1>2, <2>2, SavingSent DEF Saving
    <3>2. DOMAIN files \subseteq DOMAIN files'
      BY <2>1
    <3> QED
      BY <1>1, <1>2, <2>2, <3>1, <3>2, SentSame
  <2>6. RecoveryInv'
    <3>1. Recovers(p)'
      BY <2>3 DEF Recovers, At, Sending
    <3> QED
      BY <1>2, <2>2, <3>1, RecoveryKept
  <2>7. \A l : Writing(l) \/ l = x => Writing(l)'
    <3>1. ~At(p, "WriteFile")
      BY <1>1 DEF At
    <3> QED
      BY <2>3, <3>1 DEF Writing, x
  <2>8. FilesInv'
    <3>1. FilesInv
      BY DEF BuilderInv
    <3>2. DOMAIN files' = DOMAIN files \cup {x} /\ DOMAIN files' \subseteq LedgerState
      BY <1>3, <2>1, <3>1 DEF FilesInv
    <3>3. files' \in [DOMAIN files' -> 0..Writes]
      BY <2>1, <3>1, <3>2, BuilderProcessAssumption DEF FilesInv
    <3>4. files'[x] = 0 /\ \A l \in DOMAIN files : files'[l] = files[l]
      BY <1>5, <2>1
    <3>5. head' \in LedgerState \cup {NoHead, BlankHead} /\ (head' \in LedgerState => head' \in DOMAIN files')
      BY <1>1, <3>1, <3>2 DEF FilesInv
    <3>6. \A q \in Procs : At(q, "WriteFile") => Result(q) \in DOMAIN files /\ files[Result(q)] < Writes
                                              /\ Result(q) # x
      BY <1>5, <3>1 DEF FilesInv
    <3>7. ASSUME NEW q \in Procs, At(q, "WriteFile")'
          PROVE  /\ Result(q)' \in DOMAIN files' /\ files'[Result(q)'] < Writes
                 /\ \A o \in Procs \ {q} : At(o, "WriteFile")' => Result(o)' # Result(q)'
      <4>1. CASE q = p
        <5>1. Result(q)' = x /\ 0 < Writes
          BY <2>3, <4>1, BuilderProcessAssumption DEF x
        <5> QED
          BY <2>3, <3>2, <3>4, <3>6, <4>1, <5>1
      <4>2. CASE q # p
        <5>1. At(q, "WriteFile") /\ Result(q)' = Result(q)
          BY <2>3, <3>7, <4>2
        <5>2. Result(p)' = x
          BY <2>3 DEF x
        <5>3. \A o \in Procs \ {q} : At(o, "WriteFile") => Result(o) # Result(q)
          BY <3>1, <5>1 DEF FilesInv
        <5> QED
          BY <2>3, <3>2, <3>4, <3>6, <5>1, <5>2, <5>3
      <4> QED
        BY <4>1, <4>2
    <3>8. \A q \in Procs : proc'[q].pc \in Saved => Result(q)' \in DOMAIN files'
      <4>1. "WriteFile" \notin Saved
        BY DEF Saved, Sending
      <4> QED
        BY <2>3, <3>1, <3>2, <4>1 DEF FilesInv
    <3>9. crashes' = 0 => \A l \in DOMAIN files' : files'[l] = Writes \/ Writing(l)'
      BY <1>1, <2>7, <3>1, <3>2, <3>4 DEF FilesInv
    <3>10. crashes' = 0 /\ head' = BlankHead => \E q \in Procs : At(q, "WriteHead")'
      <4>1. \A q \in Procs : At(q, "WriteHead") => At(q, "WriteHead")'
        BY <1>1, <2>3 DEF At
      <4> QED
        BY <1>1, <3>1, <4>1 DEF FilesInv
    <3> QED
      BY <3>2, <3>3, <3>5, <3>7, <3>8, <3>9, <3>10 DEF FilesInv
  <2>9. CrashDamagesOneFile'
    <3>1. \A q \in Procs : At(q, "WriteHead") => At(q, "WriteHead")'
      BY <1>1, <2>3 DEF At
    <3>2. Damaged' \subseteq Damaged
      BY <1>1, <2>1, <2>7, <3>1 DEF Damaged
    <3> QED
      BY <1>1, <3>2, DamageKept DEF BuilderInv
  <2> QED
    BY <2>4, <2>5, <2>6, <2>8, <2>9 DEF BuilderInv
<1> QED
  BY <1>4, <1>5

\* One of the writes; p stays the writer until the file is complete.
LEMMA WriteFileStep ==
  ASSUME BuilderInv, NEW p \in Procs, WriteFile(p)
  PROVE  BuilderInv'
<1> DEFINE x == Result(p)
           l == IF files[x] + 1 = Writes THEN "OpenHead" ELSE "WriteFile"
<1>1. proc[p].pc = "WriteFile" /\ UNCHANGED <<head, sent, crashes>>
  BY DEF WriteFile, At
<1>2. proc[p].pc \notin Ends /\ proc[p].pc \in Saving
  BY <1>1 DEF Ends, Saving
<1>3. proc[p].from \in LedgerState /\ proc[p].package = 1
  BY <1>1, <1>2, Running
<1>4. Goto(p, l) /\ files' = [files EXCEPT ![x] = @ + 1]
  BY DEF WriteFile
<1>5. /\ l \in {"OpenHead", "WriteFile"}
      /\ l = "OpenHead" <=> files[x] + 1 = Writes
  OBVIOUS
<1>6. FilesInv /\ x \in DOMAIN files /\ files[x] \in 0..Writes /\ files[x] < Writes
  <2>1. FilesInv /\ At(p, "WriteFile")
    BY <1>1 DEF BuilderInv, At
  <2> QED
    BY <2>1 DEF FilesInv
<1> HIDE DEF l
<1>7. Becomes(p, l, proc[p].from, proc[p].package, proc[p].core)
  BY <1>2, <1>4, <1>5, GotoBecomes, Running DEF Labels
<1>8. /\ \A q \in Procs \ {p} : /\ proc'[q] = proc[q] /\ Result(q)' = Result(q)
                                /\ \A m : At(q, m)' <=> At(q, m)
      /\ Result(p)' = x /\ (\A m : At(p, m)' <=> l = m) /\ proc'[p].pc = l
  BY <1>7, Places DEF Result
<1>9. ProcInv'
  BY <1>1, <1>2, <1>3, <1>5, <1>7, Running, ProcKept
<1> HIDE DEF x
<1>10. /\ DOMAIN files' = DOMAIN files /\ files'[x] = files[x] + 1
       /\ \A y \in DOMAIN files : y # x => files'[y] = files[y]
  BY <1>4, <1>6
<1>11. SentInv'
  <2>1. ProcSent(p)'
    BY <1>1, <1>2, <1>5, <1>7, SavingSent DEF Saving
  <2> QED
    BY <1>1, <1>2, <1>7, <1>10, <2>1, SentSame
<1>12. RecoveryInv'
  <2>1. Recovers(p)'
    BY <1>5, <1>8 DEF Recovers, At, Sending
  <2> QED
    BY <1>2, <1>7, <2>1, RecoveryKept
<1>13. \A y \in DOMAIN files : files[y] = Writes \/ Writing(y) => files'[y] = Writes \/ Writing(y)'
  <2> TAKE y \in DOMAIN files
  <2>1. CASE y = x
    <3>1. CASE l = "OpenHead"
      BY <1>5, <1>10, <2>1, <3>1
    <3>2. CASE l = "WriteFile"
      BY <1>8, <2>1, <3>2 DEF Writing
    <3> QED
      BY <1>5, <3>1, <3>2
  <2>2. CASE y # x
    BY <1>8, <1>10, <2>2 DEF Writing, x
  <2> QED
    BY <2>1, <2>2
<1>14. \A q \in Procs : At(q, "WriteHead") => At(q, "WriteHead")'
  BY <1>1, <1>8 DEF At
<1>15. FilesInv'
  <2>1. DOMAIN files' \subseteq LedgerState
    BY <1>6, <1>10 DEF FilesInv
  <2>2. files' \in [DOMAIN files' -> 0..Writes]
    <3>1. files[x] + 1 \in 0..Writes
      BY <1>6, BuilderProcessAssumption
    <3> QED
      BY <1>4, <1>6, <1>10, <3>1 DEF FilesInv
  <2>3. head' \in LedgerState \cup {NoHead, BlankHead} /\ (head' \in LedgerState => head' \in DOMAIN files')
    BY <1>1, <1>6, <1>10 DEF FilesInv
  <2>4. ASSUME NEW q \in Procs, At(q, "WriteFile")'
        PROVE  /\ Result(q)' \in DOMAIN files' /\ files'[Result(q)'] < Writes
               /\ \A o \in Procs \ {q} : At(o, "WriteFile")' => Result(o)' # Result(q)'
    <3>1. At(q, "WriteFile") /\ \A o \in Procs : Result(o)' = Result(o)
      BY <1>1, <1>8, <2>4 DEF At, x
    <3>2. /\ Result(q) \in DOMAIN files /\ files[Result(q)] < Writes
          /\ \A o \in Procs \ {q} : At(o, "WriteFile") => Result(o) # Result(q)
      BY <1>6, <3>1 DEF FilesInv
    <3>3. \A o \in Procs : At(o, "WriteFile")' => At(o, "WriteFile")
      BY <1>1, <1>8 DEF At
    <3>4. files'[Result(q)] < Writes
      <4>1. CASE q = p
        <5>1. l = "WriteFile"
          BY <1>8, <2>4, <4>1
        <5> QED
          BY <1>5, <1>6, <1>10, <4>1, <5>1, BuilderProcessAssumption DEF x
      <4>2. CASE q # p
        <5>1. At(p, "WriteFile") /\ Result(q) # x
          BY <1>1, <3>2, <4>2 DEF At, x
        <5> QED
          BY <1>10, <3>2, <5>1
      <4> QED
        BY <4>1, <4>2
    <3> QED
      BY <1>10, <3>1, <3>2, <3>3, <3>4
  <2>5. \A q \in Procs : proc'[q].pc \in Saved => Result(q)' \in DOMAIN files'
    BY <1>6, <1>8, <1>10 DEF FilesInv
  <2>6. crashes' = 0 => \A y \in DOMAIN files' : files'[y] = Writes \/ Writing(y)'
    BY <1>1, <1>6, <1>10, <1>13 DEF FilesInv
  <2>7. crashes' = 0 /\ head' = BlankHead => \E q \in Procs : At(q, "WriteHead")'
    BY <1>1, <1>6, <1>14 DEF FilesInv
  <2> QED
    BY <2>1, <2>2, <2>3, <2>4, <2>5, <2>6, <2>7 DEF FilesInv
<1>16. CrashDamagesOneFile'
  <2>1. \A y \in DOMAIN files : files[y] \in 0..Writes /\ files'[y] \in 0..Writes
    BY <1>6, <1>10, <1>15 DEF FilesInv
  <2>2. Damaged' \subseteq Damaged
    BY <1>1, <1>10, <1>13, <1>14, <2>1, BuilderProcessAssumption DEF Damaged
  <2> QED
    BY <1>1, <2>2, DamageKept DEF BuilderInv
<1> QED
  BY <1>9, <1>11, <1>12, <1>15, <1>16 DEF BuilderInv

\* HEAD exists, or has to be created.
LEMMA OpenHeadStep ==
  ASSUME BuilderInv, NEW p \in Procs, OpenHead(p)
  PROVE  BuilderInv'
<1> DEFINE l == IF head = NoHead THEN "CreateHead" ELSE "WriteHead"
<1>1. proc[p].pc = "OpenHead" /\ Goto(p, l) /\ UNCHANGED <<files, head, sent, crashes>>
  BY DEF OpenHead, At
<1>2. proc[p].pc \notin Ends /\ proc[p].pc \in Saving /\ proc[p].pc \in Saved
  BY <1>1 DEF Ends, Saving, Saved
<1>3. l \in {"CreateHead", "WriteHead"} /\ (l = "CreateHead" => head = NoHead)
  OBVIOUS
<1> HIDE DEF l
<1>4. l \in Labels /\ l \in Saving
  BY <1>3 DEF Labels, Saving
<1>5. Becomes(p, l, proc[p].from, proc[p].package, proc[p].core)
  BY <1>1, <1>2, <1>4, GotoBecomes, Running
<1>6. ProcSent(p)'
  BY <1>1, <1>2, <1>4, <1>5, SavingSent
<1>7. Recovers(p)'
  <2>1. proc'[p].pc = l
    BY <1>5 DEF Becomes
  <2> QED
    BY <1>1, <1>3, <2>1 DEF Recovers, At, Sending
<1>8. Transition(proc[p].from, proc[p].batch) \in DOMAIN files
  BY <1>2 DEF Result, BuilderInv, FilesInv
<1>9. proc[p].from \in LedgerState /\ proc[p].package = 1
  BY <1>1, <1>2, Running
<1> QED
  BY <1>1, <1>2, <1>3, <1>5, <1>6, <1>7, <1>8, <1>9, QuietStep

\* HEAD is created by a process that goes on to write it, or written.
LEMMA HeadChanged ==
  ASSUME BuilderInv, NEW p \in Procs, NEW l, NEW k, NEW c, Becomes(p, l, proc[p].from, k, c),
         UNCHANGED <<files, crashes>>, proc[p].pc # "WriteFile", l # "WriteFile", proc[p].pc \in Saved,
         Result(p) \in LedgerState, (head' = BlankHead /\ l = "WriteHead") \/ head' = Result(p)
  PROVE  FilesInv' /\ CrashDamagesOneFile'
<1>1. FilesInv /\ Result(p) \in DOMAIN files
  BY DEF BuilderInv, FilesInv
<1>2. /\ \A q \in Procs \ {p} : /\ proc'[q] = proc[q] /\ Result(q)' = Result(q)
                                /\ \A m : At(q, m)' <=> At(q, m)
      /\ Result(p)' = Result(p) /\ (\A m : At(p, m)' <=> l = m)
  BY Places DEF Result
<1>3. \A x : Writing(x)' <=> Writing(x)
  <2>1. ~At(p, "WriteFile") /\ ~At(p, "WriteFile")'
    BY <1>2 DEF At
  <2> QED
    BY <1>2, <2>1 DEF Writing
<1>4. \A q \in Procs : At(q, "WriteFile")' => At(q, "WriteFile") /\ Result(q)' = Result(q)
  BY <1>2
<1>5. \A q \in Procs : proc'[q].pc \in Saved => Result(q)' \in DOMAIN files
  BY <1>1, <1>2 DEF FilesInv
<1>6. head' = BlankHead => At(p, "WriteHead")'
  BY <1>2, NoLedger
<1>7. head' \in LedgerState \cup {NoHead, BlankHead} /\ (head' \in LedgerState => head' \in DOMAIN files)
  BY <1>1, NoLedger
<1>8. FilesInv'
  BY <1>1, <1>3, <1>4, <1>5, <1>6, <1>7 DEF FilesInv
<1>9. Damaged' \subseteq Damaged
  BY <1>3, <1>6 DEF Damaged
<1>10. CrashDamagesOneFile'
  BY <1>9, DamageKept DEF BuilderInv
<1> QED
  BY <1>8, <1>10

\* create_new of HEAD.
LEMMA CreateHeadStep ==
  ASSUME BuilderInv, NEW p \in Procs, CreateHead(p)
  PROVE  BuilderInv'
<1>1. proc[p].pc = "CreateHead" /\ UNCHANGED <<files, sent, crashes>>
  BY DEF CreateHead, At
<1>2. proc[p].pc \notin Ends /\ proc[p].pc \in Saving /\ proc[p].pc \in Saved
  BY <1>1 DEF Ends, Saving, Saved
<1>3. proc[p].from \in LedgerState /\ proc[p].package = 1 /\ Result(p) \in LedgerState
  BY <1>1, <1>2, Running
<1>4. CASE head # NoHead
  <2>1. Goto(p, "Panicked") /\ head' = head
    BY <1>4 DEF CreateHead
  <2>2. Becomes(p, "Panicked", proc[p].from, proc[p].package, proc[p].core)
    BY <1>2, <2>1, GotoBecomes, Running DEF Ends
  <2>3. ProcSent(p)'
    BY <1>1, <1>2, <2>2, SavingSent
  <2>4. Recovers(p)'
    <3>1. ~(proc[p].alone /\ proc[p].override)
      BY <1>1, <1>2, <1>4, Running DEF Recovers, At
    <3> QED
      BY <2>2, <3>1 DEF Recovers, Becomes
  <2> QED
    BY <1>1, <1>2, <2>1, <2>2, <2>3, <2>4, QuietStep DEF Ends, Before, Saving, Saved, Sending
<1>5. CASE head = NoHead
  <2>1. Goto(p, "WriteHead") /\ head' = BlankHead
    BY <1>5 DEF CreateHead
  <2>2. Becomes(p, "WriteHead", proc[p].from, proc[p].package, proc[p].core)
    BY <1>2, <2>1, GotoBecomes, Running DEF Labels
  <2>3. ProcInv'
    BY <1>1, <1>2, <1>3, <2>2, Running, ProcKept
  <2>4. FilesInv' /\ CrashDamagesOneFile'
    BY <1>1, <1>2, <1>3, <2>1, <2>2, HeadChanged
  <2>5. SentInv'
    <3>1. ProcSent(p)'
      BY <1>1, <1>2, <2>2, SavingSent DEF Saving
    <3> QED
      BY <1>1, <1>2, <2>2, <3>1, SentSame
  <2>6. RecoveryInv'
    <3>1. Recovers(p)'
      BY <2>2 DEF Recovers, Becomes, At, Sending
    <3> QED
      BY <1>2, <2>2, <3>1, RecoveryKept
  <2> QED
    BY <2>3, <2>4, <2>5, <2>6 DEF BuilderInv
<1> QED
  BY <1>4, <1>5

\* HEAD is written and the first package is next.
LEMMA WriteHeadStep ==
  ASSUME BuilderInv, NEW p \in Procs, WriteHead(p)
  PROVE  BuilderInv'
<1> DEFINE l == IF proc[p].opts.connect THEN "Export" ELSE "Done"
<1>1. proc[p].pc = "WriteHead" /\ UNCHANGED <<files, sent, crashes>> /\ head' = Result(p) /\ Goto(p, l)
  BY DEF WriteHead, At
<1>2. proc[p].pc \notin Ends /\ proc[p].pc \in Saving /\ proc[p].pc \in Saved
  BY <1>1 DEF Ends, Saving, Saved
<1>3. proc[p].from \in LedgerState /\ proc[p].package = 1 /\ Result(p) \in LedgerState
  BY <1>1, <1>2, Running
<1>4. l \in {"Export", "Done"}
  OBVIOUS
<1> HIDE DEF l
<1>5. Becomes(p, l, proc[p].from, proc[p].package, proc[p].core)
  BY <1>1, <1>2, <1>4, GotoBecomes, Running DEF Labels, Ends
<1>6. ProcInv'
  BY <1>1, <1>2, <1>3, <1>4, <1>5, Running, ProcKept
<1>7. FilesInv' /\ CrashDamagesOneFile'
  BY <1>1, <1>2, <1>3, <1>4, <1>5, HeadChanged
<1>8. SentInv'
  <2>1. /\ proc'[p].run = proc[p].run /\ proc'[p].from = proc[p].from /\ proc'[p].batch = proc[p].batch
        /\ proc'[p].opts = proc[p].opts /\ proc'[p].pc = l /\ proc'[p].package = 1
    BY <1>3, <1>5 DEF Becomes
  <2>2. /\ sent[proc[p].run].received = <<>>
        /\ sent[proc[p].run].packages =
             PackagesOf(proc[p].run, proc[p].from, proc[p].batch, proc[p].opts.segment)
    BY <1>2, Running DEF ProcSent
  <2>3. Received(p)'
    <3>1. HasReceived(sent[proc[p].run].packages, <<>>, 1, 0)
      BY CopiesAppend DEF HasReceived
    <3>2. ~At(p, "Submit")'
      BY <1>4, <2>1 DEF At
    <3> QED
      BY <1>1, <2>1, <2>2, <3>1, <3>2 DEF Received
  <2>4. ProcSent(p)'
    <3> HIDE DEF Received
    <3> QED
      BY <1>1, <1>4, <2>1, <2>2, <2>3 DEF ProcSent, Before, Saving, Sending
  <2> QED
    BY <1>1, <1>2, <1>5, <2>4, SentSame
<1>9. RecoveryInv'
  <2>1. Result(p)' = Result(p) /\ proc'[p].pc = l
    BY <1>5 DEF Becomes, Result
  <2>2. Recovers(p)'
    BY <1>1, <1>4, <2>1 DEF Recovers, At
  <2> QED
    BY <1>2, <1>5, <2>2, RecoveryKept
<1> QED
  BY <1>6, <1>7, <1>8, <1>9 DEF BuilderInv

-----------------------------------------------------------------------------
(* Submission. *)

\* One more copy, or the next package.
LEMMA OneMore ==
  ASSUME NEW pkgs, NEW rec, NEW i \in {1, 2}, NEW m \in Nat, HasReceived(pkgs, rec, i, m)
  PROVE  /\ HasReceived(pkgs, Append(rec, pkgs[i]), i, m + 1)
         /\ HasReceived(pkgs, rec, i, m + 1)
         /\ i = 1 /\ m + 1 <= Cores => HasReceived(pkgs, Append(rec, pkgs[i]), 2, 0)
<1>1. CASE i = 1
  <2>1. PICK k \in 0..m : rec = Copies(pkgs[1], k)
    BY <1>1 DEF HasReceived
  <2>2. k \in Nat /\ k \in 0..(m + 1) /\ k + 1 \in 0..(m + 1) /\ (m + 1 <= Cores => k + 1 \in 1..Cores)
    BY WorkPackagesAssumption
  <2>3. Append(rec, pkgs[1]) = Copies(pkgs[1], k + 1)
    BY <2>1, <2>2, CopiesAppend
  <2>4. Copies(pkgs[1], k + 1) = Both(pkgs[1], pkgs[2], k + 1, 0) /\ 0 \in 0..0
    BY <2>2, SecondAppend
  <2> QED
    BY <1>1, <2>1, <2>2, <2>3, <2>4 DEF HasReceived, Both
<1>2. CASE i = 2
  <2>1. PICK n \in 1..Cores, k \in 0..m : rec = Both(pkgs[1], pkgs[2], n, k)
    BY <1>2 DEF HasReceived, Both
  <2>2. n \in Nat /\ k \in Nat /\ k \in 0..(m + 1) /\ k + 1 \in 0..(m + 1)
    BY WorkPackagesAssumption
  <2> DEFINE a == pkgs[1]
             b == pkgs[2]
  <2>3. rec = Both(a, b, n, k)
    BY <2>1
  <2>4. Append(rec, b) = Both(a, b, n, k + 1)
    <3> HIDE DEF a, b
    <3>1. Append(Both(a, b, n, k), b) = Both(a, b, n, k + 1)
      BY <2>2, SecondAppend, Zenon
    <3> QED
      BY <2>3, <3>1, Zenon
  <2>5. \A j, q : j \in 0..(m + 1) /\ q = Both(a, b, n, j) => HasReceived(pkgs, q, 2, m + 1)
    BY DEF HasReceived, Both
  <2>6. HasReceived(pkgs, rec, 2, m + 1) /\ HasReceived(pkgs, Append(rec, b), 2, m + 1)
    <3> HIDE DEF a, b
    <3> QED
      BY <2>2, <2>3, <2>4, <2>5, Zenon
  <2> QED
    BY <1>2, <2>6
<1> QED
  BY <1>1, <1>2

\* Nothing but what Rollup assumes.
LEMMA ReceivedDelivered ==
  ASSUME NEW pkgs, NEW rec, NEW i \in {1, 2}, NEW m \in 0..Cores, HasReceived(pkgs, rec, i, m),
         1 \in DOMAIN pkgs, i = 2 => 2 \in DOMAIN pkgs
  PROVE  rec \in Deliveries(pkgs)
<1>1. CASE i = 1
  <2>1. PICK k \in 0..m : rec = Copies(pkgs[1], k)
    BY <1>1 DEF HasReceived
  <2>2. CASE k = 0
    BY <2>1, <2>2, CopiesAppend DEF Deliveries
  <2>3. CASE k # 0
    <3>1. k \in 1..Cores
      BY <2>3, WorkPackagesAssumption
    <3> QED
      BY <2>1, <3>1 DEF Deliveries
  <2> QED
    BY <2>2, <2>3
<1>2. CASE i = 2
  <2>1. PICK n \in 1..Cores, k \in 0..m : rec = Both(pkgs[1], pkgs[2], n, k)
    BY <1>2 DEF HasReceived, Both
  <2>2. CASE k = 0
    <3>1. rec = Copies(pkgs[1], n)
      BY <2>1, <2>2, SecondAppend, WorkPackagesAssumption
    <3> QED
      BY <3>1 DEF Deliveries
  <2>3. CASE k # 0
    <3>1. k \in 1..Cores
      BY <2>3, WorkPackagesAssumption
    <3> DEFINE both(a, b) == Both(pkgs[1], pkgs[2], a, b)
               t(j) == IF j \in DOMAIN pkgs THEN 1..Cores ELSE {}
               third == {both(a, b) : a \in t(1), b \in t(2)}
    <3>2. n \in t(1) /\ k \in t(2) /\ rec = both(n, k)
      BY <1>2, <2>1, <3>1
    <3>3. Deliveries(pkgs) = {<<>>} \cup {Copies(pkgs[1], a) : a \in t(1)} \cup third
      BY DEF Deliveries, Both
    <3>4. rec \in third
      <4> HIDE DEF both, t
      <4> QED
        BY <3>2
    <3> HIDE DEF third
    <3> QED
      BY <3>3, <3>4
  <2> QED
    BY <2>2, <2>3
<1> QED
  BY <1>1, <1>2

\* From the export of the payload to the first submission of a package.
LEMMA SendingStep ==
  ASSUME BuilderInv, NEW p \in Procs, proc[p].pc \in {"Export", "Connect", "CheckService"},
         NEW l \in {"Connect", "CheckService", "Submit", "Failed"}, NEW c,
         Becomes(p, l, proc[p].from, proc[p].package, c), l = "Submit" => c = 0,
         UNCHANGED <<files, head, sent, crashes>>
  PROVE  BuilderInv'
<1>1. proc[p].pc \notin Ends /\ proc[p].pc \in Sending /\ proc[p].pc \in Saved /\ proc[p].pc # "ReadHead"
  BY DEF Ends, Sending, Saved
<1>2. /\ proc'[p].run = proc[p].run /\ proc'[p].from = proc[p].from /\ proc'[p].batch = proc[p].batch
      /\ proc'[p].opts = proc[p].opts /\ proc'[p].pc = l /\ proc'[p].package = proc[p].package
      /\ proc'[p].core = c /\ proc'[p].alone = proc[p].alone /\ proc'[p].override = proc[p].override
  BY DEF Becomes
<1>3. ProcSent(p)'
  <2>1. ProcSent(p) /\ Received(p) /\ ~At(p, "Submit")
    BY <1>1, Running DEF ProcSent, At
  <2>2. (IF At(p, "Submit") THEN proc[p].core ELSE 0)' = 0
    BY <1>2 DEF At
  <2>3. Received(p)'
    BY <1>2, <2>1, <2>2 DEF Received
  <2> HIDE DEF Received
  <2>4. proc'[p].pc \notin Before \cup Saving
    BY <1>2 DEF Before, Saving
  <2> QED
    BY <1>1, <1>2, <2>1, <2>3, <2>4 DEF ProcSent
<1>4. Recovers(p)'
  <2>1. Result(p)' = Result(p)
    BY <1>2 DEF Result
  <2>2. proc[p].alone /\ proc[p].override => head = Result(p)
    BY <1>1, Running DEF Recovers
  <2> QED
    BY <1>2, <2>1, <2>2 DEF Recovers, At
<1>5. Transition(proc[p].from, proc[p].batch) \in DOMAIN files
  BY <1>1 DEF Result, BuilderInv, FilesInv
<1>6. proc[p].from \in LedgerState /\ l \notin Before \cup Saving
  BY <1>1, Running DEF Before, Saving
<1> QED
  BY <1>1, <1>3, <1>4, <1>5, <1>6, QuietStep

\* The three actions before a submission.
LEMMA PrepareStep ==
  ASSUME BuilderInv, NEW p \in Procs, Export(p) \/ Connect(p) \/ CheckService(p)
  PROVE  BuilderInv'
<1>1. proc[p].pc \in {"Export", "Connect", "CheckService"} /\ UNCHANGED <<files, head, sent, crashes>>
  BY DEF Export, Connect, CheckService, At
<1>2. proc[p].pc \notin Ends
  BY <1>1 DEF Ends
<1>3. proc \in [Procs -> Process] /\ 0 \in 0..(Cores - 1)
  BY <1>2, Running, WorkPackagesAssumption
<1>4. ASSUME NEW l \in {"Connect", "CheckService", "Failed"}, Goto(p, l) PROVE BuilderInv'
  <2>1. Becomes(p, l, proc[p].from, proc[p].package, proc[p].core)
    BY <1>3, <1>4, GotoBecomes DEF Labels, Ends
  <2> QED
    BY <1>1, <2>1, SendingStep
<1>5. ASSUME proc' = [proc EXCEPT ![p].pc = "Submit", ![p].core = DEFAULT_CORE] PROVE BuilderInv'
  <2>1. Becomes(p, "Submit", proc[p].from, proc[p].package, 0)
    BY <1>3, <1>5, CoreBecomes DEF Labels, DEFAULT_CORE
  <2> QED
    BY <1>1, <2>1, SendingStep
<1> QED
  BY <1>4, <1>5 DEF Export, Connect, CheckService

\* What a submission changes of p's run, whether or not the node takes the
\* package.
LEMMA SubmitReceived ==
  ASSUME BuilderInv, NEW p \in Procs, proc[p].pc = "Submit", sent' = Take(p) \/ sent' = sent
  PROVE  LET r == proc[p].run
             i == proc[p].package
             m == proc[p].core IN
         /\ sent' \in Seq(Submission) /\ Len(sent') = Len(sent)
         /\ \A j \in 1..Len(sent) : j # r => sent'[j] = sent[j]
         /\ sent'[r].packages = sent[r].packages
         /\ HasReceived(sent[r].packages, sent'[r].received, i, m + 1)
         /\ sent' = Take(p) /\ i = 1 => HasReceived(sent[r].packages, sent'[r].received, 2, 0)
<1> DEFINE r == proc[p].run
           i == proc[p].package
           m == proc[p].core
           pkgs == sent[r].packages
           rec == sent[r].received
<1>1. proc[p].pc \notin Ends /\ proc[p].pc \in Sending
  BY DEF Ends, Sending
<1>2. /\ r \in 1..Len(sent) /\ sent \in Seq(Submission) /\ m \in 0..(Cores - 1)
      /\ i \in {1, 2} /\ CurrentPackage(p) = pkgs[i]
  BY <1>1, Running, CurrentFacts
<1>3. HasReceived(pkgs, rec, i, m)
  BY <1>1, Running DEF ProcSent, Received, At
<1>4. m \in Nat /\ m + 1 <= Cores
  BY <1>2, WorkPackagesAssumption
<1>5. /\ HasReceived(pkgs, Append(rec, pkgs[i]), i, m + 1)
      /\ HasReceived(pkgs, rec, i, m + 1)
      /\ i = 1 => HasReceived(pkgs, Append(rec, pkgs[i]), 2, 0)
  <2> HIDE DEF pkgs, rec, i, m
  <2> QED
    BY <1>2, <1>3, <1>4, OneMore
<1>6. CASE sent' = Take(p)
  <2>1. /\ sent' \in Seq(Submission) /\ Len(sent') = Len(sent)
        /\ \A j \in 1..Len(sent) : j # r => sent'[j] = sent[j]
        /\ sent'[r].packages = pkgs
        /\ sent'[r].received = Append(rec, CurrentPackage(p))
    BY <1>1, <1>6, TakeFacts
  <2> HIDE DEF r, i, m, pkgs, rec
  <2>2. /\ HasReceived(pkgs, sent'[r].received, i, m + 1)
        /\ i = 1 => HasReceived(pkgs, sent'[r].received, 2, 0)
    BY <1>2, <1>5, <2>1
  <2> QED
    BY <2>1, <2>2 DEF r, i, m, pkgs, rec
<1>7. CASE sent' = sent
  BY <1>2, <1>5, <1>6, <1>7
<1> QED
  BY <1>6, <1>7

\* A submission leaves the directory alone; the node has what Rollup assumes.
LEMMA SubmitKept ==
  ASSUME BuilderInv, NEW p \in Procs, proc[p].pc = "Submit",
         NEW l \in {"Export", "Submit", "Done", "Failed"}, NEW k, NEW c,
         Becomes(p, l, proc[p].from, k, c), sent' = Take(p) \/ sent' = sent,
         UNCHANGED <<files, head, crashes>>, l \in {"Export", "Submit"} => Received(p)'
  PROVE  BuilderInv'
<1> DEFINE r == proc[p].run
           i == proc[p].package
           m == proc[p].core
           pkgs == sent[r].packages
           rec == sent'[r].received
<1>1. proc[p].pc \notin Ends /\ proc[p].pc \in Sending /\ proc[p].pc \in Saved /\ proc[p].pc # "ReadHead"
  BY DEF Ends, Sending, Saved
<1>2. /\ proc'[p].run = proc[p].run /\ proc'[p].from = proc[p].from /\ proc'[p].batch = proc[p].batch
      /\ proc'[p].opts = proc[p].opts /\ proc'[p].pc = l
      /\ proc'[p].alone = proc[p].alone /\ proc'[p].override = proc[p].override
  BY DEF Becomes
<1>3. /\ sent' \in Seq(Submission) /\ Len(sent') = Len(sent)
      /\ \A j \in 1..Len(sent) : j # r => sent'[j] = sent[j]
      /\ sent'[r].packages = pkgs
      /\ HasReceived(pkgs, rec, i, m + 1)
  BY SubmitReceived
<1>4. /\ r \in 1..Len(sent) /\ crashes \in 0..MaxCrashes /\ proc[p].from \in LedgerState
      /\ proc[p].batch \in Batches /\ proc[p].opts.segment \in BOOLEAN /\ m \in 0..(Cores - 1)
  BY <1>1, Running
<1>5. /\ pkgs = PackagesOf(r, proc[p].from, proc[p].batch, proc[p].opts.segment)
      /\ i \in {1, 2} /\ 1 \in DOMAIN pkgs /\ (i = 2 => 2 \in DOMAIN pkgs)
  BY <1>1, CurrentFacts
<1>6. Transition(proc[p].from, proc[p].batch) \in DOMAIN files
  BY <1>1 DEF Result, BuilderInv, FilesInv
<1>7. l \notin Before \cup Saving
  BY DEF Before, Saving
<1>8. rec \in Deliveries(pkgs)
  <2>1. m + 1 \in 0..Cores
    BY <1>4, WorkPackagesAssumption
  <2> DEFINE n == m + 1
  <2>2. n \in 0..Cores /\ HasReceived(pkgs, rec, i, n)
    BY <1>3, <2>1
  <2> HIDE DEF pkgs, rec, i, n
  <2> QED
    BY <1>5, <2>2, ReceivedDelivered
<1>9. ProcInv'
  BY <1>1, <1>3, <1>4, <1>7, ProcKept
<1>10. FilesInv' /\ CrashDamagesOneFile'
  <2>1. proc[p].pc \notin {"WriteFile", "WriteHead"} /\ l # "WriteFile"
    OBVIOUS
  <2> QED
    BY <1>6, <2>1, KeepsFiles
<1>11. SentInv'
  <2>1. RunSent(r)'
    <3>1. /\ sent'[r].packages = PackagesOf(r, proc[p].from, proc[p].batch, proc[p].opts.segment)
          /\ sent'[r].received \in Deliveries(sent'[r].packages)
      BY <1>3, <1>5, <1>8
    <3>2. r' = r
      BY <1>2
    <3> QED
      BY <1>4, <1>6, <3>1, <3>2 DEF RunSent
  <2>2. ProcSent(p)'
    <3>1. sent'[r].packages = PackagesOf(r, proc[p].from, proc[p].batch, proc[p].opts.segment)
      BY <1>3, <1>5
    <3>2. l \in Sending => Received(p)'
      BY DEF Sending
    <3> HIDE DEF Received
    <3> QED
      BY <1>2, <1>7, <3>1, <3>2 DEF ProcSent
  <2>3. DOMAIN files \subseteq DOMAIN files'
    OBVIOUS
  <2> QED
    BY <1>1, <1>3, <2>1, <2>2, <2>3, SentKept
<1>12. RecoveryInv'
  <2>1. Result(p)' = Result(p)
    BY <1>2 DEF Result
  <2>2. proc[p].alone /\ proc[p].override => head = Result(p)
    BY <1>1, Running DEF Recovers
  <2>3. Recovers(p)'
    BY <1>2, <2>1, <2>2 DEF Recovers, At
  <2> QED
    BY <1>1, <2>3, RecoveryKept
<1> QED
  BY <1>9, <1>10, <1>11, <1>12 DEF BuilderInv

\* The node accepts the package.
LEMMA SubmitOkStep ==
  ASSUME BuilderInv, NEW p \in Procs, SubmitOk(p)
  PROVE  BuilderInv'
<1> DEFINE r == proc[p].run
<1>1. proc[p].pc = "Submit" /\ sent' = Take(p) /\ UNCHANGED <<files, head, crashes>>
  BY DEF SubmitOk, At
<1>2. proc[p].pc \notin Ends /\ proc[p].pc \in Sending
  BY <1>1 DEF Ends, Sending
<1>3. proc \in [Procs -> Process]
  BY <1>2, Running
<1>4. CASE proc[p].package < Len(sent[r].packages)
  <2>1. proc' = [proc EXCEPT ![p].pc = "Export", ![p].package = @ + 1]
    BY <1>4 DEF SubmitOk
  <2>2. /\ proc[p].package \in {1, 2} /\ proc[p].opts.segment \in BOOLEAN
        /\ Len(sent[r].packages) = IF proc[p].opts.segment THEN 2 ELSE 1
    BY <1>2, Running, CurrentFacts
  <2>3. proc[p].package = 1 /\ proc[p].opts.segment
    BY <1>4, <2>2
  <2>4. Becomes(p, "Export", proc[p].from, proc[p].package + 1, proc[p].core)
    <3>1. proc[p].package + 1 \in 1..2 /\ "Export" \in Labels \cup Ends
      BY <2>3 DEF Labels
    <3> QED
      BY <1>3, <2>1, <3>1, PackageBecomes
  <2>5. Received(p)'
    <3>1. /\ proc'[p].package = 2 /\ proc'[p].opts.segment /\ proc'[p].run = r /\ proc'[p].pc = "Export"
      BY <2>3, <2>4 DEF Becomes
    <3>2. /\ sent'[r].packages = sent[r].packages
          /\ HasReceived(sent[r].packages, sent'[r].received, 2, 0)
      BY <1>1, <2>3, SubmitReceived
    <3> QED
      BY <3>1, <3>2 DEF Received, At
  <2> QED
    BY <1>1, <2>4, <2>5, SubmitKept
<1>5. CASE ~(proc[p].package < Len(sent[r].packages))
  <2>1. Goto(p, "Done")
    BY <1>5 DEF SubmitOk
  <2>2. Becomes(p, "Done", proc[p].from, proc[p].package, proc[p].core)
    BY <1>3, <2>1, GotoBecomes DEF Ends
  <2> QED
    BY <1>1, <2>2, SubmitKept
<1> QED
  BY <1>4, <1>5

\* The node reports an error.
LEMMA SubmitErrStep ==
  ASSUME BuilderInv, NEW p \in Procs, NEW taken \in BOOLEAN, SubmitErr(p, taken)
  PROVE  BuilderInv'
<1> DEFINE r == proc[p].run
           next == (proc[p].core + 1) % Cores
<1>1. /\ proc[p].pc = "Submit" /\ (sent' = Take(p) \/ sent' = sent)
      /\ UNCHANGED <<files, head, crashes>>
  BY DEF SubmitErr, At
<1>2. proc[p].pc \notin Ends /\ proc[p].pc \in Sending
  BY <1>1 DEF Ends, Sending
<1>3. proc \in [Procs -> Process] /\ proc[p].core \in 0..(Cores - 1) /\ proc[p].package \in {1, 2}
  BY <1>2, Running
<1>4. CASE next = 0
  <2>1. Goto(p, "Failed")
    BY <1>4 DEF SubmitErr, DEFAULT_CORE
  <2>2. Becomes(p, "Failed", proc[p].from, proc[p].package, proc[p].core)
    BY <1>3, <2>1, GotoBecomes DEF Ends
  <2> QED
    BY <1>1, <2>2, SubmitKept
<1>5. CASE next # 0
  <2>1. proc' = [proc EXCEPT ![p].core = next]
    BY <1>5 DEF SubmitErr, DEFAULT_CORE
  <2>2. next = proc[p].core + 1
    BY <1>3, <1>5, NextCore
  <2>3. proc[p].core + 1 \in 0..(Cores - 1)
    <3>1. proc[p].core + 1 # Cores
      BY <1>3, <1>5, NextCore
    <3> QED
      BY <1>3, <3>1, WorkPackagesAssumption
  <2> HIDE DEF next
  <2>4. Becomes(p, "Submit", proc[p].from, proc[p].package, next)
    <3>1. next \in 0..(Cores - 1) /\ "Submit" \in Labels \cup Ends
      BY <2>2, <2>3 DEF Labels
    <3> QED
      BY <1>1, <1>3, <2>1, <3>1, CoreBecomes
  <2>5. Received(p)'
    <3>1. /\ proc'[p].package = proc[p].package /\ proc'[p].opts = proc[p].opts /\ proc'[p].run = r
          /\ proc'[p].pc = "Submit" /\ proc'[p].core = proc[p].core + 1
      BY <2>2, <2>4 DEF Becomes
    <3>2. /\ sent'[r].packages = sent[r].packages
          /\ HasReceived(sent[r].packages, sent'[r].received, proc[p].package, proc[p].core + 1)
      BY <1>1, SubmitReceived
    <3>3. proc[p].package # 1 => proc[p].opts.segment
      BY <1>2, <1>3, CurrentFacts
    <3> QED
      BY <3>1, <3>2, <3>3 DEF Received, At
  <2> QED
    BY <1>1, <2>4, <2>5, SubmitKept
<1> QED
  BY <1>4, <1>5

-----------------------------------------------------------------------------
(* A crash, and a new run. *)

\* A crash damages the file p was filling, if any, and no other.
LEMMA CrashStep ==
  ASSUME BuilderInv, NEW p \in Procs, Crash(p)
  PROVE  BuilderInv'
<1>1. /\ proc[p].pc \notin Ends /\ crashes < MaxCrashes /\ crashes' = crashes + 1
      /\ Goto(p, "Crashed") /\ UNCHANGED <<files, head, sent>>
  BY DEF Crash
<1>2. proc \in [Procs -> Process] /\ sent \in Seq(Submission) /\ crashes \in 0..MaxCrashes
  BY <1>1, Running
<1>3. Becomes(p, "Crashed", proc[p].from, proc[p].package, proc[p].core)
  BY <1>1, <1>2, GotoBecomes DEF Ends
<1>4. /\ \A q \in Procs \ {p} : /\ proc'[q] = proc[q] /\ Result(q)' = Result(q)
                                /\ \A m : At(q, m)' <=> At(q, m)
      /\ (\A m : At(p, m)' <=> "Crashed" = m) /\ proc'[p].pc = "Crashed"
  BY <1>3, Places
<1>5. "Crashed" \in Ends /\ "Crashed" \notin Before \cup Saving \cup Sending \cup Saved
  BY DEF Ends, Before, Saving, Sending, Saved
<1>6. crashes' \in 0..MaxCrashes /\ crashes' # 0
  BY <1>1, <1>2, BuilderProcessAssumption
<1>7. ProcInv'
  <2>1. "Crashed" # "ReadHead"
    OBVIOUS
  <2> QED
    BY <1>1, <1>2, <1>3, <1>5, <1>6, <2>1, ProcKept
<1>8. SentInv'
  <2>1. ProcSent(p)'
    BY <1>4, <1>5 DEF ProcSent
  <2> QED
    BY <1>1, <1>3, <2>1, SentSame
<1>9. RecoveryInv'
  <2>1. Recovers(p)'
    BY <1>4, <1>5 DEF Recovers, At
  <2> QED
    BY <1>1, <1>3, <2>1, RecoveryKept
<1>10. FilesInv'
  <2>1. FilesInv
    BY DEF BuilderInv
  <2>2. \A q \in Procs : At(q, "WriteFile")' => At(q, "WriteFile") /\ Result(q)' = Result(q)
    BY <1>4
  <2>3. \A q \in Procs : proc'[q].pc \in Saved => Result(q)' \in DOMAIN files
    BY <1>4, <1>5, <2>1 DEF FilesInv
  <2> QED
    BY <1>1, <1>6, <2>1, <2>2, <2>3 DEF FilesInv
<1>11. CrashDamagesOneFile'
  <2> DEFINE x == IF At(p, "WriteFile") THEN Result(p) ELSE BlankHead
  <2>1. \A d : d \in DOMAIN files /\ files[d] < Writes /\ ~Writing(d)' => d \in Damaged \cup {x}
    <3> SUFFICES ASSUME NEW d, d \in DOMAIN files, files[d] < Writes, ~Writing(d)', Writing(d)
                 PROVE  d = x
      BY DEF Damaged
    <3>1. PICK q \in Procs : At(q, "WriteFile") /\ Result(q) = d
      BY DEF Writing
    <3>2. q = p
      BY <1>4, <3>1 DEF Writing
    <3> QED
      BY <3>1, <3>2
  <2>2. head = BlankHead /\ (\A q \in Procs : ~At(q, "WriteHead")') => BlankHead \in Damaged \cup {x}
    <3> SUFFICES ASSUME head = BlankHead, \A q \in Procs : ~At(q, "WriteHead")'
                 PROVE  BlankHead \in Damaged \cup {x}
      OBVIOUS
    <3>1. CASE \A q \in Procs : ~At(q, "WriteHead")
      BY <3>1 DEF Damaged
    <3>2. CASE \E q \in Procs : At(q, "WriteHead")
      <4>1. At(p, "WriteHead")
        BY <1>4, <3>2
      <4>2. ~At(p, "WriteFile")
        BY <4>1 DEF At
      <4> QED
        BY <4>2
    <3> QED
      BY <3>1, <3>2
  <2> HIDE DEF x
  <2>3. Damaged' \subseteq Damaged \cup {x}
    BY <1>1, <2>1, <2>2 DEF Damaged
  <2>4. PICK f \in [Damaged -> 1..crashes] : IsInjective(f)
    BY DEF BuilderInv, CrashDamagesOneFile
  <2> DEFINE A == Damaged
             B == Damaged'
             g == [d \in B |-> IF d \in A THEN f[d] ELSE crashes + 1]
  <2>5. f \in [A -> 1..crashes] /\ (\A a, b \in A : f[a] = f[b] => a = b) /\ B \subseteq A \cup {x}
    BY <2>3, <2>4 DEF IsInjective
  <2> HIDE DEF A, B
  <2>6. g \in [B -> 1..(crashes + 1)] /\ \A a, b \in B : g[a] = g[b] => a = b
    BY <1>2, <2>5
  <2>7. IsInjective(g) /\ g \in [B -> 1..crashes']
    BY <1>1, <2>6 DEF IsInjective
  <2> HIDE DEF g
  <2> QED
    BY <2>7 DEF CrashDamagesOneFile, B
<1> QED
  BY <1>7, <1>8, <1>9, <1>10, <1>11 DEF BuilderInv

\* What a new run changes of the processes.
LEMMA StartFacts ==
  ASSUME BuilderInv, NEW p \in Procs, NEW batch \in Batches, NEW opts \in Options,
         NEW override \in DOMAIN files \cup {EmptyLedger, NoHead}, Start(p, batch, opts, override)
  PROVE  /\ proc' \in [Procs -> Process]
         /\ proc'[p].pc = IF override = NoHead THEN "ReadHead" ELSE "OpenState"
         /\ proc'[p].run = Len(sent) + 1 /\ proc'[p].batch = batch /\ proc'[p].from = override
         /\ proc'[p].package = 1 /\ (proc'[p].override => override # NoHead)
         /\ proc'[p].alone => \A o \in Procs \ {p} : proc[o].pc \in Ends
         /\ override \in LedgerState \cup {NoHead}
         /\ \A q \in Procs \ {p} :
              /\ proc'[q].pc = proc[q].pc /\ proc'[q].run = proc[q].run /\ proc'[q].opts = proc[q].opts
              /\ proc'[q].batch = proc[q].batch /\ proc'[q].from = proc[q].from
              /\ proc'[q].package = proc[q].package /\ proc'[q].core = proc[q].core
              /\ ~proc'[q].alone
<1> DEFINE pc == IF override = NoHead THEN "ReadHead" ELSE "OpenState"
           al == \A o \in Procs \ {p} : proc[o].pc \in Ends
           ov == override # NoHead
           n == [NotStarted EXCEPT !.pc = pc, !.run = Len(sent) + 1, !.opts = opts, !.override = ov,
                                   !.alone = al, !.batch = batch, !.from = override]
           o(q) == [proc[q] EXCEPT !.alone = FALSE]
<1>1. proc \in [Procs -> Process] /\ sent \in Seq(Submission) /\ Len(sent) < MaxRuns
  BY DEF BuilderInv, ProcInv, Start
<1>2. override \in LedgerState \cup {NoHead}
  BY EmptyLawful DEF Lawful, BuilderInv, FilesInv
<1>3. pc \in Labels \cup Ends /\ al \in BOOLEAN /\ ov \in BOOLEAN
  BY DEF Labels
<1>4. opts \in [output : BOOLEAN, connect : BOOLEAN, segment : BOOLEAN]
  BY BuilderProcessAssumption
<1>5. Len(sent) + 1 \in 0..MaxRuns /\ 0 \in 0..(Cores - 1) /\ 1 \in 1..2
  BY <1>1, BuilderProcessAssumption, WorkPackagesAssumption
<1>6. (al => \A q \in Procs \ {p} : proc[q].pc \in Ends) /\ (ov => override # NoHead)
  OBVIOUS
<1>7. proc' = [q \in Procs |-> IF q # p THEN o(q) ELSE n]
  BY DEF Start
<1> HIDE DEF al, ov
<1>8. NotStarted \in Process
  <2>1. "Done" \in Labels \cup Ends /\ 0 \in 0..MaxRuns
    BY BuilderProcessAssumption DEF Ends
  <2> QED
    BY <1>5, <2>1 DEF NotStarted, Process, DEFAULT_CORE
<1>9. n \in Process /\ n.pc = pc /\ n.run = Len(sent) + 1 /\ n.batch = batch /\ n.from = override
      /\ n.package = 1 /\ n.override = ov /\ n.alone = al
  <2>1. NotStarted.package = 1
    BY DEF NotStarted
  <2> HIDE DEF pc
  <2> QED
    BY <1>2, <1>3, <1>4, <1>5, <1>8, <2>1 DEF Process
<1>10. ASSUME NEW q \in Procs
       PROVE  /\ o(q) \in Process
              /\ o(q).pc = proc[q].pc /\ o(q).run = proc[q].run /\ o(q).opts = proc[q].opts
              /\ o(q).batch = proc[q].batch /\ o(q).from = proc[q].from
              /\ o(q).package = proc[q].package /\ o(q).core = proc[q].core
              /\ ~o(q).alone
  <2>1. proc[q] \in Process
    BY <1>1
  <2> QED
    BY <2>1 DEF Process
<1> HIDE DEF n, o
<1>11. proc' \in [Procs -> Process] /\ proc'[p] = n /\ \A q \in Procs \ {p} : proc'[q] = o(q)
  BY <1>7, <1>9, <1>10
<1> QED
  BY <1>2, <1>6, <1>9, <1>10, <1>11

\* A new run has sent nothing, and takes nothing from the others.
LEMMA StartStep ==
  ASSUME BuilderInv, NEW p \in Procs, NEW batch \in Batches, NEW opts \in Options,
         NEW override \in DOMAIN files \cup {EmptyLedger, NoHead}, Start(p, batch, opts, override)
  PROVE  BuilderInv'
<1> DEFINE e == [packages |-> <<>>, received |-> <<>>]
           n == Len(sent) + 1
<1>1. /\ proc[p].pc \in Ends /\ Len(sent) < MaxRuns /\ sent' = Append(sent, e)
      /\ UNCHANGED <<files, head, crashes>>
  BY DEF Start
<1>2. /\ proc' \in [Procs -> Process]
      /\ proc'[p].pc = IF override = NoHead THEN "ReadHead" ELSE "OpenState"
      /\ proc'[p].run = n /\ proc'[p].batch = batch /\ proc'[p].from = override
      /\ proc'[p].package = 1 /\ (proc'[p].override => override # NoHead)
      /\ proc'[p].alone => \A o \in Procs \ {p} : proc[o].pc \in Ends
      /\ override \in LedgerState \cup {NoHead}
  BY StartFacts
<1>3. \A q \in Procs \ {p} :
        /\ proc'[q].pc = proc[q].pc /\ proc'[q].run = proc[q].run /\ proc'[q].opts = proc[q].opts
        /\ proc'[q].batch = proc[q].batch /\ proc'[q].from = proc[q].from
        /\ proc'[q].package = proc[q].package /\ proc'[q].core = proc[q].core
        /\ ~proc'[q].alone
  BY StartFacts
<1>4. ProcInv /\ FilesInv /\ SentInv /\ CrashDamagesOneFile
  BY DEF BuilderInv
<1>5. sent \in Seq(Submission) /\ crashes \in 0..MaxCrashes
  BY <1>4 DEF ProcInv
<1>6. e \in Submission /\ e.packages = <<>> /\ e.received = <<>>
  BY DEF Submission
<1> HIDE DEF e
<1>7. /\ sent' \in Seq(Submission) /\ Len(sent') = n /\ n \in Nat
      /\ sent'[n] = e /\ \A r \in 1..Len(sent) : sent'[r] = sent[r] /\ r # n /\ r \in 1..n
  BY <1>1, <1>5, <1>6
<1> HIDE DEF n
<1>8. /\ proc[p].pc \notin {"WriteFile", "WriteHead"} /\ proc[p].pc \notin Saved
      /\ proc'[p].pc \notin Ends /\ proc'[p].pc \in Before /\ proc'[p].pc \notin Saved \cup Saving \cup Sending
      /\ proc'[p].pc \notin {"WriteFile", "WriteHead"}
  BY <1>1, <1>2 DEF Ends, Before, Saved, Saving, Sending
<1>9. ProcInv'
  <2>1. ASSUME NEW q \in Procs, q # p, proc'[q].pc \notin Ends
        PROVE  /\ proc'[q].run \in 1..Len(sent') /\ proc'[q].run # n
               /\ proc'[q].batch \in Batches
               /\ proc'[q].pc # "ReadHead" => proc'[q].from \in LedgerState
               /\ proc'[q].pc \in Before \cup Saving => proc'[q].package = 1
               /\ \A o \in Procs \ {q} : o # p /\ proc'[o].pc \notin Ends => proc'[o].run # proc'[q].run
    <3>1. /\ proc'[q].pc = proc[q].pc /\ proc'[q].run = proc[q].run /\ proc'[q].batch = proc[q].batch
          /\ proc'[q].from = proc[q].from /\ proc'[q].package = proc[q].package
      BY <1>3, <2>1
    <3>2. /\ proc[q].run \in 1..Len(sent)
          /\ proc[q].batch \in Batches
          /\ proc[q].pc # "ReadHead" => proc[q].from \in LedgerState
          /\ proc[q].pc \in Before \cup Saving => proc[q].package = 1
          /\ \A o \in Procs \ {q} : proc[o].pc \notin Ends => proc[o].run # proc[q].run
      BY <1>4, <2>1, <3>1 DEF ProcInv
    <3>3. \A o \in Procs : o # p => proc'[o].pc = proc[o].pc /\ proc'[o].run = proc[o].run
      BY <1>3
    <3> QED
      BY <1>7, <3>1, <3>2, <3>3
  <2>2. /\ proc'[p].run \in 1..Len(sent') /\ proc'[p].batch \in Batches
        /\ proc'[p].pc # "ReadHead" => proc'[p].from \in LedgerState
    <3>1. n \in 1..Len(sent')
      BY <1>5, <1>7 DEF n
    <3> QED
      BY <1>2, <3>1
  <2>3. Len(sent') <= MaxRuns
    BY <1>1, <1>5, <1>7, BuilderProcessAssumption DEF n
  <2>4. crashes' \in 0..MaxCrashes /\ sent' \in Seq(Submission) /\ proc' \in [Procs -> Process]
    BY <1>1, <1>2, <1>5, <1>7
  <2>5. ASSUME NEW q \in Procs, proc'[q].pc \notin Ends
        PROVE  /\ proc'[q].run \in 1..Len(sent')
               /\ proc'[q].batch \in Batches
               /\ proc'[q].pc # "ReadHead" => proc'[q].from \in LedgerState
               /\ proc'[q].pc \in Before \cup Saving => proc'[q].package = 1
               /\ \A o \in Procs \ {q} : proc'[o].pc \notin Ends => proc'[o].run # proc'[q].run
    <3>1. CASE q = p
      BY <1>2, <2>1, <2>2, <3>1
    <3>2. CASE q # p
      BY <1>2, <2>1, <2>5, <3>2
    <3> QED
      BY <3>1, <3>2
  <2> QED
    BY <2>3, <2>4, <2>5 DEF ProcInv
<1>10. \A q \in Procs \ {p} : Result(q)' = Result(q) /\ \A m : At(q, m)' <=> At(q, m)
  BY <1>3 DEF Result, At
<1>11. \A x : Writing(x)' <=> Writing(x)
  <2>1. ~At(p, "WriteFile") /\ ~At(p, "WriteFile")'
    BY <1>8 DEF At
  <2> QED
    BY <1>10, <2>1 DEF Writing
<1>12. \A q \in Procs : At(q, "WriteHead")' <=> At(q, "WriteHead")
  BY <1>8, <1>10 DEF At
<1>13. FilesInv'
  <2>1. \A q \in Procs : At(q, "WriteFile")' => At(q, "WriteFile") /\ Result(q)' = Result(q)
    BY <1>8, <1>10 DEF At
  <2>2. \A q \in Procs : proc'[q].pc \in Saved => Result(q)' \in DOMAIN files
    BY <1>3, <1>4, <1>8, <1>10 DEF FilesInv
  <2> QED
    BY <1>1, <1>4, <1>11, <1>12, <2>1, <2>2 DEF FilesInv
<1>14. CrashDamagesOneFile'
  <2>1. Damaged' \subseteq Damaged
    BY <1>1, <1>11, <1>12 DEF Damaged
  <2> QED
    BY <1>1, <1>4, <2>1, DamageKept
<1>15. SentInv'
  <2>1. ASSUME NEW r \in 1..Len(sent') PROVE RunSent(r)'
    <3>1. CASE r = n
      <4>1. sent'[r].packages = <<>> /\ sent'[r].received = <<>>
        BY <1>6, <1>7, <3>1
      <4> QED
        BY <4>1 DEF RunSent
    <3>2. CASE r # n
      <4>1. r \in 1..Len(sent)
        BY <1>5, <1>7, <3>2 DEF n
      <4>2. sent'[r] = sent[r] /\ RunSent(r)
        BY <1>4, <1>7, <4>1 DEF SentInv
      <4> QED
        BY <1>1, <4>2 DEF RunSent
    <3> QED
      BY <3>1, <3>2
  <2>2. ProcSent(p)'
    <3>1. sent'[proc'[p].run].packages = <<>> /\ sent'[proc'[p].run].received = <<>>
      BY <1>2, <1>6, <1>7
    <3> QED
      BY <1>8, <3>1 DEF ProcSent
  <2>3. ASSUME NEW q \in Procs, q # p PROVE ProcSent(q)'
    <3>1. /\ proc'[q].pc = proc[q].pc /\ proc'[q].run = proc[q].run /\ proc'[q].opts = proc[q].opts
          /\ proc'[q].batch = proc[q].batch /\ proc'[q].from = proc[q].from
          /\ proc'[q].package = proc[q].package /\ proc'[q].core = proc[q].core
      BY <1>3, <2>3
    <3>2. ProcSent(q)
      BY <1>4 DEF SentInv
    <3>3. CASE proc[q].pc \in Before \cup Saving \cup Sending
      <4>1. proc[q].pc \notin Ends
        BY <3>3 DEF Ends, Before, Saving, Sending
      <4>2. sent'[proc[q].run] = sent[proc[q].run]
        BY <1>4, <1>7, <4>1 DEF ProcInv
      <4>3. Received(q)' <=> Received(q)
        BY <3>1, <4>2 DEF Received, At
      <4> HIDE DEF Received
      <4> QED
        BY <3>1, <3>2, <4>2, <4>3 DEF ProcSent
    <3>4. CASE proc[q].pc \notin Before \cup Saving \cup Sending
      BY <3>1, <3>4 DEF ProcSent
    <3> QED
      BY <3>3, <3>4
  <2> QED
    BY <2>1, <2>2, <2>3 DEF SentInv
<1>16. RecoveryInv'
  <2>1. Recovers(p)'
    <3>1. proc'[p].override => proc'[p].pc = "OpenState"
      BY <1>2
    <3> QED
      BY <1>8, <3>1 DEF Recovers, At, Ends
  <2>2. \A q \in Procs \ {p} : Recovers(q)'
    BY <1>3 DEF Recovers
  <2>3. \A q \in Procs : proc'[q].alone => \A o \in Procs \ {q} : proc'[o].pc \in Ends
    BY <1>2, <1>3
  <2> QED
    BY <2>1, <2>2, <2>3 DEF RecoveryInv
<1> QED
  BY <1>9, <1>13, <1>14, <1>15, <1>16 DEF BuilderInv

-----------------------------------------------------------------------------
(* The invariant. *)

\* It holds in a new directory and in one a completed run has left.
LEMMA InitBuilder == ASSUME Init PROVE BuilderInv
<1>1. /\ proc = [p \in Procs |-> NotStarted] /\ sent = <<>> /\ crashes = 0
  BY DEF Init
<1>2. /\ DOMAIN files \subseteq LedgerState /\ files \in [DOMAIN files -> 0..Writes]
      /\ head \in LedgerState \cup {NoHead} /\ (head \in LedgerState => head \in DOMAIN files)
      /\ \A l \in DOMAIN files : files[l] = Writes
  <2>1. CASE files = <<>> /\ head = NoHead
    BY <2>1, NoLedger
  <2>2. CASE \E batch \in Batches :
               head = Transition(EmptyLedger, batch) /\ files = [l \in {head} |-> Writes]
    <3>1. PICK batch \in Batches :
            head = Transition(EmptyLedger, batch) /\ files = [l \in {head} |-> Writes]
      BY <2>2
    <3>2. head \in LedgerState
      BY <3>1, EmptyLawful, TransitionType, BuilderProcessAssumption DEF Lawful
    <3> QED
      BY <3>1, <3>2, BuilderProcessAssumption
  <2> QED
    BY <2>1, <2>2 DEF Init
<1>3. /\ NotStarted.pc = "Done" /\ ~NotStarted.override /\ NotStarted \in Process
  <2>1. "Done" \in Labels \cup Ends /\ 0 \in 0..MaxRuns /\ 0 \in 0..(Cores - 1)
    BY BuilderProcessAssumption, WorkPackagesAssumption DEF Ends
  <2> QED
    BY <2>1 DEF NotStarted, Process, DEFAULT_CORE
<1>4. \A p \in Procs : proc[p].pc = "Done" /\ ~proc[p].override /\ proc[p].pc \in Ends
  BY <1>1, <1>3 DEF Ends
<1>5. "Done" \notin Before \cup Saving \cup Sending \cup Saved
  BY DEF Before, Saving, Sending, Saved
<1>6. ProcInv
  BY <1>1, <1>3, <1>4, BuilderProcessAssumption DEF ProcInv
<1>7. FilesInv
  <2>1. \A p \in Procs : ~At(p, "WriteFile")
    BY <1>4 DEF At
  <2> QED
    BY <1>2, <1>4, <1>5, <2>1, NoLedger DEF FilesInv
<1>8. SentInv
  <2>1. \A p \in Procs : ProcSent(p)
    BY <1>4, <1>5 DEF ProcSent
  <2> QED
    BY <1>1, <2>1 DEF SentInv
<1>9. RecoveryInv
  BY <1>4 DEF RecoveryInv, Recovers
<1>10. CrashDamagesOneFile
  <2>1. Damaged = {}
    <3>1. head # BlankHead
      BY <1>2, NoLedger
    <3>2. \A l \in DOMAIN files : ~(files[l] < Writes)
      BY <1>2, BuilderProcessAssumption
    <3> QED
      BY <3>1, <3>2 DEF Damaged
  <2> DEFINE f == [d \in {} |-> 1]
  <2>2. f \in [{} -> 1..crashes] /\ IsInjective(f)
    BY DEF IsInjective
  <2> HIDE DEF f
  <2> QED
    BY <2>1, <2>2 DEF CrashDamagesOneFile
<1> QED
  BY <1>6, <1>7, <1>8, <1>9, <1>10 DEF BuilderInv

\* Every step keeps it.
LEMMA NextBuilder == ASSUME BuilderInv, [Next]_vars PROVE BuilderInv'
<1>1. CASE Next
  <2>1. PICK p \in Procs :
          \/ \E batch \in Batches, opts \in Options,
                override \in DOMAIN files \cup {EmptyLedger, NoHead} : Start(p, batch, opts, override)
          \/ Step(p)
          \/ Crash(p)
    BY <1>1 DEF Next
  <2>2. CASE \E batch \in Batches, opts \in Options,
                override \in DOMAIN files \cup {EmptyLedger, NoHead} : Start(p, batch, opts, override)
    BY <2>2, StartStep
  <2>3. CASE ReadHead(p) \/ OpenState(p)
    BY <2>3, ReadHeadStep, OpenStateStep
  <2>4. CASE CheckFile(p) \/ CreateFile(p) \/ WriteFile(p)
    BY <2>4, CheckFileStep, CreateFileStep, WriteFileStep
  <2>5. CASE OpenHead(p) \/ CreateHead(p) \/ WriteHead(p)
    BY <2>5, OpenHeadStep, CreateHeadStep, WriteHeadStep
  <2>6. CASE Export(p) \/ Connect(p) \/ CheckService(p)
    BY <2>6, PrepareStep
  <2>7. CASE SubmitOk(p) \/ \E taken \in BOOLEAN : SubmitErr(p, taken)
    BY <2>7, SubmitOkStep, SubmitErrStep
  <2>8. CASE Crash(p)
    BY <2>8, CrashStep
  <2> QED
    BY <2>1, <2>2, <2>3, <2>4, <2>5, <2>6, <2>7, <2>8 DEF Step
<1>2. CASE UNCHANGED vars
  <2>1. /\ files' = files /\ head' = head /\ proc' = proc /\ sent' = sent /\ crashes' = crashes
    BY <1>2 DEF vars
  <2>2. ProcInv' /\ FilesInv'
    BY <2>1 DEF BuilderInv, ProcInv, FilesInv, At, Result, Writing
  <2>3. SentInv'
    BY <2>1 DEF BuilderInv, SentInv, RunSent, ProcSent, Received, At
  <2>4. RecoveryInv'
    BY <2>1 DEF BuilderInv, RecoveryInv, Recovers, At, Result, Loadable
  <2>5. CrashDamagesOneFile'
    BY <2>1 DEF BuilderInv, CrashDamagesOneFile, Damaged, Writing, At, Result
  <2> QED
    BY <2>2, <2>3, <2>4, <2>5 DEF BuilderInv
<1> QED
  BY <1>1, <1>2

\* The inductive invariant of the command: each run belongs to one process,
\* each unfinished state file has one writer, and whoever names a file has
\* seen it.
THEOREM BuilderInvariance == Spec => []BuilderInv
<1>1. Init => BuilderInv
  BY InitBuilder
<1>2. BuilderInv /\ [Next]_vars => BuilderInv'
  BY NextBuilder
<1> QED
  BY <1>1, <1>2, PTL DEF Spec

\* The variables keep their types.
THEOREM BuilderTypes == Spec => []TypeOK
<1>1. BuilderInv => TypeOK
  <2> SUFFICES ASSUME BuilderInv PROVE TypeOK
    OBVIOUS
  <2>1. ProcInv /\ FilesInv /\ SentInv
    BY DEF BuilderInv
  <2>2. \A p \in Procs :
          /\ proc[p].pc \in Labels \cup Ends
          /\ proc[p].run \in 0..MaxRuns
          /\ proc[p].from \in LedgerState \cup {NoHead}
          /\ proc[p].package \in 1..2 /\ proc[p].core \in 0..(Cores - 1)
    BY <2>1, ProcessFields DEF ProcInv
  <2>3. ASSUME NEW r \in DOMAIN sent PROVE Len(sent[r].packages) <= 2
    <3>1. r \in 1..Len(sent) /\ r \in 1..MaxRuns
      BY <2>1, BuilderProcessAssumption DEF ProcInv
    <3>2. RunSent(r)
      BY <2>1, <3>1 DEF SentInv
    <3>3. CASE sent[r].packages = <<>>
      BY <3>3
    <3>4. CASE \E from \in LedgerState, batch \in Batches, segment \in BOOLEAN :
                 sent[r].packages = PackagesOf(r, from, batch, segment)
      <4>1. PICK from \in LedgerState, batch \in Batches, segment \in BOOLEAN :
              sent[r].packages = PackagesOf(r, from, batch, segment)
        BY <3>4
      <4>2. Len(sent[r].packages) = IF segment THEN 2 ELSE 1
        BY <3>1, <4>1, PackagesOfType
      <4> QED
        BY <4>2
    <3> QED
      BY <3>2, <3>3, <3>4 DEF RunSent
  <2>4. DOMAIN files \subseteq LedgerState /\ \A l \in DOMAIN files : files[l] \in 0..Writes
    BY <2>1 DEF FilesInv
  <2> QED
    BY <2>1, <2>2, <2>3, <2>4 DEF TypeOK, ProcInv, FilesInv
<1> QED
  BY <1>1, BuilderInvariance, PTL

\* Without a crash HEAD never names a state nobody completes.
THEOREM HeadNamesAState == Spec => []HeadNamesState
<1>1. BuilderInv => HeadNamesState
  BY DEF BuilderInv, FilesInv, HeadNamesState, Loadable
<1> QED
  BY <1>1, BuilderInvariance, PTL

\* Without a crash what reached the node can be continued from.
THEOREM SubmittedStateIsSaved == Spec => []SubmittedIsSaved
<1>1. BuilderInv => SubmittedIsSaved
  <2> SUFFICES ASSUME BuilderInv, NEW r \in DOMAIN sent, crashes = 0, sent[r].received # <<>>
               PROVE  LET first == sent[r].packages[1]
                          new == Transition(first.witness, first.operations)
                      IN  Loadable(new) \/ Writing(new)
    BY DEF SubmittedIsSaved
  <2>1. r \in 1..Len(sent) /\ r \in 1..MaxRuns
    BY BuilderProcessAssumption DEF BuilderInv, ProcInv
  <2>2. RunSent(r)
    BY <2>1 DEF BuilderInv, SentInv
  <2>3. PICK from \in LedgerState, batch \in Batches, segment \in BOOLEAN :
          /\ sent[r].packages = PackagesOf(r, from, batch, segment)
          /\ Transition(from, batch) \in DOMAIN files
    BY <2>2 DEF RunSent
  <2>4. sent[r].packages[1].witness = from /\ sent[r].packages[1].operations = batch
    BY <2>1, <2>3, PackagesOfType
  <2>5. \A l \in DOMAIN files : files[l] = Writes \/ Writing(l)
    BY DEF BuilderInv, FilesInv
  <2> QED
    BY <2>3, <2>4, <2>5 DEF Loadable
<1> QED
  BY <1>1, BuilderInvariance, PTL

\* What the node has of a run is what Rollup assumes of it.
THEOREM DeliveriesAreAssumed == Spec => []DeliveredAsAssumed
<1>1. BuilderInv => DeliveredAsAssumed
  <2> SUFFICES ASSUME BuilderInv, NEW r \in DOMAIN sent
               PROVE  sent[r].received \in Deliveries(sent[r].packages)
    BY DEF DeliveredAsAssumed
  <2>1. r \in 1..Len(sent)
    BY DEF BuilderInv, ProcInv
  <2>2. RunSent(r)
    BY <2>1 DEF BuilderInv, SentInv
  <2>3. <<>> \in Deliveries(sent[r].packages)
    BY DEF Deliveries
  <2> QED
    BY <2>2, <2>3 DEF RunSent
<1> QED
  BY <1>1, BuilderInvariance, PTL

\* A crash spoils at most one file, and a panic none.
THEOREM CrashesDamageOneFile == Spec => []CrashDamagesOneFile
<1>1. BuilderInv => CrashDamagesOneFile
  BY DEF BuilderInv
<1> QED
  BY <1>1, BuilderInvariance, PTL

\* --head is a way out after a crash: the process that is given a state that
\* loads does not panic and moves HEAD to its result.
THEOREM OverrideIsAWayOut == Spec => []OverrideRecovers
<1>1. BuilderInv => OverrideRecovers
  BY DEF BuilderInv, RecoveryInv, Recovers, OverrideRecovers, Sending
<1> QED
  BY <1>1, BuilderInvariance, PTL

\* A state file that could be loaded stays so.
THEOREM CompleteFilesAreKept == Spec => StateFilesKept
<1> DEFINE Kept == \A l \in DOMAIN files : files[l] = Writes => files'[l] = Writes
<1>1. ASSUME BuilderInv, [Next]_vars PROVE [Kept]_files
  <2> SUFFICES ASSUME files' # files PROVE Kept
    OBVIOUS
  <2>1. PICK p \in Procs : CreateFile(p) \/ WriteFile(p)
    <3>1. PICK p \in Procs :
            \/ \E batch \in Batches, opts \in Options,
                  override \in DOMAIN files \cup {EmptyLedger, NoHead} : Start(p, batch, opts, override)
            \/ Step(p)
            \/ Crash(p)
      BY <1>1 DEF Next, vars
    <3>2. CreateFile(p) \/ WriteFile(p)
      BY <3>1 DEF Start, Crash, Step, ReadHead, OpenState, CheckFile, OpenHead, CreateHead, WriteHead,
                  Export, Connect, CheckService, SubmitOk, SubmitErr
    <3> QED
      BY <3>2
  <2>2. CASE CreateFile(p)
    BY <2>2 DEF CreateFile
  <2>3. CASE WriteFile(p)
    <3>1. At(p, "WriteFile") /\ files' = [files EXCEPT ![Result(p)] = @ + 1]
      BY <2>3 DEF WriteFile
    <3>2. files[Result(p)] < Writes /\ files \in [DOMAIN files -> 0..Writes]
      BY <1>1, <3>1 DEF BuilderInv, FilesInv
    <3>3. Writes \in Nat
      BY BuilderProcessAssumption
    <3> QED
      BY <3>1, <3>2, <3>3
  <2> QED
    BY <2>1, <2>2, <2>3
<1>2. BuilderInv /\ [Next]_vars => [Kept]_files
  BY <1>1
<1> QED
  BY <1>2, BuilderInvariance, PTL DEF Spec, StateFilesKept

=============================================================================
