---------------------------- MODULE WorkPackages ----------------------------
(***************************************************************************)
(* The work packages a run of token-ledger-builder-v2 makes (main.rs), and *)
(* what its submission may leave of them at the chain.  BuilderProcess     *)
(* submits them call by call; Rollup takes Deliveries for the outcome.     *)
(***************************************************************************)
EXTENDS BatchOps

CONSTANT Cores  \* cores the submission is tried on in turn, 2 in the tiny config

ASSUME WorkPackagesAssumption == Cores \in Nat \ {0}

\* The packages of one run: one, or with --segment two, the second of which
\* imports what the first exports.  A witness stands for the ledger it was
\* taken from.
PackagesOf(run, from, batch, segment) ==
  IF segment
  THEN << [run |-> run, execution |-> "Deferring", witness |-> from, operations |-> batch],
          [run |-> run, execution |-> "Deferred"] >>
  ELSE << [run |-> run, execution |-> "Immediate", witness |-> from, operations |-> batch] >>

Copies(pkg, n) == [i \in 1..n |-> pkg]

\* What reaches the chain of them: submit_to_node goes on to the next core
\* after an error, which a node may also report for a package it has taken;
\* when no core is left the process exits and the next package is never made.
\* Without --connect-rpc nothing is sent.
Deliveries(pkgs) ==
  LET times(i) == IF i \in DOMAIN pkgs THEN 1..Cores ELSE {} IN
  {<<>>}
    \cup {Copies(pkgs[1], n) : n \in times(1)}
    \cup {Copies(pkgs[1], n) \o Copies(pkgs[2], m) : n \in times(1), m \in times(2)}

=============================================================================
