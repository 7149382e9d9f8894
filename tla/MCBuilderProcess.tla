-------------------------- MODULE MCBuilderProcess --------------------------
(* Instances of BuilderProcess for TLC: one token, two accounts and two    *)
(* batches.  Minting again, transferring from genesis, or running a batch  *)
(* another process runs as well, ends at a state that is stored already.   *)
EXTENDS BuilderProcess

MCBatches ==
  { <<Sign(Mint(1, 1, 1), 1)>>, <<Sign(Transfer(1, 2, 1, 1), 1)>> }

Opts(output, connect, segment) ==
  [output |-> output, connect |-> connect, segment |-> segment]

\* Offline; one package; two packages.
MCOptions == {Opts(TRUE, FALSE, FALSE), Opts(FALSE, TRUE, FALSE), Opts(TRUE, TRUE, TRUE)}

MCSymmetry == Permutations(Procs)

=============================================================================
