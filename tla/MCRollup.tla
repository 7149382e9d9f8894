------------------------------ MODULE MCRollup ------------------------------
(* Instances of Rollup for TLC: one token and two accounts.  The transfers *)
(* undo each other, so that the ledger returns to a root it had before.    *)
EXTENDS Rollup

MCSignedBatches ==
  { <<Sign(Mint(1, 1, 2), 1)>>,
    <<Sign(Transfer(1, 2, 1, 1), 1)>>,
    <<Sign(Transfer(2, 1, 1, 1), 2)>> }

\* The last two do not pass verification: a transfer its sender did not sign
\* and one from an account to itself.
MCBatches ==
  MCSignedBatches \cup
  { <<Sign(Transfer(1, 2, 1, 2), 2)>>, <<Sign(Transfer(1, 1, 1, 1), 1)>> }

=============================================================================
