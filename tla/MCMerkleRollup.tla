--------------------------- MODULE MCMerkleRollup ---------------------------
(* Instances of MerkleRollup for TLC: one token, and two accounts in       *)
(* different halves of a tree with four leaves.  Bit 0 of a hash is        *)
(* cleared, so the first is at leaf 0.                                     *)
EXTENDS MerkleRollup

MCKeyHash == (<<1, 1>> :> 1 @@ <<1, 2>> :> 2)

\* A mint, a transfer and the transfer back, which leaves a stored balance of
\* zero behind; the last is not signed by the administrator.
MCBatches ==
  { <<Sign(Mint(1, 1, 2), 1)>>,
    <<Sign(Transfer(1, 2, 1, 1), 1)>>,
    <<Sign(Transfer(2, 1, 1, 1), 2)>>,
    <<Sign(Mint(1, 1, 1), 2)>> }

=============================================================================
