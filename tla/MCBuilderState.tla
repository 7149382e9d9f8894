--------------------------- MODULE MCBuilderState ---------------------------
(* Instances of BuilderState for TLC: a tree of depth 3 (8 leaves, 15      *)
(* nodes, 4-bit indices), two tokens and three accounts.  As in the code,  *)
(* the bit that is cleared in an index is one of the lower ones.           *)
EXTENDS BuilderState

\* Two keys share a leaf, because bit 1 of a hash is cleared.
MCKeyHash == (<<1, 1>> :> 0 @@ <<1, 2>> :> 7 @@ <<1, 3>> :> 3
              @@ <<2, 1>> :> 4 @@ <<2, 2>> :> 1 @@ <<2, 3>> :> 6)

\* A key whose hash has its top bit set.
MCHighHash == [MCKeyHash EXCEPT ![<<1, 2>>] = 12]

MCBatches ==
  { <<Sign(Mint(1, 1, 3), 1)>>,
    <<Sign(Mint(2, 2, 2), 1), Sign(Mint(1, 1, 1), 1)>>,
    <<Sign(Transfer(1, 2, 1, 2), 1)>>,
    <<Sign(Transfer(1, 2, 1, 1), 1), Sign(Transfer(2, 1, 2, 2), 2)>>,
    <<Sign(Transfer(2, 1, 1, 1), 2), Sign(Transfer(2, 1, 2, 1), 2)>>,
    <<Sign(Mint(2, 2, 3), 1), Sign(Transfer(2, 1, 2, 1), 2)>>,
    <<Sign(Transfer(1, 3, 1, 1), 1)>>,
    <<Sign(Mint(2, 2, 2), 1), Sign(Transfer(3, 1, 1, 1), 3)>>,
    \* A sum overflows after a mint; a negation does after a transfer.
    <<Sign(Mint(2, 2, 2), 1), Sign(Transfer(1, 2, 1, 7), 1), Sign(Transfer(1, 2, 1, 1), 1)>>,
    <<Sign(Transfer(1, 2, 1, 1), 1), Sign(Transfer(1, 2, 2, 8), 1)>> }

=============================================================================
