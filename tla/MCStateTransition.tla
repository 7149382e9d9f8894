-------------------------- MODULE MCStateTransition -------------------------
(* Instances of StateTransition for TLC: three accounts (1 is the          *)
(* administrator, 3 has an id that is no Ed25519 key), two tokens, and an  *)
(* i64 whose maximum is 3 so that sums of a few transfers overflow.        *)
EXTENDS StateTransition

MCRequests ==
  { Sign(Mint(1, 1, 3), 1), Sign(Mint(2, 1, 2), 1), Sign(Mint(2, 2, 7), 1),
    Sign(Mint(2, 2, 1), 2),                                  \* not the admin's
    Sign(Transfer(1, 2, 1, 1), 1), Sign(Transfer(2, 1, 1, 2), 2),
    Sign(Transfer(2, 3, 1, 1), 2),
    Sign(Transfer(1, 2, 2, 4), 1), Sign(Transfer(2, 1, 2, 3), 2),
    Sign(Transfer(2, 2, 1, 1), 2), Sign(Transfer(1, 2, 1, 0), 1),
    Sign(Transfer(3, 1, 1, 1), 3), Sign(Transfer(2, 1, 1, 1), NoSigner) }

\* One token and amounts around the largest i64, for the build that panics.
MCEdgeRequests ==
  { Sign(Mint(1, 1, 3), 1), Sign(Mint(2, 1, 7), 1),
    Sign(Transfer(1, 2, 1, 1), 1), Sign(Transfer(1, 2, 1, 4), 1),
    Sign(Transfer(2, 1, 1, 2), 2), Sign(Transfer(2, 1, 1, 4), 2),
    Sign(Transfer(2, 3, 1, 3), 2) }

=============================================================================
