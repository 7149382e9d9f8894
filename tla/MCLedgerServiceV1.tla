-------------------------- MODULE MCLedgerServiceV1 -------------------------
(* An instance of LedgerServiceV1 for TLC: two tokens, three accounts, and *)
(* payloads whose operations repeat a mint, net against each other, fail   *)
(* the checks of refine or overdraw.                                       *)
EXTENDS LedgerServiceV1

MCPayloads ==
  { <<>>,
    <<Sign(Mint(1, 1, 3), NoSigner), Sign(Transfer(1, 2, 1, 2), NoSigner)>>,
    <<Sign(Transfer(1, 2, 1, 2), 1), Sign(Transfer(2, 1, 1, 1), 2)>>,
    <<Sign(Mint(2, 1, 2), 1), Sign(Mint(2, 2, 1), 1), Sign(Mint(1, 2, 0), 1)>>,
    <<Sign(Transfer(2, 2, 1, 1), 2), Sign(Transfer(3, 2, 1, 1), 3),
      Sign(Transfer(1, 2, 1, 0), 1), Sign(Transfer(2, 1, 1, 1), 2)>>,
    <<Sign(Transfer(2, 3, 2, 1), 2), Sign(Transfer(2, 1, 1, 1), 2),
      Sign(Transfer(1, 3, 1, 3), 1)>> }

=============================================================================
