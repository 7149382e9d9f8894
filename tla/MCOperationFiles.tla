-------------------------- MODULE MCOperationFiles --------------------------
(* Instances of OperationFiles for TLC: ids of two bytes, that is four     *)
(* digits of radix 2 and sixteen accounts.                                 *)
EXTENDS OperationFiles

MCKeys == 1..16

MCUnsigned ==
  { <<Mint(2, 1, 1)>>,
    <<Transfer(2, 7, 1, 1), Transfer(7, 2, 1, 0)>>,
    <<Mint(12, 2, 2), Transfer(12, 12, 2, 1)>> }

Json(text) == [type |-> "Mint", to |-> text, token_id |-> 1, amount |-> 1,
               signature |-> EncodeHex(BytesOf(Admin))]

Good == EncodeHex(BytesOf(6))

\* Texts of two to four characters, a digit, a sign and a character of two
\* bytes, and of three to five digits, with and without a prefix.
Char == {<<"0">>, <<"+">>, <<"c1", "c2">>}
MCDigits == UNION {[1..n -> {"0", "1"}] : n \in 3..5}
MCTexts == MCDigits \cup UNION {{FlattenSeq(cs) : cs \in [1..n -> Char]} : n \in 2..4}
MCPrefixed == {<<"0", "x">> \o t : t \in MCDigits}

\* A single operation with any such text, and a good operation before or after
\* one whose text is too short or is cut inside a character.
MCHandWritten ==
  {<<Json(t)>> : t \in MCTexts \cup MCPrefixed}
  \cup { <<Json(Good), Json(<<"0", "1", "0">>)>>,
         <<Json(<<"0", "c1", "c2", "1">>), Json(Good)>> }

\* The processes do the same.
MCSymmetry == Permutations(Signers)

=============================================================================
