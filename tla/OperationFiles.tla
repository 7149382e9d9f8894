--------------------------- MODULE OperationFiles ---------------------------
(***************************************************************************)
(* The files of signed operations: sign_ops (bin/sign_ops.rs) turns a file *)
(* of unsigned operations into one, or somebody writes one by hand, and    *)
(* parse_signed_operations (json.rs) reads it, for the builder as well as  *)
(* for refinement of version 1.                                            *)
(*                                                                         *)
(* JSON syntax is left out: a file begins with a list of operations, or it *)
(* does not parse.  sign_ops writes the list and the newline after it with *)
(* two writes (writeln! on a File, which has no buffer), so that a newline *)
(* of one process may fall on the list of another.  Account ids and        *)
(* signatures are hex strings, and decode_hex is modelled byte for byte: a *)
(* text is a sequence of bytes, with radix 2 in the place of 16 and        *)
(* IdBytes in the place of 32 and 64.  As in TokenOps a signature names    *)
(* the account whose key verifies it over its own operation.               *)
(***************************************************************************)
EXTENDS TokenOps, SequencesExt

CONSTANTS Signers,      \* sign_ops processes with the same output file
          Unsigned,     \* the files of unsigned operations, seeds for accounts
          HandWritten,  \* the files of signed operations somebody may write
          IdBytes,      \* length of an account id
          MaxEdits,     \* bound: files written by hand
          MaxCrashes    \* bound: processes killed

RADIX == 2
ByteValues == RADIX * RADIX

\* How many ids of IdBytes bytes there are.
NumIds ==
  LET ids[n \in 0..IdBytes] == IF n = 0 THEN 1 ELSE ByteValues * ids[n - 1]
  IN  ids[IdBytes]

\* The operations of a file of signed operations, ids and signatures as text.
\* "c1" and "c2" are the two bytes of one character that is no digit.
TextByte == {"0", "1", "x", "+", "c1", "c2"}
Text == Seq(TextByte)
SignedOperationJson ==
  [type : {"Mint"}, to : Text, token_id : TokenIds, amount : U64, signature : Text]
    \cup
  [type : {"Transfer"}, from : Text, to : Text, token_id : TokenIds, amount : U64,
   signature : Text]

\* Any id is that of an account; a seed gives an account with its key.
ASSUME OperationFilesAssumption ==
  /\ IdBytes \in Nat \ {0}
  /\ NumAccounts = NumIds
  /\ \A f \in Unsigned :
       /\ f \in Seq(Operation)
       /\ \A i \in DOMAIN f : f[i].type = "Transfer" => f[i].from \in Keys
  /\ \A f \in HandWritten : f \in Seq(SignedOperationJson)
  /\ MaxEdits \in Nat /\ MaxCrashes \in Nat

-----------------------------------------------------------------------------
(* Hex strings. *)

Digit == <<"0", "1">>
DigitValue(c) == IF c = "0" THEN 0 ELSE 1
IsDigit(c) == c \in ToSet(Digit)

HasPrefix(text) == Len(text) >= 2 /\ text[1] = "0" /\ text[2] = "x"
StripPrefix(text) == IF HasPrefix(text) THEN SubSeq(text, 3, Len(text)) ELSE text

\* u8::from_str_radix on two bytes; it takes a sign.
ByteOf(a, b) ==
  CASE IsDigit(a) /\ IsDigit(b) -> [is |-> "ok", value |-> DigitValue(a) * RADIX + DigitValue(b)]
    [] a = "+" /\ IsDigit(b) -> [is |-> "ok", value |-> DigitValue(b)]
    [] OTHER -> [is |-> "err"]

\* The i-th byte of the result.  A slice that ends inside a character panics.
DecodeByte(text, i) ==
  IF 2 * i < Len(text) /\ text[2 * i + 1] = "c2" THEN [is |-> "panic"]
  ELSE ByteOf(text[2 * i - 1], text[2 * i])

\* Faulty: what follows the last byte is ignored.
DecodeHexLonger(text) ==
  LET s == StripPrefix(text)
      bytes == [i \in 1..IdBytes |-> DecodeByte(s, i)]
      bad == {i \in 1..IdBytes : bytes[i].is # "ok"}
  IN  IF Len(s) < 2 * IdBytes THEN [is |-> "err"]
      ELSE IF bad # {} THEN bytes[Min(bad)]
      ELSE [is |-> "ok", value |-> [i \in 1..IdBytes |-> bytes[i].value]]

DecodeHex(text) ==
  LET s == StripPrefix(text)
      bytes == [i \in 1..IdBytes |-> DecodeByte(s, i)]
      bad == {i \in 1..IdBytes : bytes[i].is # "ok"}
  IN  IF Len(s) # 2 * IdBytes THEN [is |-> "err"]
      ELSE IF bad # {} THEN bytes[Min(bad)]
      ELSE [is |-> "ok", value |-> [i \in 1..IdBytes |-> bytes[i].value]]

\* hex::encode
EncodeHex(bytes) ==
  [k \in 1..(2 * Len(bytes)) |->
     LET byte == bytes[(k + 1) \div 2]
     IN  Digit[1 + IF k % 2 = 1 THEN byte \div RADIX ELSE byte % RADIX]]

\* Accounts are numbered in the order of their bytes.
BytesOf(account) ==
  LET rest[k \in 0..IdBytes] == IF k = 0 THEN account - 1 ELSE rest[k - 1] \div ByteValues
  IN  [i \in 1..IdBytes |-> rest[IdBytes - i] % ByteValues]
AccountOf(bytes) == CHOOSE a \in Account : BytesOf(a) = bytes

-----------------------------------------------------------------------------
(* Signing and parsing. *)

\* Faulty: a transfer is signed by its receiver.
SignedByReceiver(op) ==
  Sign(op, IF op.type = "Mint" THEN Admin ELSE op.to)

\* Mints are signed by the administrator, transfers by their sender.
Signed(op) ==
  Sign(op, IF op.type = "Mint" THEN Admin ELSE op.from)

\* An operation as it is written.
ToJson(so) ==
  LET op == so.operation
      text(a) == EncodeHex(BytesOf(a))
  IN  IF op.type = "Mint"
      THEN [type |-> "Mint", to |-> text(op.to), token_id |-> op.token_id,
            amount |-> op.amount, signature |-> text(so.signature)]
      ELSE [type |-> "Transfer", from |-> text(op.from), to |-> text(op.to),
            token_id |-> op.token_id, amount |-> op.amount, signature |-> text(so.signature)]

\* The texts of an operation in the order they are decoded in.
Texts(json) ==
  IF json.type = "Mint" THEN <<json.to, json.signature>>
                        ELSE <<json.from, json.to, json.signature>>

FromJson(json) ==
  LET decoded == [i \in DOMAIN Texts(json) |-> DecodeHex(Texts(json)[i])]
      bad == {i \in DOMAIN decoded : decoded[i].is # "ok"}
      account(i) == AccountOf(decoded[i].value)
  IN  IF bad # {} THEN [is |-> decoded[Min(bad)].is]
      ELSE [is |-> "ok",
            value |-> IF json.type = "Mint"
                      THEN Sign(Mint(account(1), json.token_id, json.amount), account(2))
                      ELSE Sign(Transfer(account(1), account(2), json.token_id, json.amount),
                                account(3))]

\* Faulty: operations that do not decode are left out.
CollectLenient(results) ==
  [is |-> "ok", value |-> LET good == SelectSeq(results, LAMBDA r : r.is = "ok")
                          IN  [i \in DOMAIN good |-> good[i].value]]

\* collect::<Result<Vec<_>, _>>(): the first failure is the result.
Collect(results) ==
  LET bad == {i \in DOMAIN results : results[i].is # "ok"}
  IN  IF bad # {} THEN [is |-> results[Min(bad)].is]
      ELSE [is |-> "ok", value |-> [i \in DOMAIN results |-> results[i].value]]

\* The bytes a list of operations takes, up to a factor; Transfer has one more
\* text than Mint.
Size(ops) == 1 + 2 * Len(ops) + Cardinality({i \in DOMAIN ops : ops[i].type = "Transfer"})

\* What a file holds: the list written last, at its beginning, if one was; its
\* size, which is larger than the list when something longer was there; and
\* where a newline was written since.  At any other place after the list are
\* the remains of another one, or the zeros of a place never written to.
Holding(ops) == [list |-> TRUE, ops |-> ops, size |-> Size(ops), newlines |-> {}]
EmptyFile == [list |-> FALSE, ops |-> <<>>, size |-> 0, newlines |-> {}]

\* The newlines that fell on the list.
Inside(f) == {p \in f.newlines : p <= Size(f.ops)}

\* Serde takes a list, and after it nothing but white space.
IsJson(f) ==
  /\ f.list
  /\ \A p \in (Size(f.ops) + 1)..f.size : p \in f.newlines

\* A newline on the first or the last digit of a number takes it away, which
\* leaves a smaller number.
Shortened(op) ==
  {[op EXCEPT !.token_id = t, !.amount = n] :
     t \in {id \in TokenIds : id <= op.token_id}, n \in 0..op.amount} \ {op}

\* What a newline may make of an operation without a syntax error: on white
\* space it changes nothing; and what it leaves of a number nobody has signed.
Spoilt(so) ==
  {so} \cup {Sign(op, NoSigner) : op \in Shortened(so.operation)}

\* What up to k newlines may make of a list of operations.
SpoiltLists(sos, k) ==
  {r \in [DOMAIN sos -> UNION {Spoilt(sos[i]) : i \in DOMAIN sos}] :
     /\ \A i \in DOMAIN sos : r[i] \in Spoilt(sos[i])
     /\ Cardinality({i \in DOMAIN sos : r[i] # sos[i]}) <= k}

\* parse_signed_operations, its possible results: where in the list a newline
\* falls depends on the lengths of the numbers, which the model leaves open.
ParseSignedOperations(f) ==
  LET parsed == Collect([i \in DOMAIN f.ops |-> FromJson(f.ops[i])]) IN
  IF ~IsJson(f) THEN {[is |-> "err"]}
  ELSE IF Inside(f) = {} THEN {parsed}
  ELSE {[is |-> "err"]} \cup
       IF parsed.is # "ok" THEN {parsed}
       ELSE {[is |-> "ok", value |-> r] : r \in SpoiltLists(parsed.value, Cardinality(Inside(f)))}

-----------------------------------------------------------------------------
VARIABLES file,    \* the file of signed operations
          signer,  \* what each sign_ops process is doing
          edits,   \* files written by hand so far
          crashes  \* processes killed so far

vars == <<file, signer, edits, crashes>>

Init ==
  /\ file = EmptyFile
  /\ signer = [s \in Signers |-> [pc |-> "Idle", ops |-> <<>>]]
  /\ edits = 0
  /\ crashes = 0

\* Everything is signed before the output file is created.
SignOps(s, unsigned) ==
  /\ signer[s].pc = "Idle"
  /\ signer' = [signer EXCEPT ![s] =
       [pc |-> "Create", ops |-> [i \in DOMAIN unsigned |-> ToJson(Signed(unsigned[i]))]]]
  /\ UNCHANGED <<file, edits, crashes>>

\* File::create empties the file that was there.
CreateOutput(s) ==
  /\ signer[s].pc = "Create"
  /\ signer' = [signer EXCEPT ![s].pc = "Write"]
  /\ file' = EmptyFile
  /\ UNCHANGED <<edits, crashes>>

\* The first write of writeln!, over whatever another process has written
\* meanwhile.
WriteOutput(s) ==
  LET n == Size(signer[s].ops) IN
  /\ signer[s].pc = "Write"
  /\ signer' = [signer EXCEPT ![s].pc = "Newline"]
  /\ file' = [list |-> TRUE, ops |-> signer[s].ops,
              size |-> IF file.size > n THEN file.size ELSE n,
              newlines |-> {p \in file.newlines : p > n}]
  /\ UNCHANGED <<edits, crashes>>

\* The second, after the list this process wrote, whatever is there now.
WriteNewline(s) ==
  LET p == Size(signer[s].ops) + 1 IN
  /\ signer[s].pc = "Newline"
  /\ signer' = [signer EXCEPT ![s] = [pc |-> "Idle", ops |-> <<>>]]
  /\ file' = [file EXCEPT !.size = IF @ > p THEN @ ELSE p, !.newlines = @ \cup {p}]
  /\ UNCHANGED <<edits, crashes>>

Crash(s) ==
  /\ signer[s].pc # "Idle"
  /\ crashes < MaxCrashes
  /\ crashes' = crashes + 1
  /\ signer' = [signer EXCEPT ![s] = [pc |-> "Idle", ops |-> <<>>]]
  /\ UNCHANGED <<file, edits>>

\* Somebody writes a file by hand.
Edit(f) ==
  /\ edits < MaxEdits
  /\ edits' = edits + 1
  /\ file' = Holding(f)
  /\ UNCHANGED <<signer, crashes>>

Next ==
  \/ \E s \in Signers :
       \/ \E f \in Unsigned : SignOps(s, f)
       \/ CreateOutput(s) \/ WriteOutput(s) \/ WriteNewline(s) \/ Crash(s)
  \/ \E f \in HandWritten : Edit(f)

Spec == Init /\ [][Next]_vars

-----------------------------------------------------------------------------
\* Reading the file (read_ops_from_file, or the client that makes it the payload
\* of a work item of version 1) changes nothing: the properties are about what
\* a reader may get of the file at any time.

\* The signed operations of got are those of one list, all of them and in their
\* order; one that is not as it was signed does not verify.
Renders(got, sos) ==
  /\ Len(got) = Len(sos)
  /\ \A i \in DOMAIN sos : got[i] = sos[i] \/ ~VerifyOperation(got[i])

\* A reader gets the operations of one unsigned file, all of them, in their
\* order and as sign_ops signed them, or all those of a file written by hand:
\* never a part of one and never operations of two, whatever several processes
\* or a crash have left.  A number on which another process's newline fell may
\* be another one when it is read, but verify_operations refuses the operation;
\* what it accepts is a whole file.
ReadsWhole ==
  \A got \in ParseSignedOperations(file) : got.is = "ok" =>
    \/ \E u \in Unsigned : Renders(got.value, [i \in DOMAIN u |-> Signed(u[i])])
    \/ \E f \in HandWritten :
         /\ file.ops = f
         /\ \A i \in DOMAIN f : FromJson(f[i]).is = "ok"
         /\ Renders(got.value, [i \in DOMAIN f |-> FromJson(f[i]).value])

\* What sign_ops has signed, written as text and read back, verifies, with no
\* exception but a zero amount or a transfer to the sender, which no signature
\* makes valid, as long as no newline of another process fell on the list.
SignedFilesVerify ==
  file.ops \notin HandWritten /\ Inside(file) = {} =>
    \A got \in ParseSignedOperations(file) : got.is = "ok" =>
    \A i \in DOMAIN got.value :
      LET op == got.value[i].operation IN
      VerifyOperation(got.value[i])
        <=> op.amount # 0 /\ (op.type = "Transfer" => op.from # op.to)

\* The numeral a text is, by the place of its digits.
IsNumeral(text) ==
  LET s == StripPrefix(text) IN Len(s) = 2 * IdBytes /\ \A i \in DOMAIN s : IsDigit(s[i])
NumeralAccount(text) ==
  LET s == StripPrefix(text)
      value[n \in 0..Len(s)] ==
        IF n = 0 THEN 0 ELSE value[n - 1] * RADIX + DigitValue(s[n])
  IN  1 + value[Len(s)]

Signless(text) == \A i \in DOMAIN text : text[i] # "+"

\* Of a text in the file decode_hex makes the account its digits spell when it
\* has exactly the right number of them, with or without 0x, and refuses any
\* other, except that from_str_radix takes a sign.
DecodesNumerals ==
  \A i \in DOMAIN file.ops : \A j \in DOMAIN Texts(file.ops[i]) :
    LET text == Texts(file.ops[i])[j]
        d == DecodeHex(text)
    IN  Signless(text) =>
          /\ d.is = "ok" <=> IsNumeral(text)
          /\ d.is = "ok" => AccountOf(d.value) = NumeralAccount(text)

=============================================================================
