------------------------ MODULE OperationFilesProofs ------------------------
(***************************************************************************)
(* Proofs about OperationFiles: a text that hex::encode has written is     *)
(* decoded to what it was written from, for ids of any length; hence       *)
(* readers get whole files, and what sign_ops has signed verifies, for any *)
(* number of processes, crashes and edits; and decode_hex reads numerals.  *)
(***************************************************************************)
EXTENDS OperationFiles, OperatorProofs

LEMMA Bases == RADIX = 2 /\ ByteValues = 4 /\ IdBytes \in Nat \ {0} /\ NumAccounts \in Nat \ {0}
BY OperationFilesAssumption, TokenOpsAssumption DEF RADIX, ByteValues

\* Division with remainder, where it is needed.
LEMMA DivMod ==
  ASSUME NEW x \in Nat
  PROVE  x \div 4 \in Nat /\ x % 4 \in 0..3 /\ x = 4 * (x \div 4) + (x % 4)
<1>1. x \div 4 \in Int /\ x % 4 \in 0..3
  OBVIOUS
<1>2. x = 4 * (x \div 4) + (x % 4)
  OBVIOUS
<1> QED
  BY <1>1, <1>2

-----------------------------------------------------------------------------
(* The recursions have solutions. *)

IsRest(r, a) ==
  r = [k \in 0..IdBytes |-> IF k = 0 THEN a - 1 ELSE r[k - 1] \div ByteValues]

\* r is what is left of an account's number after each of its bytes.
RestOf(r, a) ==
  /\ r \in [0..IdBytes -> Nat]
  /\ r[0] = a - 1
  /\ \A k \in 1..IdBytes : r[k] = r[k - 1] \div 4
  /\ BytesOf(a) = [i \in 1..IdBytes |-> r[IdBytes - i] % 4]

LEMMA RestExists ==
  ASSUME NEW a \in Account
  PROVE  \E r : RestOf(r, a)
<1> DEFINE F == [i \in 1..IdBytes |-> [x \in Nat |-> x \div 4]]
           R == CHOOSE r : IsRest(r, a)
<1>1. a - 1 \in Nat /\ IdBytes \in Nat
  BY Bases DEF Account
<1>2. F \in [1..IdBytes -> [Nat -> Nat]]
  OBVIOUS
<1>3. PICK q : IsRun(q, IdBytes, Nat, a - 1, F)
  <2> HIDE DEF F
  <2> QED
    BY <1>1, <1>2, LoopRuns
<1>4. IsRest(q, a)
  <2>1. ASSUME NEW k \in 1..IdBytes PROVE q[k] = q[k - 1] \div 4
    <3>1. k - 1 \in 0..IdBytes /\ q \in [0..IdBytes -> Nat] /\ q[k] = F[k][q[k - 1]]
      <4> HIDE DEF F
      <4> QED
        BY <1>1, <1>3 DEF IsRun
    <3>2. q[k - 1] \in Nat
      BY <3>1
    <3> QED
      BY <3>1, <3>2
  <2> QED
    BY <1>1, <1>3, <2>1, Bases DEF IsRun, IsRest
<1>5. IsRest(R, a)
  BY <1>4
<1>6. BytesOf(a) = [i \in 1..IdBytes |-> R[IdBytes - i] % 4]
  BY Bases DEF BytesOf, IsRest
<1> HIDE DEF R
<1>7. R[0] = a - 1 /\ \A k \in 1..IdBytes : R[k] = R[k - 1] \div 4
  BY <1>1, <1>5, Bases DEF IsRest
<1>8. \A k \in 0..IdBytes : R[k] \in Nat
  <2> DEFINE T == {k \in 0..IdBytes : R[k] \in Nat}
  <2>1. 0 \in T
    BY <1>1, <1>7
  <2>2. ASSUME NEW k \in 1..IdBytes, k - 1 \in T PROVE k \in T
    BY <1>7, <2>2
  <2> HIDE DEF T
  <2>3. \A k \in 0..IdBytes : k \in T
    BY <1>1, <2>1, <2>2, CountUp, Zenon
  <2> QED
    BY <2>3 DEF T
<1>9. R \in [0..IdBytes -> Nat]
  BY <1>5, <1>8 DEF IsRest
<1> QED
  BY <1>6, <1>7, <1>9 DEF RestOf

IsIds(p) ==
  p = [n \in 0..IdBytes |-> IF n = 0 THEN 1 ELSE ByteValues * p[n - 1]]

\* p[n] is the number of ids of n bytes.
IdsOf(p) ==
  /\ p \in [0..IdBytes -> Nat]
  /\ p[0] = 1
  /\ \A n \in 1..IdBytes : p[n] = 4 * p[n - 1]
  /\ NumAccounts = p[IdBytes]

LEMMA IdsExist == \E p : IdsOf(p)
<1> DEFINE F == [i \in 1..IdBytes |-> [x \in Nat |-> 4 * x]]
           P == CHOOSE p : IsIds(p)
<1>1. F \in [1..IdBytes -> [Nat -> Nat]] /\ IdBytes \in Nat
  BY Bases
<1>2. PICK q : IsRun(q, IdBytes, Nat, 1, F)
  <2> HIDE DEF F
  <2> QED
    BY <1>1, LoopRuns
<1>3. IsIds(q)
  <2>1. ASSUME NEW k \in 1..IdBytes PROVE q[k] = 4 * q[k - 1]
    <3>1. k - 1 \in 0..IdBytes /\ q \in [0..IdBytes -> Nat] /\ q[k] = F[k][q[k - 1]]
      <4> HIDE DEF F
      <4> QED
        BY <1>2, Bases DEF IsRun
    <3>2. q[k - 1] \in Nat
      BY <3>1
    <3> QED
      BY <3>1, <3>2
  <2> QED
    BY <1>1, <1>2, <2>1, Bases DEF IsRun, IsIds
<1>4. IsIds(P)
  BY <1>3
<1>5. NumAccounts = P[IdBytes]
  BY OperationFilesAssumption DEF NumIds, IsIds
<1> HIDE DEF P
<1>6. P[0] = 1 /\ \A n \in 1..IdBytes : P[n] = 4 * P[n - 1]
  BY <1>1, <1>4, Bases DEF IsIds
<1>7. \A k \in 0..IdBytes : P[k] \in Nat
  <2> DEFINE T == {k \in 0..IdBytes : P[k] \in Nat}
  <2>1. 0 \in T
    BY <1>1, <1>6
  <2>2. ASSUME NEW k \in 1..IdBytes, k - 1 \in T PROVE k \in T
    BY <1>6, <2>2
  <2> HIDE DEF T
  <2>3. \A k \in 0..IdBytes : k \in T
    BY <1>1, <2>1, <2>2, CountUp, Zenon
  <2> QED
    BY <2>3 DEF T
<1>8. P \in [0..IdBytes -> Nat]
  BY <1>4, <1>7 DEF IsIds
<1> QED
  BY <1>5, <1>6, <1>8 DEF IdsOf

-----------------------------------------------------------------------------
(* Accounts and their bytes. *)

\* Nothing is left of the number after the last byte.
LEMMA RestEnds ==
  ASSUME NEW a \in Account, NEW r, RestOf(r, a)
  PROVE  r[IdBytes] = 0
<1>1. PICK p : IdsOf(p)
  BY IdsExist
<1> DEFINE T == {k \in 0..IdBytes : r[k] < p[IdBytes - k]}
<1>2. /\ IdBytes \in Nat /\ p \in [0..IdBytes -> Nat] /\ r \in [0..IdBytes -> Nat]
      /\ \A k \in 1..IdBytes : r[k] = r[k - 1] \div 4 /\ p[k] = 4 * p[k - 1]
  BY <1>1, Bases DEF IdsOf, RestOf
<1>3. 0 \in T
  BY <1>1, <1>2 DEF IdsOf, RestOf, Account
<1>4. ASSUME NEW k \in 1..IdBytes, k - 1 \in T PROVE k \in T
  <2> DEFINE m == IdBytes - (k - 1)
  <2>1. m \in 1..IdBytes /\ m - 1 = IdBytes - k /\ k - 1 \in 0..IdBytes /\ m - 1 \in 0..IdBytes
    BY <1>2
  <2>2. r[k - 1] < p[m]
    BY <1>4
  <2>3. p[m] = 4 * p[m - 1] /\ r[k] = r[k - 1] \div 4 /\ r[k - 1] \in Nat /\ p[m - 1] \in Nat
    BY <1>2, <2>1
  <2>4. r[k] < p[m - 1]
    BY <2>2, <2>3
  <2> QED
    BY <2>1, <2>4
<1> HIDE DEF T
<1>5. \A k \in 0..IdBytes : k \in T
  BY <1>2, <1>3, <1>4, CountUp, Zenon
<1>6. IdBytes \in T
  BY <1>2, <1>5
<1>7. r[IdBytes] < p[0] /\ r[IdBytes] \in Nat
  BY <1>2, <1>6 DEF T
<1> QED
  BY <1>1, <1>7 DEF IdsOf

LEMMA BytesType ==
  ASSUME NEW a \in Account
  PROVE  BytesOf(a) \in [1..IdBytes -> 0..3]
<1>1. PICK r : RestOf(r, a)
  BY RestExists
<1>2. ASSUME NEW i \in 1..IdBytes PROVE r[IdBytes - i] % 4 \in 0..3
  <2>1. IdBytes - i \in 0..IdBytes
    BY Bases
  <2>2. r[IdBytes - i] \in Nat
    BY <1>1, <2>1 DEF RestOf
  <2> QED
    BY <2>2, DivMod
<1> QED
  BY <1>1, <1>2 DEF RestOf

\* Two accounts have different bytes.
LEMMA BytesInjective ==
  ASSUME NEW a \in Account, NEW b \in Account, BytesOf(a) = BytesOf(b)
  PROVE  a = b
<1>1. PICK r : RestOf(r, a)
  BY RestExists
<1>2. PICK q : RestOf(q, b)
  BY RestExists
<1> DEFINE T == {k \in 0..IdBytes : r[IdBytes - k] = q[IdBytes - k]}
<1>3. /\ IdBytes \in Nat /\ q \in [0..IdBytes -> Nat] /\ r \in [0..IdBytes -> Nat]
      /\ \A k \in 1..IdBytes : r[k] = r[k - 1] \div 4 /\ q[k] = q[k - 1] \div 4
  BY <1>1, <1>2, Bases DEF RestOf
<1>4. 0 \in T
  <2>1. r[IdBytes] = 0
    BY <1>1, RestEnds
  <2>2. q[IdBytes] = 0
    BY <1>2, RestEnds
  <2> QED
    BY <1>3, <2>1, <2>2
<1>5. ASSUME NEW k \in 1..IdBytes, k - 1 \in T PROVE k \in T
  <2> DEFINE m == IdBytes - (k - 1)
  <2>1. m \in 1..IdBytes /\ m - 1 = IdBytes - k /\ m - 1 \in 0..IdBytes /\ k \in 0..IdBytes
    BY <1>3
  <2>2. r[m] = q[m]
    BY <1>5
  <2>3. r[m - 1] % 4 = q[m - 1] % 4
    <3>1. BytesOf(a)[k] = r[m - 1] % 4 /\ BytesOf(b)[k] = q[m - 1] % 4
      BY <1>1, <1>2, <2>1 DEF RestOf
    <3> QED
      BY <3>1
  <2>4. /\ r[m] = r[m - 1] \div 4 /\ q[m] = q[m - 1] \div 4
        /\ r[m - 1] \in Nat /\ q[m - 1] \in Nat
    BY <1>3, <2>1
  <2>5. r[m - 1] = q[m - 1]
    BY <2>2, <2>3, <2>4, DivMod
  <2> QED
    BY <2>1, <2>5
<1> HIDE DEF T
<1>6. \A k \in 0..IdBytes : k \in T
  BY <1>3, <1>4, <1>5, CountUp, Zenon
<1>7. r[0] = q[0]
  <2>1. IdBytes \in T
    BY <1>3, <1>6
  <2> QED
    BY <1>3, <2>1 DEF T
<1> QED
  BY <1>1, <1>2, <1>7 DEF RestOf, Account

LEMMA AccountOfBytes ==
  ASSUME NEW a \in Account
  PROVE  AccountOf(BytesOf(a)) = a
BY BytesInjective DEF AccountOf

-----------------------------------------------------------------------------
(* Texts and their bytes. *)

LEMMA DigitFacts ==
  /\ \A c : IsDigit(c) <=> c = "0" \/ c = "1"
  /\ Digit[1] = "0" /\ Digit[2] = "1"
  /\ \A c : DigitValue(c) = IF c = "0" THEN 0 ELSE 1
<1>1. Digit[1] = "0" /\ Digit[2] = "1" /\ DOMAIN Digit = 1..2
  BY DEF Digit
<1>2. \A c : IsDigit(c) <=> c = "0" \/ c = "1"
  <2>1. \A c : IsDigit(c) <=> \E i \in 1..2 : c = Digit[i]
    BY <1>1 DEF IsDigit, ToSet
  <2> QED
    BY <1>1, <2>1
<1> QED
  BY <1>1, <1>2 DEF DigitValue

\* What is left of a text without its prefix is the end of it.
LEMMA StripFacts ==
  ASSUME NEW text \in Text, NEW s, s = StripPrefix(text)
  PROVE  /\ s \in Text /\ Len(s) \in Nat /\ DOMAIN s = 1..Len(s)
         /\ \A i \in 1..Len(s) : \E j \in DOMAIN text : s[i] = text[j]
<1>1. CASE HasPrefix(text)
  <2>1. s = SubSeq(text, 3, Len(text)) /\ Len(text) \in Nat /\ Len(text) >= 2
    BY <1>1 DEF StripPrefix, HasPrefix, Text
  <2>2. /\ s \in Seq(TextByte) /\ Len(s) = Len(text) - 2
        /\ \A i \in 1..Len(s) : s[i] = text[i + 2]
    <3>1. \A i \in 3..Len(text) : text[i] \in TextByte
      BY <2>1 DEF Text
    <3>2. /\ s \in Seq(TextByte)
          /\ Len(s) = IF 3 <= Len(text) THEN Len(text) - 3 + 1 ELSE 0
          /\ \A i \in 1..(Len(text) - 3 + 1) : s[i] = text[3 + i - 1]
      BY <2>1, <3>1, SubSeqProperties
    <3>3. Len(s) = Len(text) - 2
      <4>1. Len(text) \in Nat /\ Len(text) >= 2
        BY <2>1
      <4>2. Len(s) = IF 3 <= Len(text) THEN Len(text) - 3 + 1 ELSE 0
        BY <3>2
      <4>3. CASE 3 <= Len(text)
        BY <4>1, <4>2, <4>3
      <4>4. CASE ~(3 <= Len(text))
        <5>1. \A n \in Nat : n >= 2 /\ ~(3 <= n) => n = 2
          OBVIOUS
        <5>2. Len(text) = 2
          BY <4>1, <4>4, <5>1
        <5> QED
          BY <4>2, <5>2
      <4> QED
        BY <4>3, <4>4
    <3>4. \A i \in 1..Len(s) : 3 + i - 1 = i + 2 /\ i \in 1..(Len(text) - 3 + 1)
      BY <2>1, <3>3
    <3> QED
      BY <3>2, <3>3, <3>4
  <2>3. \A i \in 1..Len(s) : i + 2 \in DOMAIN text
    BY <2>1, <2>2 DEF Text
  <2> QED
    BY <2>2, <2>3 DEF Text
<1>2. CASE ~HasPrefix(text)
  BY <1>2 DEF StripPrefix, Text
<1> QED
  BY <1>1, <1>2

\* The byte that two digits spell.
PairValue(s, i) == 2 * DigitValue(s[2 * i - 1]) + DigitValue(s[2 * i])

\* decode_hex of the right number of digits is the bytes they spell.
LEMMA DecodeNumeral ==
  ASSUME NEW text \in Text, IsNumeral(text), NEW s, s = StripPrefix(text)
  PROVE  DecodeHex(text) = [is |-> "ok", value |-> [i \in 1..IdBytes |-> PairValue(s, i)]]
<1> DEFINE bytes == [i \in 1..IdBytes |-> DecodeByte(s, i)]
           bad == {i \in 1..IdBytes : bytes[i].is # "ok"}
<1>1. /\ Len(s) = 2 * IdBytes /\ DOMAIN s = 1..Len(s)
      /\ \A i \in 1..(2 * IdBytes) : s[i] = "0" \/ s[i] = "1"
  BY StripFacts, DigitFacts DEF IsNumeral
<1>2. ASSUME NEW i \in 1..IdBytes
      PROVE  bytes[i] = [is |-> "ok", value |-> PairValue(s, i)]
  <2>1. 2 * i - 1 \in 1..(2 * IdBytes) /\ 2 * i \in 1..(2 * IdBytes)
    BY Bases
  <2>2. ~(2 * i < Len(s) /\ s[2 * i + 1] = "c2")
    <3>1. 2 * i < Len(s) => 2 * i + 1 \in 1..(2 * IdBytes)
      BY <1>1, Bases
    <3> QED
      BY <1>1, <3>1
  <2>3. IsDigit(s[2 * i - 1]) /\ IsDigit(s[2 * i])
    BY <1>1, <2>1, DigitFacts
  <2>4. DigitValue(s[2 * i - 1]) * RADIX + DigitValue(s[2 * i]) = PairValue(s, i)
    BY DigitFacts, Bases DEF PairValue
  <2>5. ByteOf(s[2 * i - 1], s[2 * i]) = [is |-> "ok", value |-> PairValue(s, i)]
    BY <2>3, <2>4, DigitFacts DEF ByteOf
  <2> QED
    BY <2>2, <2>5 DEF DecodeByte
<1>3. bad = {}
  BY <1>2
<1>4. DecodeHex(text) = [is |-> "ok", value |-> [i \in 1..IdBytes |-> bytes[i].value]]
  BY <1>1, <1>3 DEF DecodeHex
<1>5. [i \in 1..IdBytes |-> bytes[i].value] = [i \in 1..IdBytes |-> PairValue(s, i)]
  <2>1. \A i \in 1..IdBytes : bytes[i].value = PairValue(s, i)
    BY <1>2
  <2> HIDE DEF bytes
  <2> QED
    BY <2>1
<1> HIDE DEF bytes
<1> QED
  BY <1>4, <1>5

\* Without a sign decode_hex takes nothing else.
LEMMA DecodeOnlyNumerals ==
  ASSUME NEW text \in Text, Signless(text), DecodeHex(text).is = "ok"
  PROVE  IsNumeral(text)
<1> DEFINE s == StripPrefix(text)
           bytes == [i \in 1..IdBytes |-> DecodeByte(s, i)]
           bad == {i \in 1..IdBytes : bytes[i].is # "ok"}
<1>1. DOMAIN s = 1..Len(s) /\ \A i \in 1..Len(s) : s[i] # "+"
  BY StripFacts DEF Signless
<1>2. Len(s) = 2 * IdBytes
  BY DEF DecodeHex
<1>3. bad = {}
  <2> SUFFICES ASSUME bad # {} PROVE FALSE
    OBVIOUS
  <2>1. DecodeHex(text) = bytes[Min(bad)]
    BY <1>2 DEF DecodeHex
  <2>2. Min(bad) \in bad
    <3> HIDE DEF bytes
    <3>1. bad \subseteq Nat
      BY Bases
    <3>2. \E m \in bad : \A k \in bad : m <= k
      BY <3>1, LeastNatural
    <3> HIDE DEF bad
    <3> QED
      BY <3>2 DEF Min
  <2> QED
    BY <2>1, <2>2
<1>4. ASSUME NEW i \in 1..IdBytes PROVE IsDigit(s[2 * i - 1]) /\ IsDigit(s[2 * i])
  <2>1. DecodeByte(s, i).is = "ok"
    BY <1>3
  <2>2. ByteOf(s[2 * i - 1], s[2 * i]).is = "ok"
    BY <2>1 DEF DecodeByte
  <2>3. s[2 * i - 1] # "+"
    BY <1>1, <1>2, Bases
  <2> QED
    BY <2>2, <2>3 DEF ByteOf
<1>5. ASSUME NEW j \in 1..(2 * IdBytes) PROVE IsDigit(s[j])
  <2>1. \E i \in 1..IdBytes : j = 2 * i - 1 \/ j = 2 * i
    <3>1. (j + 1) \div 2 \in 1..IdBytes
      BY Bases
    <3>2. j = 2 * ((j + 1) \div 2) - 1 \/ j = 2 * ((j + 1) \div 2)
      BY Bases
    <3> QED
      BY <3>1, <3>2
  <2> QED
    BY <1>4, <2>1
<1> QED
  BY <1>1, <1>2, <1>5 DEF IsNumeral

\* What hex::encode writes is a numeral without a prefix that spells the bytes.
LEMMA EncodeFacts ==
  ASSUME NEW bytes \in [1..IdBytes -> 0..3], NEW t, t = EncodeHex(bytes)
  PROVE  /\ t \in Text /\ IsNumeral(t) /\ StripPrefix(t) = t
         /\ \A i \in 1..IdBytes : PairValue(t, i) = bytes[i]
<1> DEFINE digit(k) == IF k % 2 = 1 THEN bytes[(k + 1) \div 2] \div 2 ELSE bytes[(k + 1) \div 2] % 2
<1>1. Len(bytes) = IdBytes /\ IdBytes \in Nat \ {0}
  BY Bases
<1>2. t = [k \in 1..(2 * IdBytes) |-> Digit[1 + digit(k)]]
  BY <1>1, Bases DEF EncodeHex
<1>3. \A x \in 0..3 : x \div 2 \in 0..1 /\ x % 2 \in 0..1 /\ x = 2 * (x \div 2) + (x % 2)
  OBVIOUS
<1>4. ASSUME NEW k \in 1..(2 * IdBytes) PROVE digit(k) \in 0..1
  <2>1. (k + 1) \div 2 \in 1..IdBytes
    BY <1>1
  <2>2. bytes[(k + 1) \div 2] \in 0..3
    BY <2>1
  <2> QED
    BY <1>3, <2>2
<1>5. ASSUME NEW i \in 1..IdBytes
      PROVE  /\ 2 * i \in 1..(2 * IdBytes) /\ 2 * i - 1 \in 1..(2 * IdBytes)
             /\ digit(2 * i - 1) = bytes[i] \div 2 /\ digit(2 * i) = bytes[i] % 2
  <2>1. /\ 2 * i \in 1..(2 * IdBytes) /\ 2 * i - 1 \in 1..(2 * IdBytes)
        /\ (2 * i - 1) % 2 = 1 /\ (2 * i) % 2 = 0
        /\ ((2 * i - 1) + 1) \div 2 = i /\ (2 * i + 1) \div 2 = i
    BY <1>1
  <2> QED
    BY <2>1
<1> HIDE DEF digit
<1>6. ASSUME NEW k \in 1..(2 * IdBytes)
      PROVE  (t[k] = "0" \/ t[k] = "1") /\ DigitValue(t[k]) = digit(k)
  <2>1. t[k] = Digit[1 + digit(k)] /\ digit(k) \in 0..1
    BY <1>2, <1>4
  <2>2. CASE digit(k) = 0
    BY <2>1, <2>2, DigitFacts
  <2>3. CASE digit(k) = 1
    BY <2>1, <2>3, DigitFacts
  <2> QED
    BY <2>1, <2>2, <2>3
<1>7. t \in Text /\ Len(t) = 2 * IdBytes /\ DOMAIN t = 1..(2 * IdBytes)
  <2>1. t \in [1..(2 * IdBytes) -> TextByte]
    <3>1. \A k \in 1..(2 * IdBytes) : t[k] \in TextByte
      BY <1>6 DEF TextByte
    <3>2. t = [k \in 1..(2 * IdBytes) |-> t[k]]
      BY <1>2
    <3> QED
      BY <3>1, <3>2
  <2>2. 2 * IdBytes \in Nat
    BY <1>1
  <2> QED
    BY <2>1, <2>2 DEF Text
<1>8. StripPrefix(t) = t
  <2>1. t[2] # "x"
    BY <1>1, <1>6
  <2> QED
    BY <2>1 DEF StripPrefix, HasPrefix
<1>9. IsNumeral(t)
  BY <1>6, <1>7, <1>8, DigitFacts DEF IsNumeral
<1>10. ASSUME NEW i \in 1..IdBytes PROVE PairValue(t, i) = bytes[i]
  <2>1. PairValue(t, i) = 2 * (bytes[i] \div 2) + (bytes[i] % 2)
    BY <1>5, <1>6 DEF PairValue
  <2> QED
    BY <1>3, <2>1
<1> QED
  BY <1>7, <1>8, <1>9, <1>10

\* The text of an account is decoded to its bytes.
LEMMA RoundTrip ==
  ASSUME NEW a \in Account, NEW t, t = EncodeHex(BytesOf(a))
  PROVE  t \in Text /\ DecodeHex(t) = [is |-> "ok", value |-> BytesOf(a)]
<1> DEFINE b == BytesOf(a)
<1>1. b \in [1..IdBytes -> 0..3]
  BY BytesType
<1> HIDE DEF b
<1>2. /\ t \in Text /\ IsNumeral(t) /\ StripPrefix(t) = t
      /\ \A i \in 1..IdBytes : PairValue(t, i) = b[i]
  BY <1>1, EncodeFacts DEF b
<1>3. DecodeHex(t) = [is |-> "ok", value |-> [i \in 1..IdBytes |-> PairValue(t, i)]]
  BY <1>2, DecodeNumeral
<1>4. [i \in 1..IdBytes |-> PairValue(t, i)] = b
  BY <1>1, <1>2
<1> QED
  BY <1>2, <1>3, <1>4 DEF b

-----------------------------------------------------------------------------
(* Operations and files. *)

\* An operation that is written and parsed comes back with its signature.
LEMMA JsonRoundTrip ==
  ASSUME NEW op \in Operation, NEW key \in Account, NEW so, so = Sign(op, key)
  PROVE  /\ ToJson(so) \in SignedOperationJson
         /\ FromJson(ToJson(so)) = [is |-> "ok", value |-> so]
<1> DEFINE text(a) == EncodeHex(BytesOf(a))
           json == ToJson(so)
           decoded == [i \in DOMAIN Texts(json) |-> DecodeHex(Texts(json)[i])]
<1>1. ASSUME NEW a \in Account
      PROVE  /\ text(a) \in Text /\ DecodeHex(text(a)).is = "ok"
             /\ AccountOf(DecodeHex(text(a)).value) = a
  BY RoundTrip, AccountOfBytes
<1>2. so.operation = op /\ so.signature = key
  BY DEF Sign
<1>3. CASE op.type = "Mint"
  <2>1. /\ op.to \in Account /\ op.token_id \in TokenIds /\ op.amount \in U64
        /\ op = Mint(op.to, op.token_id, op.amount)
    BY <1>3 DEF Operation, Mint
  <2>2. json = [type |-> "Mint", to |-> text(op.to), token_id |-> op.token_id,
                amount |-> op.amount, signature |-> text(key)]
    BY <1>2, <1>3 DEF ToJson
  <2> HIDE DEF json
  <2>3. Texts(json) = <<text(op.to), text(key)>>
    BY <2>2 DEF Texts
  <2>4. /\ DOMAIN decoded = 1..2
        /\ decoded[1] = DecodeHex(text(op.to)) /\ decoded[2] = DecodeHex(text(key))
    BY <2>3
  <2> HIDE DEF text
  <2>5. json \in SignedOperationJson
    BY <1>1, <2>1, <2>2 DEF SignedOperationJson
  <2>6. /\ {i \in DOMAIN decoded : decoded[i].is # "ok"} = {}
        /\ AccountOf(decoded[1].value) = op.to /\ AccountOf(decoded[2].value) = key
    <3> HIDE DEF decoded
    <3> QED
      BY <1>1, <2>1, <2>4
  <2>7. json.type = "Mint" /\ json.token_id = op.token_id /\ json.amount = op.amount
    BY <2>2
  <2>8. FromJson(json) = [is |-> "ok", value |-> Sign(Mint(op.to, op.token_id, op.amount), key)]
    BY <2>6, <2>7 DEF FromJson
  <2> QED
    BY <2>1, <2>5, <2>8 DEF json
<1>4. CASE op.type = "Transfer"
  <2>1. /\ op.from \in Account /\ op.to \in Account
        /\ op.token_id \in TokenIds /\ op.amount \in U64
        /\ op = Transfer(op.from, op.to, op.token_id, op.amount)
    BY <1>4 DEF Operation, Transfer
  <2>2. json = [type |-> "Transfer", from |-> text(op.from), to |-> text(op.to),
                token_id |-> op.token_id, amount |-> op.amount, signature |-> text(key)]
    BY <1>2, <1>4 DEF ToJson
  <2> HIDE DEF json
  <2>3. Texts(json) = <<text(op.from), text(op.to), text(key)>>
    BY <2>2 DEF Texts
  <2>4. /\ DOMAIN decoded = 1..3
        /\ decoded[1] = DecodeHex(text(op.from)) /\ decoded[2] = DecodeHex(text(op.to))
        /\ decoded[3] = DecodeHex(text(key))
    BY <2>3
  <2> HIDE DEF text
  <2>5. json \in SignedOperationJson
    BY <1>1, <2>1, <2>2 DEF SignedOperationJson
  <2>6. /\ {i \in DOMAIN decoded : decoded[i].is # "ok"} = {}
        /\ AccountOf(decoded[1].value) = op.from /\ AccountOf(decoded[2].value) = op.to
        /\ AccountOf(decoded[3].value) = key
    <3> HIDE DEF decoded
    <3> QED
      BY <1>1, <2>1, <2>4
  <2>7. json.type = "Transfer" /\ json.token_id = op.token_id /\ json.amount = op.amount
    BY <2>2
  <2>8. FromJson(json) = [is |-> "ok",
          value |-> Sign(Transfer(op.from, op.to, op.token_id, op.amount), key)]
    BY <2>6, <2>7 DEF FromJson
  <2> QED
    BY <2>1, <2>5, <2>8 DEF json
<1> QED
  BY <1>3, <1>4 DEF Operation

\* The file sign_ops makes of a file of unsigned operations.
JsonOf(unsigned) == [i \in DOMAIN unsigned |-> ToJson(Signed(unsigned[i]))]

LEMMA JsonOfFacts ==
  ASSUME NEW u \in Unsigned
  PROVE  /\ JsonOf(u) \in Seq(SignedOperationJson)
         /\ DOMAIN JsonOf(u) = DOMAIN u
         /\ \A i \in DOMAIN u : FromJson(JsonOf(u)[i]) = [is |-> "ok", value |-> Signed(u[i])]
<1>1. u \in Seq(Operation)
  BY OperationFilesAssumption
<1>2. ASSUME NEW i \in DOMAIN u
      PROVE  /\ JsonOf(u)[i] \in SignedOperationJson
             /\ FromJson(JsonOf(u)[i]) = [is |-> "ok", value |-> Signed(u[i])]
  <2> DEFINE op == u[i]
             by == IF op.type = "Mint" THEN Admin ELSE op.from
  <2>1. op \in Operation
    BY <1>1
  <2>2. by \in Account
    BY <2>1, TokenOpsAssumption DEF Operation, Account
  <2>3. Signed(op) = Sign(op, by) /\ JsonOf(u)[i] = ToJson(Signed(op))
    BY DEF Signed, JsonOf
  <2> HIDE DEF by, op
  <2>4. ToJson(Signed(op)) \in SignedOperationJson
        /\ FromJson(ToJson(Signed(op))) = [is |-> "ok", value |-> Signed(op)]
    BY <2>1, <2>2, <2>3, JsonRoundTrip
  <2> QED
    BY <2>3, <2>4 DEF op
<1>3. DOMAIN JsonOf(u) = DOMAIN u /\ DOMAIN u = 1..Len(u) /\ Len(u) \in Nat
  BY <1>1 DEF JsonOf
<1>4. JsonOf(u) \in [1..Len(u) -> SignedOperationJson]
  <2>1. JsonOf(u) = [i \in 1..Len(u) |-> JsonOf(u)[i]]
    BY <1>3 DEF JsonOf
  <2> QED
    BY <1>2, <1>3, <2>1
<1> QED
  BY <1>2, <1>3, <1>4

IsValue(v, s) ==
  v = [n \in 0..Len(s) |-> IF n = 0 THEN 0 ELSE v[n - 1] * RADIX + DigitValue(s[n])]

\* v[n] is the number that the first n digits of the text are.
ValueOf(v, s) ==
  /\ v \in [0..Len(s) -> Nat]
  /\ v[0] = 0
  /\ \A n \in 1..Len(s) : v[n] = v[n - 1] * 2 + DigitValue(s[n])

LEMMA ValueExists ==
  ASSUME NEW text \in Text, NEW s, s = StripPrefix(text)
  PROVE  \E v : ValueOf(v, s) /\ NumeralAccount(text) = 1 + v[Len(s)]
<1> DEFINE F == [i \in 1..Len(s) |-> [x \in Nat |-> x * 2 + DigitValue(s[i])]]
           V == CHOOSE v : IsValue(v, s)
<1>1. Len(s) \in Nat
  BY StripFacts
<1>2. \A c : DigitValue(c) \in Nat
  BY DigitFacts
<1>3. F \in [1..Len(s) -> [Nat -> Nat]]
  BY <1>2
<1>4. PICK q : IsRun(q, Len(s), Nat, 0, F)
  <2> HIDE DEF F
  <2> QED
    BY <1>1, <1>3, LoopRuns
<1>5. IsValue(q, s)
  <2>1. ASSUME NEW k \in 1..Len(s) PROVE q[k] = q[k - 1] * 2 + DigitValue(s[k])
    <3>1. k - 1 \in 0..Len(s) /\ q \in [0..Len(s) -> Nat] /\ q[k] = F[k][q[k - 1]]
      <4> HIDE DEF F
      <4> QED
        BY <1>1, <1>4 DEF IsRun
    <3>2. q[k - 1] \in Nat
      BY <3>1
    <3> QED
      BY <3>1, <3>2
  <2> QED
    BY <1>1, <1>4, <2>1, Bases DEF IsRun, IsValue
<1>6. IsValue(V, s)
  BY <1>5
<1>7. NumeralAccount(text) = 1 + V[Len(s)]
  BY DEF NumeralAccount, IsValue
<1> HIDE DEF V
<1>8. V[0] = 0 /\ \A n \in 1..Len(s) : V[n] = V[n - 1] * 2 + DigitValue(s[n])
  BY <1>1, <1>6, Bases DEF IsValue
<1>9. \A k \in 0..Len(s) : V[k] \in Nat
  <2> DEFINE T == {k \in 0..Len(s) : V[k] \in Nat}
  <2>1. 0 \in T
    BY <1>1, <1>8
  <2>2. ASSUME NEW k \in 1..Len(s), k - 1 \in T PROVE k \in T
    BY <1>2, <1>8, <2>2
  <2> HIDE DEF T
  <2>3. \A k \in 0..Len(s) : k \in T
    BY <1>1, <2>1, <2>2, CountUp, Zenon
  <2> QED
    BY <2>3 DEF T
<1>10. V \in [0..Len(s) -> Nat]
  BY <1>6, <1>9 DEF IsValue
<1> QED
  BY <1>7, <1>8, <1>10 DEF ValueOf

\* The account with the bytes that a numeral spells is the numeral.
LEMMA NumeralFacts ==
  ASSUME NEW text \in Text, IsNumeral(text), NEW s, s = StripPrefix(text)
  PROVE  AccountOf([i \in 1..IdBytes |-> PairValue(s, i)]) = NumeralAccount(text)
<1>1. PICK v : ValueOf(v, s) /\ NumeralAccount(text) = 1 + v[Len(s)]
  BY ValueExists
<1>2. PICK p : IdsOf(p)
  BY IdsExist
<1> DEFINE n == IdBytes
           a == 1 + v[Len(s)]
           W == [m \in 0..n |-> v[2 * m]]
<1>3. n \in Nat \ {0} /\ Len(s) = 2 * n /\ \A c : DigitValue(c) \in 0..1
  BY Bases, DigitFacts DEF IsNumeral
<1>4. /\ W \in [0..n -> Nat] /\ W[0] = 0 /\ a = 1 + W[n]
      /\ \A m \in 1..n : PairValue(s, m) \in 0..3 /\ W[m] = 4 * W[m - 1] + PairValue(s, m)
  <2>1. v \in [0..(2 * n) -> Nat] /\ v[0] = 0
        /\ \A j \in 1..(2 * n) : v[j] = v[j - 1] * 2 + DigitValue(s[j])
    BY <1>1, <1>3 DEF ValueOf
  <2>2. \A m \in 0..n : 2 * m \in 0..(2 * n) /\ v[2 * m] \in Nat
    BY <1>3, <2>1
  <2>3. ASSUME NEW m \in 1..n
        PROVE  PairValue(s, m) \in 0..3 /\ W[m] = 4 * W[m - 1] + PairValue(s, m)
    <3>1. /\ 2 * m \in 1..(2 * n) /\ 2 * m - 1 \in 1..(2 * n) /\ m - 1 \in 0..n /\ m \in 0..n
          /\ (2 * m - 1) - 1 = 2 * (m - 1)
      BY <1>3
    <3>2. /\ v[2 * m] = v[2 * m - 1] * 2 + DigitValue(s[2 * m])
          /\ v[2 * m - 1] = v[2 * (m - 1)] * 2 + DigitValue(s[2 * m - 1])
      BY <2>1, <3>1
    <3>3. DigitValue(s[2 * m]) \in 0..1 /\ DigitValue(s[2 * m - 1]) \in 0..1
          /\ v[2 * (m - 1)] \in Nat
      BY <1>3, <2>2, <3>1
    <3>4. v[2 * m] = 4 * v[2 * (m - 1)] + PairValue(s, m) /\ PairValue(s, m) \in 0..3
      BY <3>2, <3>3 DEF PairValue
    <3> QED
      BY <3>1, <3>4
  <2>4. W \in [0..n -> Nat]
    BY <2>2
  <2>5. W[0] = 0 /\ W[n] = v[2 * n]
    BY <1>3, <2>1
  <2> HIDE DEF W
  <2> QED
    BY <1>3, <2>3, <2>4, <2>5
<1> HIDE DEF W, a
<1>5. a \in Account
  <2> DEFINE T == {m \in 0..n : W[m] < p[m]}
  <2>1. /\ p \in [0..n -> Nat] /\ p[0] = 1 /\ NumAccounts = p[n]
        /\ \A m \in 1..n : p[m] = 4 * p[m - 1]
    BY <1>2 DEF IdsOf
  <2>2. 0 \in T
    BY <1>3, <1>4, <2>1
  <2>3. ASSUME NEW m \in 1..n, m - 1 \in T PROVE m \in T
    <3>1. m - 1 \in 0..n /\ W[m - 1] < p[m - 1]
      BY <2>3
    <3>2. W[m - 1] \in Nat /\ p[m - 1] \in Nat
      BY <1>4, <2>1, <3>1
    <3>3. W[m] < p[m]
      BY <1>4, <2>1, <3>1, <3>2
    <3> QED
      BY <3>3
  <2> HIDE DEF T
  <2>4. \A m \in 0..n : m \in T
    BY <1>3, <2>2, <2>3, CountUp, Zenon
  <2>5. W[n] < p[n] /\ W[n] \in Nat
    BY <1>3, <1>4, <2>4 DEF T
  <2> QED
    <3>1. a = 1 + W[n] /\ W[n] \in Nat /\ W[n] < NumAccounts /\ NumAccounts \in Nat
      BY <1>4, <2>1, <2>5, Bases
    <3> QED
      BY <3>1 DEF Account
<1>6. PICK r : RestOf(r, a)
  BY <1>5, RestExists
<1>7. \A k \in 0..n : r[k] = W[n - k]
  <2> DEFINE T == {k \in 0..n : r[k] = W[n - k]}
  <2>1. 0 \in T
    <3>1. r[0] = a - 1 /\ a = 1 + W[n] /\ W[n] \in Nat
      BY <1>3, <1>4, <1>6 DEF RestOf
    <3>2. r[0] = W[n] /\ n - 0 = n /\ 0 \in 0..n
      BY <1>3, <3>1
    <3> QED
      BY <3>2
  <2>2. ASSUME NEW k \in 1..n, k - 1 \in T PROVE k \in T
    <3> DEFINE m == n - (k - 1)
    <3>1. m \in 1..n /\ m - 1 = n - k /\ m - 1 \in 0..n /\ k \in 0..n
      BY <1>3
    <3>2. r[k - 1] = W[m] /\ r[k] = r[k - 1] \div 4
      BY <1>6, <2>2 DEF RestOf
    <3>3. W[m] = 4 * W[m - 1] + PairValue(s, m) /\ PairValue(s, m) \in 0..3 /\ W[m - 1] \in Nat
      BY <1>4, <3>1
    <3>4. r[k] = W[m - 1]
      BY <3>2, <3>3
    <3> QED
      BY <3>1, <3>4
  <2> HIDE DEF T
  <2>3. \A k \in 0..n : k \in T
    BY <1>3, <2>1, <2>2, CountUp, Zenon
  <2> QED
    BY <2>3 DEF T
<1>8. ASSUME NEW i \in 1..n PROVE BytesOf(a)[i] = PairValue(s, i)
  <2>1. n - i \in 0..n /\ n - (n - i) = i /\ i - 1 \in 0..n
    BY <1>3
  <2>2. BytesOf(a)[i] = W[i] % 4
    BY <1>6, <1>7, <2>1 DEF RestOf
  <2>3. W[i] = 4 * W[i - 1] + PairValue(s, i) /\ PairValue(s, i) \in 0..3 /\ W[i - 1] \in Nat
    BY <1>4, <2>1
  <2> QED
    BY <2>2, <2>3
<1>9. BytesOf(a) = [i \in 1..IdBytes |-> PairValue(s, i)]
  <2>1. BytesOf(a) \in [1..n -> 0..3]
    BY <1>5, BytesType
  <2> QED
    BY <1>8, <2>1
<1> QED
  BY <1>1, <1>5, <1>9, AccountOfBytes DEF a

-----------------------------------------------------------------------------
(* The machine. *)

\* A file holds what somebody wrote, what sign_ops wrote, or no list.
Origin(f) ==
  \/ ~f.list /\ f.ops = <<>>
  \/ f.ops \in HandWritten
  \/ \E u \in Unsigned : f.ops = JsonOf(u)

SignerState == [pc : {"Idle", "Create", "Write", "Newline"}, ops : Seq(SignedOperationJson)]

FilesInv ==
  /\ Origin(file)
  /\ signer \in [Signers -> SignerState]
  /\ \A s \in Signers : signer[s].pc # "Idle" => \E u \in Unsigned : signer[s].ops = JsonOf(u)

LEMMA FilesInvInit == Init => FilesInv
<1> SUFFICES ASSUME Init PROVE FilesInv
  OBVIOUS
<1>1. Origin(file)
  BY DEF Init, Origin, EmptyFile
<1>2. [pc |-> "Idle", ops |-> <<>>] \in SignerState
  BY DEF SignerState
<1> QED
  BY <1>1, <1>2 DEF Init, FilesInv

LEMMA FilesInvStep == FilesInv /\ [Next]_vars => FilesInv'
<1> SUFFICES ASSUME FilesInv, [Next]_vars PROVE FilesInv'
  OBVIOUS
<1> USE DEF FilesInv
<1>1. ASSUME NEW s \in Signers, NEW f \in Unsigned, SignOps(s, f) PROVE FilesInv'
  <2>1. /\ file' = file
        /\ signer' = [signer EXCEPT ![s] = [pc |-> "Create", ops |-> JsonOf(f)]]
    BY <1>1 DEF SignOps, JsonOf
  <2>2. [pc |-> "Create", ops |-> JsonOf(f)] \in SignerState
    BY JsonOfFacts DEF SignerState
  <2> QED
    BY <2>1, <2>2 DEF Origin
\* A process goes on with the list it has.
<1>2. ASSUME NEW s \in Signers, NEW pc \in {"Write", "Newline"}, signer[s].pc # "Idle",
             signer' = [signer EXCEPT ![s].pc = pc], Origin(file')
      PROVE  FilesInv'
  <2>1. /\ signer' = [signer EXCEPT ![s] = [signer[s] EXCEPT !.pc = pc]]
        /\ [signer[s] EXCEPT !.pc = pc] \in SignerState
        /\ [signer[s] EXCEPT !.pc = pc].ops = signer[s].ops
    BY <1>2 DEF SignerState
  <2>2. \A z \in Signers : signer'[z].pc # "Idle" => \E u \in Unsigned : signer'[z].ops = JsonOf(u)
    BY <1>2, <2>1
  <2> QED
    BY <1>2, <2>1, <2>2
\* A process ends.
<1>3. ASSUME NEW s \in Signers, Origin(file'),
             signer' = [signer EXCEPT ![s] = [pc |-> "Idle", ops |-> <<>>]]
      PROVE  FilesInv'
  <2>1. [pc |-> "Idle", ops |-> <<>>] \in SignerState
    BY DEF SignerState
  <2> QED
    BY <1>3, <2>1
<1>4. ASSUME NEW s \in Signers, CreateOutput(s) PROVE FilesInv'
  BY <1>2, <1>4 DEF CreateOutput, Origin, EmptyFile
<1>5. ASSUME NEW s \in Signers, WriteOutput(s) PROVE FilesInv'
  <2>1. /\ file'.ops = signer[s].ops /\ signer[s].pc = "Write"
        /\ signer' = [signer EXCEPT ![s].pc = "Newline"]
    BY <1>5 DEF WriteOutput
  <2>2. Origin(file')
    BY <2>1 DEF Origin
  <2> QED
    BY <1>2, <2>1, <2>2
<1>6. ASSUME NEW s \in Signers, WriteNewline(s) PROVE FilesInv'
  <2>1. /\ signer' = [signer EXCEPT ![s] = [pc |-> "Idle", ops |-> <<>>]]
        /\ file'.list = file.list /\ file'.ops = file.ops
    BY <1>6 DEF WriteNewline
  <2> QED
    BY <1>3, <2>1 DEF Origin
<1>7. ASSUME NEW s \in Signers, Crash(s) PROVE FilesInv'
  BY <1>3, <1>7 DEF Crash, Origin
<1>8. ASSUME NEW f \in HandWritten, Edit(f) PROVE FilesInv'
  BY <1>8 DEF Edit, Holding, Origin
<1>9. ASSUME UNCHANGED vars PROVE FilesInv'
  BY <1>9 DEF vars, Origin
<1> QED
  BY <1>1, <1>4, <1>5, <1>6, <1>7, <1>8, <1>9 DEF Next

\* The operations of a file are operations.
LEMMA FileOps ==
  ASSUME FilesInv
  PROVE  file.ops \in Seq(SignedOperationJson)
<1>1. CASE file.ops = <<>>
  BY <1>1
<1>2. CASE file.ops \in HandWritten
  BY <1>2, OperationFilesAssumption
<1>3. ASSUME NEW u \in Unsigned, file.ops = JsonOf(u) PROVE file.ops \in Seq(SignedOperationJson)
  BY <1>3, JsonOfFacts
<1> QED
  BY <1>1, <1>2, <1>3 DEF FilesInv, Origin

LEMMA FilesInvariance == Spec => []FilesInv
BY FilesInvInit, FilesInvStep, PTL DEF Spec

-----------------------------------------------------------------------------
(* What a reader gets. *)

\* What collects has an operation for each result, and none that failed.
LEMMA CollectFacts ==
  ASSUME NEW results, DOMAIN results \subseteq Nat, Collect(results).is = "ok"
  PROVE  /\ \A i \in DOMAIN results : results[i].is = "ok"
         /\ Collect(results).value = [i \in DOMAIN results |-> results[i].value]
<1> DEFINE bad == {i \in DOMAIN results : results[i].is # "ok"}
<1>1. bad = {}
  <2> SUFFICES ASSUME bad # {} PROVE FALSE
    OBVIOUS
  <2>1. Collect(results) = [is |-> results[Min(bad)].is]
    BY DEF Collect
  <2>2. Min(bad) \in bad
    <3>1. \E m \in bad : \A k \in bad : m <= k
      BY LeastNatural
    <3> HIDE DEF bad
    <3> QED
      BY <3>1 DEF Min
  <2> QED
    BY <2>1, <2>2
<1>2. Collect(results) = [is |-> "ok", value |-> [i \in DOMAIN results |-> results[i].value]]
  BY <1>1 DEF Collect
<1> QED
  BY <1>1, <1>2

\* An operation that a newline has changed does not verify.
LEMMA SpoiltFails ==
  ASSUME NEW so, NEW r \in Spoilt(so), r # so
  PROVE  ~VerifyOperation(r)
<1>1. r.signature = 0
  <2>1. \E op : r = Sign(op, NoSigner)
    BY DEF Spoilt
  <2> QED
    BY <2>1 DEF Sign, NoSigner
<1>2. Admin # 0 /\ 0 \notin Keys
  BY TokenOpsAssumption DEF Account
<1> QED
  BY <1>1, <1>2 DEF VerifyOperation, VerifySignature

\* What is read is all the operations of the list, each as its text says or
\* changed by a newline.
LEMMA ParsedWhole ==
  ASSUME NEW f, f.ops \in Seq(SignedOperationJson),
         NEW got \in ParseSignedOperations(f), got.is = "ok"
  PROVE  /\ f.list
         /\ \A i \in DOMAIN f.ops : FromJson(f.ops[i]).is = "ok"
         /\ DOMAIN got.value = DOMAIN f.ops
         /\ \A i \in DOMAIN f.ops :
              \/ got.value[i] = FromJson(f.ops[i]).value
              \/ Inside(f) # {} /\ ~VerifyOperation(got.value[i])
<1> DEFINE results == [i \in DOMAIN f.ops |-> FromJson(f.ops[i])]
           parsed == Collect(results)
<1>1. f.list
  BY DEF ParseSignedOperations, IsJson
<1>2. /\ parsed.is = "ok"
      /\ \/ got = parsed
         \/ /\ Inside(f) # {}
            /\ \E r \in SpoiltLists(parsed.value, Cardinality(Inside(f))) :
                 got = [is |-> "ok", value |-> r]
  <2> HIDE DEF parsed
  <2>1. ParseSignedOperations(f) =
          IF ~IsJson(f) THEN {[is |-> "err"]}
          ELSE IF Inside(f) = {} THEN {parsed}
          ELSE {[is |-> "err"]} \cup
               IF parsed.is # "ok" THEN {parsed}
               ELSE {[is |-> "ok", value |-> r] :
                       r \in SpoiltLists(parsed.value, Cardinality(Inside(f)))}
    BY DEF ParseSignedOperations, parsed
  <2> QED
    BY <2>1
<1>3. /\ \A i \in DOMAIN f.ops : results[i] = FromJson(f.ops[i])
      /\ DOMAIN results = DOMAIN f.ops /\ DOMAIN results \subseteq Nat
  OBVIOUS
<1> HIDE DEF results
<1>4. /\ \A i \in DOMAIN f.ops : FromJson(f.ops[i]).is = "ok"
      /\ parsed.value = [i \in DOMAIN results |-> results[i].value]
  BY <1>2, <1>3, CollectFacts
<1>5. /\ DOMAIN parsed.value = DOMAIN f.ops
      /\ \A i \in DOMAIN f.ops : parsed.value[i] = FromJson(f.ops[i]).value
  BY <1>3, <1>4
<1> HIDE DEF parsed
<1>6. CASE got = parsed
  BY <1>1, <1>4, <1>5, <1>6
<1>7. ASSUME Inside(f) # {}, NEW r \in SpoiltLists(parsed.value, Cardinality(Inside(f))),
             got = [is |-> "ok", value |-> r]
      PROVE  /\ DOMAIN got.value = DOMAIN f.ops
             /\ \A i \in DOMAIN f.ops :
                  \/ got.value[i] = FromJson(f.ops[i]).value
                  \/ Inside(f) # {} /\ ~VerifyOperation(got.value[i])
  <2>1. /\ got.value = r /\ DOMAIN r = DOMAIN parsed.value
        /\ \A i \in DOMAIN parsed.value : r[i] \in Spoilt(parsed.value[i])
    BY <1>7 DEF SpoiltLists
  <2>2. \A i \in DOMAIN parsed.value : r[i] = parsed.value[i] \/ ~VerifyOperation(r[i])
    BY <2>1, SpoiltFails
  <2> QED
    BY <1>5, <1>7, <2>1, <2>2
<1> QED
  BY <1>1, <1>2, <1>4, <1>6, <1>7

\* What a reader gets of a file that sign_ops wrote is what was signed, or was
\* changed by a newline.
LEMMA ReadSigned ==
  ASSUME NEW u \in Unsigned, NEW f, f.ops = JsonOf(u),
         NEW got \in ParseSignedOperations(f), got.is = "ok"
  PROVE  /\ DOMAIN got.value = DOMAIN u
         /\ \A i \in DOMAIN u :
              \/ got.value[i] = Signed(u[i])
              \/ Inside(f) # {} /\ ~VerifyOperation(got.value[i])
<1>1. /\ JsonOf(u) \in Seq(SignedOperationJson) /\ DOMAIN JsonOf(u) = DOMAIN u
      /\ \A i \in DOMAIN u : FromJson(JsonOf(u)[i]) = [is |-> "ok", value |-> Signed(u[i])]
  BY JsonOfFacts
<1>2. /\ DOMAIN got.value = DOMAIN f.ops
      /\ \A i \in DOMAIN f.ops :
           \/ got.value[i] = FromJson(f.ops[i]).value
           \/ Inside(f) # {} /\ ~VerifyOperation(got.value[i])
  BY <1>1, ParsedWhole
<1> QED
  BY <1>1, <1>2

LEMMA SameLength ==
  ASSUME NEW s, NEW t, NEW n \in Nat, DOMAIN s = 1..n, DOMAIN t = 1..n
  PROVE  Len(s) = Len(t)
BY LenProperties

-----------------------------------------------------------------------------
\* Whoever reads a file of signed operations gets all the operations of one
\* unsigned file, or of one file written by hand, in their order, or an error,
\* and an operation that is not as it was signed does not verify: for any number
\* of signing processes, whose two writes interleave, crashes and edits.
THEOREM ReadersGetWholeFiles == Spec => []ReadsWhole
<1>1. FilesInv => ReadsWhole
  <2> SUFFICES ASSUME FilesInv, NEW got \in ParseSignedOperations(file), got.is = "ok"
               PROVE  \/ \E u \in Unsigned : Renders(got.value, [i \in DOMAIN u |-> Signed(u[i])])
                      \/ \E f \in HandWritten :
                           /\ file.ops = f
                           /\ \A i \in DOMAIN f : FromJson(f[i]).is = "ok"
                           /\ Renders(got.value, [i \in DOMAIN f |-> FromJson(f[i]).value])
    BY DEF ReadsWhole
  <2>1. file.ops \in Seq(SignedOperationJson)
    BY FileOps
  <2>2. file.list
    BY <2>1, ParsedWhole
  <2>3. ASSUME NEW f \in HandWritten, file.ops = f
        PROVE  /\ \A i \in DOMAIN f : FromJson(f[i]).is = "ok"
               /\ Renders(got.value, [i \in DOMAIN f |-> FromJson(f[i]).value])
    <3> DEFINE sos == [i \in DOMAIN f |-> FromJson(f[i]).value]
    <3>1. /\ DOMAIN got.value = DOMAIN f /\ \A i \in DOMAIN f : FromJson(f[i]).is = "ok"
          /\ \A i \in DOMAIN f : got.value[i] = FromJson(f[i]).value \/ ~VerifyOperation(got.value[i])
      BY <2>1, <2>3, ParsedWhole
    <3>2. DOMAIN f = 1..Len(f) /\ Len(f) \in Nat
      BY <2>1, <2>3
    <3>3. DOMAIN sos = DOMAIN f /\ \A i \in DOMAIN f : sos[i] = FromJson(f[i]).value
      OBVIOUS
    <3> HIDE DEF sos
    <3>4. Len(got.value) = Len(sos)
      BY <3>1, <3>2, <3>3, SameLength
    <3>5. Renders(got.value, sos)
      BY <3>1, <3>3, <3>4 DEF Renders
    <3> QED
      BY <3>1, <3>5 DEF sos
  <2>4. ASSUME NEW u \in Unsigned, file.ops = JsonOf(u)
        PROVE  Renders(got.value, [i \in DOMAIN u |-> Signed(u[i])])
    <3> DEFINE sos == [i \in DOMAIN u |-> Signed(u[i])]
    <3>1. /\ DOMAIN got.value = DOMAIN u
          /\ \A i \in DOMAIN u : got.value[i] = Signed(u[i]) \/ ~VerifyOperation(got.value[i])
      BY <2>4, ReadSigned
    <3>2. DOMAIN u = 1..Len(u) /\ Len(u) \in Nat
      BY OperationFilesAssumption
    <3>3. DOMAIN sos = DOMAIN u /\ \A i \in DOMAIN u : sos[i] = Signed(u[i])
      OBVIOUS
    <3> HIDE DEF sos
    <3>4. Len(got.value) = Len(sos)
      BY <3>1, <3>2, <3>3, SameLength
    <3>5. Renders(got.value, sos)
      BY <3>1, <3>3, <3>4 DEF Renders
    <3> QED
      BY <3>5 DEF sos
  <2> QED
    BY <2>2, <2>3, <2>4 DEF FilesInv, Origin
<1> QED
  BY <1>1, FilesInvariance, PTL

\* What sign_ops signed is verified once it has been written, read and decoded,
\* unless its amount is zero or it is a transfer to its sender, or a newline of
\* another process fell on the list.
THEOREM SignedFilesAreVerified == Spec => []SignedFilesVerify
<1>1. FilesInv => SignedFilesVerify
  <2> SUFFICES ASSUME FilesInv, file.ops \notin HandWritten, Inside(file) = {},
                      NEW got \in ParseSignedOperations(file), got.is = "ok",
                      NEW i \in DOMAIN got.value, NEW so, so = got.value[i]
               PROVE  VerifyOperation(so)
                        <=> /\ so.operation.amount # 0
                            /\ so.operation.type = "Transfer" => so.operation.from # so.operation.to
    BY DEF SignedFilesVerify
  <2>1. file.ops \in Seq(SignedOperationJson)
    BY FileOps
  <2>2. file.list
    BY <2>1, ParsedWhole
  <2>3. PICK u \in Unsigned : file.ops = JsonOf(u)
    BY <2>2 DEF FilesInv, Origin
  <2>4. i \in DOMAIN u /\ so = Signed(u[i])
    BY <2>3, ReadSigned
  <2>5. u[i] \in Operation /\ (u[i].type = "Transfer" => u[i].from \in Keys)
    BY <2>4, OperationFilesAssumption
  <2>6. /\ so.operation = u[i]
        /\ so.signature = IF u[i].type = "Mint" THEN Admin ELSE u[i].from
    BY <2>4 DEF Signed, Sign
  <2>7. u[i].type = "Mint" \/ u[i].type = "Transfer"
    BY <2>5 DEF Operation
  <2> QED
    BY <2>5, <2>6, <2>7 DEF VerifyOperation, VerifySignature
<1> QED
  BY <1>1, FilesInvariance, PTL

\* In any file there can be, decode_hex turns the texts with the right number of
\* digits into the accounts they spell and refuses every other text without a
\* sign, whatever the length of an id.
THEOREM TextsAreNumerals == Spec => []DecodesNumerals
<1>1. FilesInv => DecodesNumerals
  <2> SUFFICES ASSUME FilesInv, NEW i \in DOMAIN file.ops, NEW j \in DOMAIN Texts(file.ops[i]),
                      NEW text, text = Texts(file.ops[i])[j], Signless(text)
               PROVE  /\ DecodeHex(text).is = "ok" <=> IsNumeral(text)
                      /\ DecodeHex(text).is = "ok" =>
                           AccountOf(DecodeHex(text).value) = NumeralAccount(text)
    BY DEF DecodesNumerals
  <2>1. file.ops \in Seq(SignedOperationJson)
    BY FileOps
  <2>2. file.ops[i] \in SignedOperationJson
    BY <2>1
  <2>3. text \in Text
    BY <2>2 DEF Texts, SignedOperationJson
  <2>4. DecodeHex(text).is = "ok" => IsNumeral(text)
    BY <2>3, DecodeOnlyNumerals
  <2>5. ASSUME IsNumeral(text)
        PROVE  /\ DecodeHex(text).is = "ok"
               /\ AccountOf(DecodeHex(text).value) = NumeralAccount(text)
    <3> DEFINE s == StripPrefix(text)
               value == [k \in 1..IdBytes |-> PairValue(s, k)]
    <3>1. DecodeHex(text) = [is |-> "ok", value |-> value]
      BY <2>3, <2>5, DecodeNumeral
    <3>2. AccountOf(value) = NumeralAccount(text)
      BY <2>3, <2>5, NumeralFacts
    <3> QED
      BY <3>1, <3>2
  <2> QED
    BY <2>4, <2>5
<1> QED
  BY <1>1, FilesInvariance, PTL

=============================================================================
