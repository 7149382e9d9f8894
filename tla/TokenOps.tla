------------------------------ MODULE TokenOps ------------------------------
(***************************************************************************)
(* The operations of the token ledger and what they do to a ledger state:  *)
(* the crate token-ledger-common and the pure part of the crate            *)
(* token-ledger-state-v2 (transition.rs).  Nothing here has a state of its *)
(* own; the machines of StateTransition, LedgerServiceV1 and Rollup are    *)
(* built from these operators.                                             *)
(*                                                                         *)
(* A definition whose comment begins with "Faulty" stands for a plausible  *)
(* slip in the definition that follows it; no specification uses it.  It   *)
(* documents what the properties notice (here and in the other modules).   *)
(*                                                                         *)
(* Account ids are 32-byte arrays compared byte by byte; only their order  *)
(* matters, so they are 1..NumAccounts.  A signature is the account whose  *)
(* key verifies it over exactly the operation it is attached to, or        *)
(* NoSigner when no key does (Ed25519 is taken to be unforgeable and the   *)
(* hash of signing_message to be injective).                               *)
(***************************************************************************)
EXTENDS Integers, Sequences, FiniteSets

CONSTANTS NumAccounts,  \* accounts are 1..NumAccounts
          TokenIds,     \* the u32 token ids in use
          Keys,         \* the account ids that decode as an Ed25519 key
          Admin,        \* the hard-coded administrator
          I64Max        \* i64::MAX of the machine being modelled

ASSUME TokenOpsAssumption ==
  /\ NumAccounts \in Nat \ {0}
  /\ TokenIds \subseteq Nat /\ IsFiniteSet(TokenIds)
  /\ Keys \subseteq 1..NumAccounts
  /\ Admin \in Keys
  /\ I64Max \in Nat \ {0}

Account == 1..NumAccounts
U64Max == 2 * I64Max + 1
U64 == 0..U64Max
I64 == (-I64Max - 1)..I64Max

NoSigner == 0

Mint(to, t, amount) ==
  [type |-> "Mint", to |-> to, token_id |-> t, amount |-> amount]
Transfer(from, to, t, amount) ==
  [type |-> "Transfer", from |-> from, to |-> to, token_id |-> t, amount |-> amount]

Operation ==
  [type : {"Mint"}, to : Account, token_id : TokenIds, amount : U64]
    \cup
  [type : {"Transfer"}, from : Account, to : Account, token_id : TokenIds, amount : U64]

SignedOperation == [operation : Operation, signature : Account \cup {NoSigner}]

Sign(op, signer) == [operation |-> op, signature |-> signer]

-----------------------------------------------------------------------------
(* Checks an operation on its own, without a ledger. *)

VerifySignature(so, key) == so.signature = key

\* Faulty: anybody may mint.
VerifyOperationAnyMint(so) ==
  LET op == so.operation IN
  \/ op.type = "Mint" /\ op.amount # 0
  \/ /\ op.type = "Transfer" /\ op.from \in Keys /\ VerifySignature(so, op.from)
     /\ op.amount # 0 /\ op.from # op.to

\* The body of the loop of verify_operations: the early returns, in order.
VerifyOperation(so) ==
  LET op == so.operation IN
  \/ /\ op.type = "Mint"
     /\ VerifySignature(so, Admin)
     /\ op.amount # 0
  \/ /\ op.type = "Transfer"
     /\ op.from \in Keys
     /\ VerifySignature(so, op.from)
     /\ op.amount # 0
     /\ op.from # op.to

VerifyOperations(batch) == \A i \in DOMAIN batch : VerifyOperation(batch[i])

-----------------------------------------------------------------------------
(* 64-bit arithmetic. *)

\* `amount as i64`: two's complement reinterpretation of a u64.
AsI64(n) == IF n > I64Max THEN n - (U64Max + 1) ELSE n

\* The value left in an i64 by a sum or a negation of i64s in a release build.
WrapI64(x) ==
  IF x > I64Max THEN x - (U64Max + 1)
  ELSE IF x < -I64Max - 1 THEN x + (U64Max + 1) ELSE x

SaturatingAdd(x, y) == IF x + y > U64Max THEN U64Max ELSE x + y

-----------------------------------------------------------------------------
(* Netting.  Transfers of a batch are added up per token and pair of       *)
(* counterparts, the smaller account first; a positive sum is owed by the  *)
(* first to the second.  An absent entry of the BTreeMap is a zero sum:    *)
(* both are skipped when the sums are applied.  The counterparts are equal *)
(* only in operations that were not verified.                              *)

StageKey == {k \in TokenIds \X Account \X Account : k[2] <= k[3]}

NothingStaged == [k \in StageKey |-> 0]

\* BTreeMap's iteration order on (TokenId, (AccountId, AccountId)).
KeyBefore(k, l) ==
  \/ k[1] < l[1]
  \/ k[1] = l[1] /\ k[2] < l[2]
  \/ k[1] = l[1] /\ k[2] = l[2] /\ k[3] < l[3]

CanonicalKey(op) ==
  IF op.from < op.to THEN <<op.token_id, op.from, op.to>>
                     ELSE <<op.token_id, op.to, op.from>>

\* Faulty: the amount keeps its sign when the counterparts are swapped.
CanonicalAmountUnsigned(op) == AsI64(op.amount)

\* The exact value of canonical_transfer's second component, before the
\* negation is reduced to 64 bits.
CanonicalAmount(op) ==
  IF op.from < op.to THEN AsI64(op.amount) ELSE -AsI64(op.amount)

\* Faulty: `*e = transfer.1`.
StagedLast(staged, op) == WrapI64(CanonicalAmount(op))

\* `*e += transfer.1` on the entry of the operation's key.
StagedSum(staged, op) ==
  staged[CanonicalKey(op)] + WrapI64(CanonicalAmount(op))

\* Faulty: the sum is kept in something wider than an i64.
StageWide(staged, op) == [staged EXCEPT ![CanonicalKey(op)] = StagedSum(staged, op)]

Stage(staged, op) ==
  [staged EXCEPT ![CanonicalKey(op)] = WrapI64(StagedSum(staged, op))]

\* Does staging this transfer overflow an i64?  A debug build panics then.
StageOverflows(staged, op) ==
  CanonicalAmount(op) \notin I64 \/ StagedSum(staged, op) \notin I64

\* The transfer a net sum stands for.  `(-net) as u64` of i64::MIN is 2^63 in a
\* release build and a panic in a debug build.
NetTransfer(k, net) ==
  IF net > 0 THEN Transfer(k[2], k[3], k[1], net)
             ELSE Transfer(k[3], k[2], k[1], -net)

NegationOverflows(net) == -net \notin I64

-----------------------------------------------------------------------------
(* Ledger states and what an operation does to one.  An account with no    *)
(* stored balance has 0: every read is get_balance(..).unwrap_or(0).       *)

LedgerState == [known : SUBSET TokenIds, bal : [TokenIds -> [Account -> U64]]]

EmptyLedger ==
  [known |-> {}, bal |-> [t \in TokenIds |-> [a \in Account |-> 0]]]

\* Faulty: a token can be minted again.
MintNeverRefused(s, op) == FALSE

MintRefused(s, op) == op.token_id \in s.known

ProcessMint(s, op) ==
  IF MintRefused(s, op) THEN s
  ELSE LET b == s.bal[op.token_id]
           credited == [b EXCEPT ![op.to] = SaturatingAdd(b[op.to], op.amount)]
       IN  [known |-> s.known \cup {op.token_id},
            bal |-> [s.bal EXCEPT ![op.token_id] = credited]]

\* Faulty: the sender's balance is not looked at.
TransferRefusedUnknown(s, op) == op.token_id \notin s.known

TransferRefused(s, op) ==
  op.token_id \notin s.known \/ s.bal[op.token_id][op.from] < op.amount

\* Faulty: a receiver without a balance is not credited.
ProcessTransferUncredited(s, op) ==
  LET b == s.bal[op.token_id]
      debited == [b EXCEPT ![op.from] = b[op.from] - op.amount]
  IN  IF TransferRefused(s, op) THEN s
      ELSE [s EXCEPT !.bal[op.token_id] =
              IF b[op.to] = 0 THEN debited
              ELSE [debited EXCEPT ![op.to] = SaturatingAdd(b[op.to], op.amount)]]

\* Both balances are read before either is written; the second write wins when
\* sender and receiver are the same account.
ProcessTransfer(s, op) ==
  IF TransferRefused(s, op) THEN s
  ELSE LET b == s.bal[op.token_id]
           debited == [b EXCEPT ![op.from] = b[op.from] - op.amount]
           credited == [debited EXCEPT ![op.to] = SaturatingAdd(b[op.to], op.amount)]
       IN  [known |-> s.known, bal |-> [s.bal EXCEPT ![op.token_id] = credited]]

-----------------------------------------------------------------------------
(* Measuring a ledger, for the properties. *)

\* f[1] + ... + f[n].
SumTo(f, n) ==
  LET P[i \in 0..n] == IF i = 0 THEN 0 ELSE P[i - 1] + f[i] IN P[n]

\* The supply of a token: what all accounts hold of it together.
Total(b) == SumTo(b, NumAccounts)

=============================================================================
