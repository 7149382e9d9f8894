--------------------------- MODULE WitnessedState ---------------------------
(***************************************************************************)
(* The State of token-ledger-builder-v2 (state.rs) as a value: the tree,   *)
(* the known tokens and what the witness has recorded since the state was  *)
(* loaded; how a state is stored and loaded; and the other end, where the  *)
(* State of token-ledger-service-v2 is rebuilt from the witness and        *)
(* repeats the transition.  BuilderState and MerkleRollup are machines     *)
(* built from it.                                                          *)
(***************************************************************************)
EXTENDS BatchOps, MerkleTree

-----------------------------------------------------------------------------
(* Reads and writes that record the witness.  The State of the service     *)
(* crate does the same without recording.                                  *)

\* `initial`: the hashes when the state was loaded; `hashes`, `entries`: what
\* the witness has of them; `panicked`: the transition has panicked, on a key
\* collision (unimplemented!) or, in a debug build, on an overflow.
NewState(tree, tokens) ==
  [tree |-> tree, tokens |-> tokens, initial |-> tree.hashes,
   hashes |-> EmptyTree.hashes, entries |-> {}, panicked |-> FALSE]

\* Faulty: a node is recorded as it is now, not as it was when loaded.
RecordCurrentHashes(b, nodes) ==
  [b EXCEPT !.hashes = [i \in TreeIndex |->
     IF i \in nodes /\ b.tree.hashes[i] # EMPTY_HASH THEN b.tree.hashes[i] ELSE b.hashes[i]]]

\* record_witness_hash, for a set of nodes.
RecordHashes(b, nodes) ==
  [b EXCEPT !.hashes = [i \in TreeIndex |->
     IF i \in nodes /\ b.tree.hashes[i] # EMPTY_HASH /\ b.initial[i] # EMPTY_HASH
     THEN b.initial[i] ELSE b.hashes[i]]]

\* get_value: the leaf's entry, whatever its key, is recorded as it is now,
\* unless the witness already has that key.
RecordRead(b, k) ==
  LET ix == TreeIndexFromKey(k)
      e == b.tree.key_values[ix]
      r == RecordHashes(b, Siblings(ix))
  IN  IF e # NoEntry /\ \A w \in b.entries : w.key # e.key
      THEN [r EXCEPT !.entries = @ \cup {e}] ELSE r

\* Faulty: set overwrites the entry before it looks at the key in it.
SetBalanceFirst(b, k, v) ==
  LET ix == TreeIndexFromKey(k)
      tree == [hashes |-> Insert(b.tree.hashes, ix, LeafHash(k, v)),
               key_values |-> [b.tree.key_values EXCEPT ![ix] = [key |-> k, value |-> v]]]
  IN  [RecordHashes(b, Siblings(ix)) EXCEPT !.tree = tree, !.panicked = Collides(b.tree, k)]

SetBalance(b, k, v) ==
  LET r == RecordHashes(b, Siblings(TreeIndexFromKey(k)))
  IN  IF Collides(b.tree, k) THEN [r EXCEPT !.panicked = TRUE]
                             ELSE [r EXCEPT !.tree = Set(b.tree, k, v)]

\* process_mint and process_transfer on such a state.  Nothing runs after a
\* panic.
MintOn(b, op) ==
  LET k == <<op.token_id, op.to>> IN
  IF b.panicked \/ Contains(b.tokens, op.token_id) THEN b
  ELSE SetBalance([RecordRead(b, k) EXCEPT !.tokens = Append(@, op.token_id)], k,
                  SaturatingAdd(Get(b.tree, k), op.amount))

\* The credit, unless the debit panicked.
CreditOn(b, k, v) == IF b.panicked THEN b ELSE SetBalance(b, k, v)

TransferOn(b, op) ==
  LET from == <<op.token_id, op.from>>
      to == <<op.token_id, op.to>>
      sender == RecordRead(b, from)
  IN  IF b.panicked \/ ~Contains(b.tokens, op.token_id) THEN b
      ELSE IF Get(b.tree, from) < op.amount THEN sender
      ELSE CreditOn(SetBalance(RecordRead(sender, to), from, Get(b.tree, from) - op.amount),
                    to, SaturatingAdd(Get(b.tree, to), op.amount))

OpOn(b, op) ==
  CASE op.type = "Mint" -> MintOn(b, op)
    [] op.type = "Transfer" -> TransferOn(b, op)
    [] op.type = "Overflow" -> [b EXCEPT !.panicked = TRUE]
    [] OTHER -> b

\* What state_transition carries out, in order: the first loop mints, and only
\* stages what it finds of transfers; the second has the net transfers.
Staged == [type |-> "Staged"]
OpsOf(batch) ==
  LET first == [i \in 1..Len(batch) |->
                  IF batch[i].operation.type = "Mint" THEN batch[i].operation ELSE Staged]
  IN  first \o NetTransfers(StageAll(batch))

\* Does the i-th of them overflow an i64: adding the transfer to the sum staged
\* before it, or negating the sum that is to be applied?
Overflows(batch, i) ==
  IF i <= Len(batch)
  THEN /\ batch[i].operation.type = "Transfer"
       /\ StageOverflows(StageAll(SubSeq(batch, 1, i - 1)), batch[i].operation)
  ELSE OpsOf(batch)[i].amount \notin I64

\* The same in a build with overflow checks, which panics there, and in one
\* without, where the sums wrap.
Overflow == [type |-> "Overflow"]
OpsIn(batch, checks) ==
  [i \in 1..Len(OpsOf(batch)) |->
     IF checks /\ Overflows(batch, i) THEN Overflow ELSE OpsOf(batch)[i]]

CarryOut(b, ops) ==
  LET state[i \in 0..Len(ops)] == IF i = 0 THEN b ELSE OpOn(state[i - 1], ops[i])
  IN  state[Len(ops)]

TransitionOn(b, batch) == CarryOut(b, OpsOf(batch))
TransitionIn(b, batch, checks) == CarryOut(b, OpsIn(batch, checks))

RootOf(b) == StateRoot(b.tree, b.tokens)

LedgerOf(b) ==
  [known |-> ToSet(b.tokens),
   bal |-> [t \in TokenIds |-> [a \in Account |-> Get(b.tree, <<t, a>>)]]]

-----------------------------------------------------------------------------
(* Persistence. *)

GenesisFile == [key_values |-> EmptyTree.key_values, tokens |-> <<>>]

\* from_stream: the entries come back in index order and are set one by one.
\* Printing the restored state asks for its root, which records it.
LoadFile(file) ==
  LET entries == [n \in 1..(2 * TREE_SIZE) |-> file.key_values[n - 1]]
      tree == SetEach(EmptyTree, entries)[2 * TREE_SIZE]
  IN  RecordHashes(NewState(tree, file.tokens), {RootIndex})

\* Faulty: HEAD is written but no state file.
FilesKept(files, b) == files

\* Faulty: entries with a zero balance are not written.
FilesWithNonzero(files, b) ==
  LET kept == [i \in TreeIndex |-> LET e == b.tree.key_values[i] IN
                 IF e # NoEntry /\ e.value = 0 THEN NoEntry ELSE e]
  IN  [r \in DOMAIN files \cup {RootOf(b)} |->
         IF r \in DOMAIN files THEN files[r] ELSE [key_values |-> kept, tokens |-> b.tokens]]

\* serialize, from Drop: a file that is already there is left alone.
FilesWith(files, b) ==
  [r \in DOMAIN files \cup {RootOf(b)} |->
     IF r \in DOMAIN files THEN files[r]
     ELSE [key_values |-> b.tree.key_values, tokens |-> b.tokens]]

-----------------------------------------------------------------------------
(* The other end. *)

KeyLess(e, f) == e.key[1] < f.key[1] \/ (e.key[1] = f.key[1] /\ e.key[2] < f.key[2])

\* key_values_witness is a BTreeMap.
InKeyOrder(S) ==
  CHOOSE list \in [1..Cardinality(S) -> S] :
    \A i, j \in DOMAIN list : i < j => KeyLess(list[i], list[j])

\* Faulty: the tokens are those after the batch.
TakeWitnessAfter(b, tokens) ==
  [hashes |-> b.hashes, entries |-> InKeyOrder(b.entries), tokens |-> b.tokens]

TakeWitness(b, tokens) ==
  [hashes |-> b.hashes, entries |-> InKeyOrder(b.entries), tokens |-> tokens]

\* What refinement has of a transition from the state s, if s loaded, to r.
Replayed(loads, s, r) ==
  [ok |-> loads /\ ~r.panicked, panicked |-> r.panicked,
   previous_root |-> RootOf(s), new_root |-> RootOf(r)]

\* State::from_witness and the transition in refinement, in a service built for
\* release.  (One built with overflow checks has no output where the builder's
\* would have panicked: see StateTransition.)
Replay(witness, batch) ==
  LET w == WitnessTree(witness.hashes, witness.entries)
      s == NewState(w.tree, witness.tokens)
  IN  Replayed(w.ok, s, TransitionOn(s, batch))

\* For the properties: does an operation come back to a leaf at which an earlier
\* one of the batch may have created the entry?
Touched(op) ==
  CASE op.type = "Mint" -> {<<op.token_id, op.to>>}
    [] op.type = "Transfer" -> {<<op.token_id, op.from>>, <<op.token_id, op.to>>}
    [] OTHER -> {}
Leaves(op) == {TreeIndexFromKey(k) : k \in Touched(op)}
RereadsFreshEntry(batch, tree) ==
  LET ops == OpsOf(batch) IN
  \E i, j \in DOMAIN ops : i < j /\
    \E ix \in Leaves(ops[i]) \cap Leaves(ops[j]) : tree.key_values[ix] = NoEntry

\* For the properties: the ledgers that operations lead through one by one, and
\* those that one of them may leave when it panics: a mint has made its token
\* known, a transfer may have been debited.
LedgerOp(s, op) ==
  CASE op.type = "Mint" -> ProcessMint(s, op)
    [] op.type = "Transfer" -> ProcessTransfer(s, op)
    [] OTHER -> s
LedgersOf(s, ops) ==
  LET ledger[i \in 0..Len(ops)] == IF i = 0 THEN s ELSE LedgerOp(ledger[i - 1], ops[i])
  IN  ledger
Debited(s, op) ==
  LET b == s.bal[op.token_id]
      rest == [b EXCEPT ![op.from] = b[op.from] - op.amount]
  IN  [known |-> s.known, bal |-> [s.bal EXCEPT ![op.token_id] = rest]]
Halfway(s, op) ==
  CASE op.type = "Mint" /\ ~MintRefused(s, op) ->
         {[known |-> s.known \cup {op.token_id}, bal |-> s.bal]}
    [] op.type = "Transfer" /\ ~TransferRefused(s, op) -> {s, Debited(s, op)}
    [] OTHER -> {s}

=============================================================================
