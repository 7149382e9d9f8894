----------------------------- MODULE MerkleTree -----------------------------
(***************************************************************************)
(* The balance tree of token-ledger-state-v2 (lib.rs, merkle.rs): a binary *)
(* Merkle tree of fixed depth whose nodes are kept in one array, leaves    *)
(* first, and a table of the key and value stored at each leaf.            *)
(*                                                                         *)
(* BLAKE2 (external) is taken to be injective: a hash is the record of     *)
(* what was hashed.  KeyHash gives the 16 bits of a key's hash that        *)
(* tree_index_from_key looks at, TREE_DEPTH + 1 bits in a smaller tree.    *)
(***************************************************************************)
EXTENDS TokenOps, SequencesExt

CONSTANTS TREE_DEPTH,  \* 15 in the code, where a TreeIndex has 16 bits
          MaskBit,     \* the bit tree_index_from_key clears, 8 in the code
          KeyHash      \* [Key -> TreeIndex]

Key == TokenIds \X Account

\* 1 << n
Pow2[n \in 0..(TREE_DEPTH + 1)] == IF n = 0 THEN 1 ELSE 2 * Pow2[n - 1]

TREE_SIZE == Pow2[TREE_DEPTH]
TREE_HASHES == TREE_SIZE * 2 - 1
TreeIndex == 0..(TREE_SIZE * 2 - 1)

ASSUME MerkleTreeAssumption ==
  /\ TREE_DEPTH \in Nat \ {0}
  /\ MaskBit \in 0..TREE_DEPTH
  /\ KeyHash \in [Key -> TreeIndex]

-----------------------------------------------------------------------------
EMPTY_HASH == [empty |-> TRUE]

HashPair(l, r) ==
  IF l = EMPTY_HASH /\ r = EMPTY_HASH THEN EMPTY_HASH ELSE [left |-> l, right |-> r]

\* Faulty: the value is left out of the leaf's hash.
LeafHashOfKey(k, v) == [key |-> k]

LeafHash(k, v) == [key |-> k, value |-> v]

\* merkle_value of KnownTokens: the ids in the order they were pushed.
TokensHash(tokens) == IF tokens = <<>> THEN EMPTY_HASH ELSE [tokens |-> tokens]

\* `[hash[0], hash[1] & (255 << 1)]` read as a little-endian u16.
TreeIndexFromKey(k) ==
  IF (KeyHash[k] \div Pow2[MaskBit]) % 2 = 1 THEN KeyHash[k] - Pow2[MaskBit] ELSE KeyHash[k]

-----------------------------------------------------------------------------
(* The path from a leaf to the root: `offset` and `at` after so many       *)
(* rounds of the loop, in insert and in record_witness_access.             *)

Offset[depth \in 0..TREE_DEPTH] ==
  IF depth = 0 THEN 0 ELSE Offset[depth - 1] + Pow2[TREE_DEPTH - (depth - 1)]

PathAt(ix) ==
  LET at[depth \in 0..TREE_DEPTH] == IF depth = 0 THEN ix ELSE at[depth - 1] \div 2 IN at

Slot(ix, depth) == Offset[depth] + PathAt(ix)[depth]

\* The other child of the node above.
Sibling(ix, depth) ==
  IF PathAt(ix)[depth] % 2 = 0 THEN Slot(ix, depth) + 1 ELSE Slot(ix, depth) - 1

\* One node up: its hash, from those of its children, is written.
Climb(c, ix, depth) ==
  LET sibling == c.hashes[Sibling(ix, depth - 1)]
      hash == IF PathAt(ix)[depth - 1] % 2 = 0 THEN HashPair(c.hash, sibling)
                                           ELSE HashPair(sibling, c.hash)
  IN  [hashes |-> [c.hashes EXCEPT ![Slot(ix, depth)] = hash], hash |-> hash]

\* MerkleTree::insert: write the leaf's hash and those of the nodes above it.
Insert(hashes, ix, value_hash) ==
  LET climb[depth \in 0..TREE_DEPTH] ==
        IF depth = 0
        THEN [hashes |-> [hashes EXCEPT ![Slot(ix, 0)] = value_hash], hash |-> value_hash]
        ELSE Climb(climb[depth - 1], ix, depth)
  IN  climb[TREE_DEPTH].hashes

\* Faulty: the node below the root is left out.
SiblingsBelowTop(ix) == {Sibling(ix, depth) : depth \in 0..(TREE_DEPTH - 2)}

\* What record_witness_access visits.
Siblings(ix) == {Sibling(ix, depth) : depth \in 0..(TREE_DEPTH - 1)}

-----------------------------------------------------------------------------
(* StateTree: the hashes and, per leaf index, the key and value stored. *)

NoEntry == [none |-> TRUE]
EmptyTree ==
  [hashes |-> [i \in TreeIndex |-> EMPTY_HASH], key_values |-> [i \in TreeIndex |-> NoEntry]]

RootIndex == TREE_HASHES - 1
Root(tree) == tree.hashes[RootIndex]

Stored(tree, k) ==
  LET e == tree.key_values[TreeIndexFromKey(k)] IN e # NoEntry /\ e.key = k

\* get(k).unwrap_or(0)
Get(tree, k) ==
  IF Stored(tree, k) THEN tree.key_values[TreeIndexFromKey(k)].value ELSE 0

\* Another key at the same leaf: set returns false and changes nothing.
Collides(tree, k) ==
  LET e == tree.key_values[TreeIndexFromKey(k)] IN e # NoEntry /\ e.key # k

\* Faulty: a balance that is overwritten keeps its hash.
SetOnce(tree, k, v) ==
  LET ix == TreeIndexFromKey(k) IN
  IF Collides(tree, k) THEN tree
  ELSE [hashes |-> IF Stored(tree, k) THEN tree.hashes
                   ELSE Insert(tree.hashes, ix, LeafHash(k, v)),
        key_values |-> [tree.key_values EXCEPT ![ix] = [key |-> k, value |-> v]]]

Set(tree, k, v) ==
  LET ix == TreeIndexFromKey(k) IN
  IF Collides(tree, k) THEN tree
  ELSE [hashes |-> Insert(tree.hashes, ix, LeafHash(k, v)),
        key_values |-> [tree.key_values EXCEPT ![ix] = [key |-> k, value |-> v]]]

SetEntry(tree, e) == IF e = NoEntry THEN tree ELSE Set(tree, e.key, e.value)

\* The trees that setting a list of entries one by one goes through.
SetEach(tree, entries) ==
  LET after[n \in 0..Len(entries)] ==
        IF n = 0 THEN tree ELSE SetEntry(after[n - 1], entries[n])
  IN  after

StateRoot(tree, tokens) == HashPair(Root(tree), TokensHash(tokens))

\* StateTree::init_from_witness: the hashes, then every key and value, none of
\* which may change the root the hashes gave.
WitnessTree(hashes, entries) ==
  LET base == [EmptyTree EXCEPT !.hashes = hashes]
      after == SetEach(base, entries)
  IN  [ok |-> \A n \in 0..Len(entries) : Root(after[n]) = Root(base),
       tree |-> after[Len(entries)]]

-----------------------------------------------------------------------------
(* For the properties. *)

EntryHash(e) == IF e = NoEntry THEN EMPTY_HASH ELSE LeafHash(e.key, e.value)

\* Every leaf has the hash of its entry and every node above that of its
\* children: node i at a depth is at Offset[depth] + i.
Matches(hashes, key_values) ==
  /\ \A i \in 0..(TREE_SIZE - 1) : hashes[i] = EntryHash(key_values[i])
  /\ \A d \in 1..TREE_DEPTH : \A i \in 0..(Pow2[TREE_DEPTH - d] - 1) :
       hashes[Offset[d] + i] =
         HashPair(hashes[Offset[d - 1] + 2 * i], hashes[Offset[d - 1] + (2 * i + 1)])

=============================================================================
