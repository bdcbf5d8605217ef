------------------------------ MODULE Patricia ------------------------------
(***************************************************************************)
(* protocol/patricia: the radix tree that holds the IDs of the unspent     *)
(* outputs and whose root hash is the commitment in a block header.  Nodes *)
(* are never changed once they are in a tree, except for their memoised    *)
(* hash.  Hashes are modelled by what is hashed; a byte has ByteBits bits. *)
(***************************************************************************)
EXTENDS Integers, Sequences, SequencesExt, FiniteSets

CONSTANTS Items,     \* the items that may be inserted or deleted
          ByteBits,  \* 8
          Nil,       \* no node, no hash
          Panic      \* the outcome of a nil dereference or an index out of range

VARIABLES root,      \* the tree
          items,     \* the set it stands for
          panicked

patriciaVars == <<root, items, panicked>>

Leaf(key) == [key |-> key, hash |-> <<0, key>>, isLeaf |-> TRUE, children |-> <<>>]
Branch(key, left, right) == [key |-> key, hash |-> Nil, isLeaf |-> FALSE, children |-> <<left, right>>]
Child(n, bit) == n.children[bit + 1]

\* The most significant bit of every byte comes first.
bitKey(bytes) ==
  [i \in 1 .. ByteBits * Len(bytes) |->
     (bytes[(i - 1) \div ByteBits + 1] \div 2^(ByteBits - 1 - ((i - 1) % ByteBits))) % 2]
byteKey(key) ==
  [i \in 1 .. Len(key) \div ByteBits |->
     FoldSeq(LAMBDA b, v : v + b, 0,
             [j \in 1 .. ByteBits |-> key[(i - 1) * ByteBits + j] * 2^(ByteBits - j)])]
commonPrefixLen(a, b) ==
  Cardinality({n \in 1 .. Len(a) : n <= Len(b) /\ SubSeq(a, 1, n) = SubSeq(b, 1, n)})
-----------------------------------------------------------------------------
RECURSIVE lookup(_, _)
lookup(n, key) ==
  IF n.key = key THEN (IF n.isLeaf THEN n ELSE Nil)
  ELSE IF ~IsPrefix(n.key, key) THEN Nil
  ELSE IF n.isLeaf THEN Panic
  ELSE lookup(Child(n, key[Len(n.key) + 1]), key)
TreeContains(item) ==
  IF root = Nil THEN FALSE
  ELSE LET n == lookup(root, bitKey(item))
       IN IF n = Panic THEN Panic ELSE n # Nil /\ n.hash = <<0, bitKey(item)>>

\* insert returns Panic, or the node and whether it succeeded.
Inserted(n) == [node |-> n, ok |-> TRUE]
Refused(n) == [node |-> n, ok |-> FALSE]
Split(n, key) ==
  LET common == commonPrefixLen(n.key, key)
      prefix == SubSeq(key, 1, common)
  IN IF common = Len(key) THEN Panic
     ELSE IF key[common + 1] = 0 THEN Inserted(Branch(prefix, Leaf(key), n))
     ELSE Inserted(Branch(prefix, n, Leaf(key)))
RECURSIVE insert(_, _)

\* Mutant: the memoised hash of a node on the path is kept.
insertKeepsHash(n, key) ==
  IF n.key = key THEN (IF n.isLeaf THEN Inserted(Leaf(key)) ELSE Refused(n))
  ELSE IF ~IsPrefix(n.key, key) THEN Split(n, key)
  ELSE IF n.isLeaf THEN Refused(n)
  ELSE LET bit == key[Len(n.key) + 1]
           r == insert(Child(n, bit), key)
       IN IF r = Panic THEN Panic
          ELSE IF ~r.ok THEN Refused(n)
          ELSE Inserted([n EXCEPT !.children[bit + 1] = r.node])
insert(n, key) ==
  IF n.key = key THEN (IF n.isLeaf THEN Inserted(Leaf(key)) ELSE Refused(n))
  ELSE IF ~IsPrefix(n.key, key) THEN Split(n, key)
  ELSE IF n.isLeaf THEN Refused(n)
  ELSE LET bit == key[Len(n.key) + 1]
           r == insert(Child(n, bit), key)
       IN IF r = Panic THEN Panic
          ELSE IF ~r.ok THEN Refused(n)
          ELSE Inserted([n EXCEPT !.children[bit + 1] = r.node, !.hash = Nil])

RECURSIVE delete(_, _)
delete(n, key) ==
  IF key = n.key THEN (IF n.isLeaf THEN Nil ELSE n)
  ELSE IF ~IsPrefix(n.key, key) THEN n
  ELSE IF n.isLeaf THEN Panic
  ELSE LET bit == key[Len(n.key) + 1]
           newChild == delete(Child(n, bit), key)
       IN IF newChild = Panic THEN Panic
          ELSE IF newChild = Nil THEN Child(n, 1 - bit)
          ELSE [n EXCEPT !.children[bit + 1] = newChild, !.hash = Nil]

\* Fills the memoised hashes.
RECURSIVE calcHash(_)
calcHash(n) ==
  IF n.hash # Nil THEN n
  ELSE LET l == calcHash(Child(n, 0))
           r == calcHash(Child(n, 1))
       IN [n EXCEPT !.hash = <<1, l.hash, r.hash>>, !.children = <<l, r>>]

RECURSIVE walk(_)
walk(n) == IF n.isLeaf THEN <<byteKey(n.key)>> ELSE walk(Child(n, 0)) \o walk(Child(n, 1))
Walk == IF root = Nil THEN <<>> ELSE walk(root)
-----------------------------------------------------------------------------
PatriciaInit == root = Nil /\ items = {} /\ panicked = FALSE

Insert(item) ==
  LET r == IF root = Nil THEN Inserted(Leaf(bitKey(item))) ELSE insert(root, bitKey(item))
  IN IF r = Panic THEN panicked' = TRUE /\ UNCHANGED <<root, items>>
     ELSE /\ root' = r.node
          /\ items' = IF r.ok THEN items \cup {item} ELSE items
          /\ UNCHANGED panicked
Delete(item) ==
  LET n == IF root = Nil THEN Nil ELSE delete(root, bitKey(item))
  IN IF n = Panic THEN panicked' = TRUE /\ UNCHANGED <<root, items>>
     ELSE root' = n /\ items' = items \ {item} /\ UNCHANGED panicked
RootHash ==
  /\ root' = IF root = Nil THEN Nil ELSE calcHash(root)
  /\ UNCHANGED <<items, panicked>>

PatriciaNext ==
  /\ ~panicked
  /\ RootHash \/ \E item \in Items : Insert(item) \/ Delete(item)
PatriciaSpec == PatriciaInit /\ [][PatriciaNext]_patriciaVars
-----------------------------------------------------------------------------
\* The hash the protocol defines for a set of keys with a common prefix of
\* length n.
RECURSIVE SetHash(_, _)
SetHash(keys, n) ==
  LET zero == {k \in keys : k[n + 1] = 0}
  IN IF Cardinality(keys) = 1 THEN <<0, CHOOSE k \in keys : TRUE>>
     ELSE IF zero = {} \/ zero = keys THEN SetHash(keys, n + 1)
     ELSE <<1, SetHash(zero, n + 1), SetHash(keys \ zero, n + 1)>>

\* The root hash depends only on the set, whatever the order of insertions and
\* deletions and whichever hashes were memoised on the way (insert, delete, calcHash).
HashIsOfSet ==
  IF items = {} THEN root = Nil
  ELSE root # Nil /\ calcHash(root).hash = SetHash({bitKey(i) : i \in items}, 0)

\* Lookups and walks see exactly the items inserted and not deleted, the items are
\* prefix-free, and a lookup panics exactly for an extension of an item that is in
\* the tree, which IDs of one length never are (Contains, Walk, Insert, Delete).
TreeIsSet ==
  LET Extends(i, j) == i # j /\ IsPrefix(j, i)
  IN /\ \A item \in Items :
          TreeContains(item) = IF \E i \in items : Extends(item, i) THEN Panic ELSE item \in items
     /\ ToSet(Walk) = items /\ Len(Walk) = Cardinality(items)
     /\ \A i, j \in items : ~Extends(i, j)
=============================================================================
