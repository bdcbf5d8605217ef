----------------------------- MODULE NodeProofs -----------------------------
(***************************************************************************)
(* What a node keeps in its tables and its memory, proved for every value  *)
(* of the constants: the stored blocks form one chain, and the pending     *)
(* row, the calls in progress and the memory have their places on it.      *)
(* First, what ApplyBlock and ReplayFrom compute, for every block and      *)
(* every chain of blocks: both are folds, written as recursive functions,  *)
(* and the lemmas give their first value and their step, by induction on   *)
(* the number of transactions or of blocks.                                *)
(***************************************************************************)
EXTENDS Node, Integers, TLAPS, WellFoundedInduction

\* Every set of naturals has a least member.
LEMMA NatMin == ASSUME NEW T, T \subseteq Nat, T # {} PROVE \E m \in T : \A k \in T : m <= k
<1> DEFINE R == OpToRel(<, Nat)
<1>1. IsWellFoundedOn(R, Nat)
  BY NatLessThanWellFounded, Zenon
<1>2. \A x, y \in Nat : <<x, y>> \in R <=> x < y
  BY Zenon DEF OpToRel
<1> HIDE DEF R
<1>3. PICK x \in T : \A y \in T : ~ (<<y, x>> \in R)
  BY <1>1, WFMin, Zenon
<1>4. \A y \in T : ~(y < x)
  BY <1>2, <1>3, Zenon
<1> QED BY <1>4

\* Induction on the naturals, for a set instead of a predicate.
LEMMA Induct == ASSUME NEW S, 0 \in S, \A n \in Nat : n \in S => n + 1 \in S PROVE \A n \in Nat : n \in S
<1> DEFINE T == Nat \ S
<1> SUFFICES ASSUME T # {} PROVE FALSE BY Zenon
<1>1. PICK m \in T : \A k \in T : m <= k
  <2>1. T \subseteq Nat BY Zenon
  <2> HIDE DEF T
  <2> QED BY <2>1, NatMin, Zenon
<1>2. m # 0 /\ m - 1 \in Nat /\ m - 1 \in S
  BY <1>1
<1> QED BY <1>1, <1>2

-----------------------------------------------------------------------------
(* Validating and applying a block: the fold over its transactions.       *)

Pruned(s, ts) == [ok |-> TRUE, snap |-> PruneNonces(s, ts)]

ApplyStep(r, tx) ==
  IF r.ok /\ CanApply(r.snap, tx) THEN [ok |-> TRUE, snap |-> Applied(r.snap, tx)]
  ELSE [r EXCEPT !.ok = FALSE]

\* g[i] is what ApplyBlock has after the first i transactions.
AfterTo(g, s, ts, txs, n) ==
  g = [i \in 0 .. n |-> IF i = 0 THEN Pruned(s, ts)
                        ELSE ApplyStep(g[i - 1], txs[i])]

After(s, ts, txs) == CHOOSE g : AfterTo(g, s, ts, txs, Len(txs))

ApplyTxs(s, ts, txs) == After(s, ts, txs)[Len(txs)]

\* ApplyBlock prunes the nonces and folds ApplyTx over the transactions.
LEMMA ApplyBlockIs == ASSUME NEW s, NEW b PROVE ApplyBlock(s, b) = ApplyTxs(s, b.ts, b.txs)
BY Zenon DEF ApplyBlock, ApplyTxs, After, AfterTo, ApplyStep, Pruned

\* The recursive function in ApplyBlock exists.
LEMMA AfterExists ==
  ASSUME NEW s, NEW ts, NEW txs
  PROVE  \A n \in Nat : \E g : AfterTo(g, s, ts, txs, n)
<1> DEFINE S == {n \in Nat : \E g : AfterTo(g, s, ts, txs, n)}
<1>1. 0 \in S
  <2> DEFINE g == [i \in 0 .. 0 |-> Pruned(s, ts)]
  <2>1. AfterTo(g, s, ts, txs, 0)
    BY DEF AfterTo
  <2> QED BY <2>1, Zenon
<1>2. ASSUME NEW n \in Nat, n \in S PROVE n + 1 \in S
  <2>1. PICK g : AfterTo(g, s, ts, txs, n)
    BY <1>2, Zenon
  <2> DEFINE h == [i \in 0 .. (n + 1) |-> IF i <= n THEN g[i] ELSE ApplyStep(g[n], txs[n + 1])]
  <2>2. \A i \in 0 .. (n + 1) : h[i] = IF i <= n THEN g[i] ELSE ApplyStep(g[n], txs[n + 1])
    BY Zenon
  <2>3. \A i \in 0 .. n : g[i] = IF i = 0 THEN Pruned(s, ts)
                                 ELSE ApplyStep(g[i - 1], txs[i])
    BY <2>1, Zenon DEF AfterTo
  <2>4. ASSUME NEW i \in 0 .. (n + 1)
        PROVE  h[i] = IF i = 0 THEN Pruned(s, ts)
                      ELSE ApplyStep(h[i - 1], txs[i])
    <3>1. CASE i = 0
      BY <3>1, <2>2, <2>3
    <3>2. CASE i \in 1 .. n
      <4>1. i - 1 \in 0 .. n /\ i - 1 \in 0 .. (n + 1) /\ h[i] = g[i] /\ h[i - 1] = g[i - 1]
        BY <3>2, <2>2
      <4> QED BY <4>1, <3>2, <2>3
    <3>3. CASE i = n + 1
      <4>1. i - 1 = n /\ n \in 0 .. (n + 1) /\ i # 0
        BY <3>3
      <4>2. h[n] = g[n] /\ h[i] = ApplyStep(g[n], txs[n + 1])
        BY <3>3, <2>2
      <4> QED BY <4>1, <4>2, <3>3, Zenon
    <3> QED BY <3>1, <3>2, <3>3
  <2>5. AfterTo(h, s, ts, txs, n + 1)
    <3>1. h = [i \in 0 .. (n + 1) |-> h[i]]
      BY Zenon
    <3> HIDE DEF h
    <3> QED BY <2>4, <3>1, Zenon DEF AfterTo
  <2> QED BY <2>5
<1>3. \A n \in Nat : n \in S
  <2> HIDE DEF S
  <2> QED BY <1>1, <1>2, Induct, Zenon
<1> QED BY <1>3, Zenon

\* ApplyBlock on no transactions, and on one more.
LEMMA ApplyNone ==
  ASSUME NEW s, NEW ts
  PROVE  ApplyTxs(s, ts, <<>>) = Pruned(s, ts)
<1>1. AfterTo(After(s, ts, <<>>), s, ts, <<>>, 0)
  BY AfterExists, Zenon DEF After
<1> QED BY <1>1 DEF AfterTo, ApplyTxs

LEMMA ApplyMore ==
  ASSUME NEW s, NEW ts, NEW txs \in Seq(Tx), NEW tx \in Tx
  PROVE  ApplyTxs(s, ts, Append(txs, tx)) = ApplyStep(ApplyTxs(s, ts, txs), tx)
<1> DEFINE more == Append(txs, tx)
           n == Len(txs)
           g == After(s, ts, txs)
           h == After(s, ts, more)
<1>1. n \in Nat /\ Len(more) = n + 1 /\ more[n + 1] = tx /\ \A i \in 1 .. n : txs[i] = more[i]
  OBVIOUS
<1> HIDE DEF more, n
<1>2. AfterTo(g, s, ts, txs, n) /\ AfterTo(h, s, ts, more, n + 1)
  <2>0. n \in Nat /\ n + 1 \in Nat
    BY <1>1
  <2>1. (\E f : AfterTo(f, s, ts, txs, n)) /\ (\E f : AfterTo(f, s, ts, more, n + 1))
    BY <2>0, AfterExists, Zenon
  <2>2. g = (CHOOSE f : AfterTo(f, s, ts, txs, n)) /\ h = (CHOOSE f : AfterTo(f, s, ts, more, n + 1))
    BY <1>1, Zenon DEF After, n
  <2> HIDE DEF g, h
  <2> QED BY <2>1, <2>2, Zenon
<1> HIDE DEF g, h
<1>3. /\ \A i \in 0 .. n : g[i] = IF i = 0 THEN Pruned(s, ts) ELSE ApplyStep(g[i - 1], txs[i])
      /\ \A i \in 0 .. (n + 1) : h[i] = IF i = 0 THEN Pruned(s, ts) ELSE ApplyStep(h[i - 1], more[i])
  BY <1>2, Zenon DEF AfterTo
<1>4. g[n] = h[n]
  <2> DEFINE S == {i \in Nat : i <= n => g[i] = h[i]}
  <2>1. 0 \in S
    BY <1>1, <1>3
  <2>2. ASSUME NEW i \in Nat, i \in S PROVE i + 1 \in S
    <3> SUFFICES ASSUME i + 1 <= n PROVE g[i + 1] = h[i + 1]
      OBVIOUS
    <3>1. /\ i + 1 \in 0 .. n /\ i + 1 \in 0 .. (n + 1) /\ i + 1 \in 1 .. n
          /\ i + 1 # 0 /\ (i + 1) - 1 = i /\ i <= n
      BY <1>1
    <3>2. g[i] = h[i]
      BY <2>2, <3>1, Zenon
    <3>3. g[i + 1] = ApplyStep(g[i], txs[i + 1]) /\ h[i + 1] = ApplyStep(h[i], more[i + 1])
      BY <1>3, <3>1, Zenon
    <3> QED BY <1>1, <3>1, <3>2, <3>3, Zenon
  <2>3. \A i \in Nat : i \in S
    <3> HIDE DEF S
    <3> QED BY <2>1, <2>2, Induct, Zenon
  <2> QED BY <1>1, <2>3
<1>5. h[n + 1] = ApplyStep(h[n], tx)
  BY <1>1, <1>3
<1> QED BY <1>1, <1>4, <1>5, Zenon DEF ApplyTxs, g, h, n, more

-----------------------------------------------------------------------------
(* Types, and the hash.                                                    *)

\* The hash of a block.
LEMMA HashType == ASSUME NEW b \in Block PROVE Hash(b) \in Seq(Header)
BY DEF Block, Hash, Header

\* A hash names one block.
LEMMA HashInjective == ASSUME NEW b \in Block, NEW c \in Block, Hash(b) = Hash(c) PROVE b = c
<1> DEFINE hb == [height |-> b.height, ts |-> b.ts, txs |-> b.txs, root |-> b.root]
           hc == [height |-> c.height, ts |-> c.ts, txs |-> c.txs, root |-> c.root]
<1>1. b.prev \in Seq(Header) /\ c.prev \in Seq(Header) /\ hb \in Header /\ hc \in Header
  BY Zenon DEF Block, Header
<1>2. Append(b.prev, hb) = Append(c.prev, hc)
  BY Zenon DEF Hash
<1>3. b.prev = c.prev /\ hb = hc
  <2> HIDE DEF hb, hc
  <2> DEFINE u == Append(b.prev, hb)
             v == Append(c.prev, hc)
  <2>1. Len(u) = Len(b.prev) + 1 /\ Len(v) = Len(c.prev) + 1
    BY <1>1
  <2>2. Len(b.prev) = Len(c.prev)
    BY <1>1, <1>2, <2>1
  <2>3. u[Len(b.prev) + 1] = hb /\ v[Len(c.prev) + 1] = hc
    BY <1>1
  <2>4. \A i \in 1 .. Len(b.prev) : u[i] = b.prev[i] /\ v[i] = c.prev[i]
    BY <1>1, <2>2
  <2>5. b.prev = c.prev
    BY <1>1, <1>2, <2>2, <2>4
  <2> QED BY <1>2, <2>2, <2>3, <2>5, Zenon
<1>4. b.height = c.height /\ b.ts = c.ts /\ b.txs = c.txs /\ b.root = c.root
  BY <1>3, Zenon
<1> QED BY <1>3, <1>4 DEF Block

\* The blocks that the node makes are blocks.
LEMMA InitialBlockType == ASSUME NEW ts \in Nat PROVE InitialBlock(ts) \in Block
BY DEF InitialBlock, Block

LEMMA EmptyBlockType ==
  ASSUME NEW b \in Block, NEW ts \in Nat PROVE EmptyBlock(b, ts) \in Block
BY HashType DEF EmptyBlock, Block

\* Pruning and applying keep a snapshot a snapshot.
LEMMA PrunedType ==
  ASSUME NEW s \in SnapshotType, NEW ts
  PROVE  PruneNonces(s, ts) \in SnapshotType /\ PruneNonces(s, ts).tree = s.tree
BY Zenon DEF PruneNonces, SnapshotType

LEMMA AppliedType ==
  ASSUME NEW s \in SnapshotType, NEW tx \in Tx
  PROVE  Applied(s, tx) \in SnapshotType /\ FailedApply(s, tx) \subseteq SnapshotType
BY TxAssumption DEF Applied, FailedApply, SnapshotType, Transaction

Result == [ok : BOOLEAN, snap : SnapshotType]

\* So do the steps of the fold, and the fold.
LEMMA FailedType == ASSUME NEW r \in Result PROVE [r EXCEPT !.ok = FALSE] \in Result
<1>1. ASSUME NEW v \in BOOLEAN PROVE [r EXCEPT !.ok = v] \in Result
  BY Zenon DEF Result
<1>2. FALSE \in BOOLEAN
  BY Zenon
<1> QED BY <1>1, <1>2, Zenon

LEMMA ApplyStepType ==
  ASSUME NEW r \in Result, NEW tx \in Tx PROVE ApplyStep(r, tx) \in Result
<1>1. CASE r.ok /\ CanApply(r.snap, tx)
  <2>1. Applied(r.snap, tx) \in SnapshotType
    BY AppliedType, Zenon DEF Result
  <2> QED BY <1>1, <2>1, Zenon DEF ApplyStep, Result
<1>2. CASE ~(r.ok /\ CanApply(r.snap, tx))
  <2>1. ApplyStep(r, tx) = [r EXCEPT !.ok = FALSE]
    BY <1>2, Zenon DEF ApplyStep
  <2> QED BY <2>1, FailedType, Zenon
<1> QED BY <1>1, <1>2, Zenon

LEMMA ApplyType ==
  ASSUME NEW s \in SnapshotType, NEW b \in Block
  PROVE  ApplyBlock(s, b) \in Result
<1> DEFINE txs == b.txs
           n == Len(txs)
           g == After(s, b.ts, txs)
<1>1. n \in Nat /\ \A i \in 1 .. n : txs[i] \in Tx
  BY DEF Block
<1>2. AfterTo(g, s, b.ts, txs, n)
  <2>1. \E f : AfterTo(f, s, b.ts, txs, n)
    BY <1>1, AfterExists, Zenon
  <2>2. g = CHOOSE f : AfterTo(f, s, b.ts, txs, n)
    BY Zenon DEF After
  <2> HIDE DEF g
  <2> QED BY <2>1, <2>2, Zenon
<1>3. ApplyBlock(s, b) = g[n]
  BY ApplyBlockIs, Zenon DEF ApplyTxs
<1> HIDE DEF g, n, txs
<1>4. \A i \in 0 .. n : g[i] = IF i = 0 THEN Pruned(s, b.ts) ELSE ApplyStep(g[i - 1], txs[i])
  BY <1>2, Zenon DEF AfterTo
<1> DEFINE S == {i \in Nat : i <= n => g[i] \in Result}
<1>5. 0 \in S
  <2>1. g[0] = Pruned(s, b.ts)
    BY <1>1, <1>4
  <2>2. g[0] \in Result
    BY <2>1, PrunedType DEF Pruned, Result
  <2> QED BY <2>2, Zenon
<1>6. ASSUME NEW i \in Nat, i \in S PROVE i + 1 \in S
  <2> SUFFICES ASSUME i + 1 <= n PROVE g[i + 1] \in Result
    OBVIOUS
  <2>1. i + 1 \in 0 .. n /\ i + 1 \in 1 .. n /\ i + 1 # 0 /\ (i + 1) - 1 = i /\ g[i] \in Result
    BY <1>1, <1>6
  <2>2. g[i + 1] = ApplyStep(g[i], txs[i + 1])
    BY <1>4, <2>1, Zenon
  <2> QED BY <1>1, <2>1, <2>2, ApplyStepType, Zenon
<1>7. \A i \in Nat : i \in S
  <2> HIDE DEF S
  <2> QED BY <1>5, <1>6, Induct, Zenon
<1> QED BY <1>1, <1>3, <1>7

WithTx(b, tx) ==
  [height |-> b.height, prev |-> b.prev, ts |-> b.ts, txs |-> Append(b.txs, tx), root |-> b.root]

\* A block with one more transaction, and with its root.
LEMMA WithTxType ==
  ASSUME NEW b \in Block, NEW tx \in Tx
  PROVE  /\ WithTx(b, tx) \in Block /\ WithTx(b, tx).height = b.height
         /\ WithTx(b, tx).prev = b.prev /\ WithTx(b, tx).ts = b.ts
         /\ WithTx(b, tx).txs = Append(b.txs, tx) /\ WithTx(b, tx).root = b.root
         /\ [b EXCEPT !.txs = Append(@, tx)] = WithTx(b, tx)
<1>1. b.txs \in Seq(Tx)
  BY Zenon DEF Block
<1>2. Append(b.txs, tx) \in Seq(Tx)
  BY <1>1
<1>3. [b EXCEPT !.txs = Append(@, tx)] = WithTx(b, tx)
  <2>1. ASSUME NEW x
        PROVE  [b EXCEPT !.txs = x] =
                 [height |-> b.height, prev |-> b.prev, ts |-> b.ts, txs |-> x, root |-> b.root]
    BY DEF Block
  <2> QED BY <2>1, Zenon DEF WithTx
<1> QED BY <1>2, <1>3, Zenon DEF WithTx, Block

WithRoot(b, root) ==
  [height |-> b.height, prev |-> b.prev, ts |-> b.ts, txs |-> b.txs, root |-> root]

LEMMA WithRootType ==
  ASSUME NEW b \in Block, NEW root \in SUBSET Output
  PROVE  /\ WithRoot(b, root) \in Block /\ WithRoot(b, root).height = b.height
         /\ WithRoot(b, root).prev = b.prev /\ WithRoot(b, root).ts = b.ts
         /\ WithRoot(b, root).txs = b.txs /\ WithRoot(b, root).root = root
         /\ [b EXCEPT !.root = root] = WithRoot(b, root)
BY DEF WithRoot, Block

-----------------------------------------------------------------------------
(* Replaying stored blocks.                                                *)

Started(s) == [ok |-> TRUE, snap |-> s]

ReplayStep(bl, r, h) ==
  IF ~r.ok \/ h \notin DOMAIN bl
  THEN [r EXCEPT !.ok = FALSE]
  ELSE LET a == ApplyBlock(r.snap, bl[h])
       IN  [ok |-> a.ok /\ bl[h].root = a.snap.tree, snap |-> a.snap]

\* g[h] is what Recover's loop has after block h.
ReplayTo(g, bl, s, lo, hi) ==
  g = [h \in lo .. hi |-> IF h = lo THEN Started(s) ELSE ReplayStep(bl, g[h - 1], h)]

Replayed(bl, s, lo, hi) == CHOOSE g : ReplayTo(g, bl, s, lo, hi)

\* Recover's replay is a fold over the heights.
LEMMA ReplayFromIs ==
  ASSUME NEW bl, NEW s, NEW lo, NEW hi
  PROVE  ReplayFrom(bl, s, lo, hi) = Replayed(bl, s, lo, hi)[hi]
BY Zenon DEF ReplayFrom, Replayed, ReplayTo, ReplayStep, Started

\* The recursive function in ReplayFrom exists, and is what it says.
LEMMA ReplayExists ==
  ASSUME NEW bl, NEW s, NEW lo \in Nat
  PROVE  \A n \in Nat : \E g : ReplayTo(g, bl, s, lo, lo + n)
<1> DEFINE S == {n \in Nat : \E g : ReplayTo(g, bl, s, lo, lo + n)}
<1>1. 0 \in S
  <2> DEFINE g == [i \in lo .. lo |-> Started(s)]
  <2>1. ReplayTo(g, bl, s, lo, lo)
    BY DEF ReplayTo
  <2>2. lo + 0 = lo
    OBVIOUS
  <2> QED BY <2>1, <2>2, Zenon
<1>2. ASSUME NEW n \in Nat, n \in S PROVE n + 1 \in S
  <2> DEFINE m == lo + n
  <2>0. m \in Nat /\ lo <= m /\ lo + (n + 1) = m + 1
    OBVIOUS
  <2>1. PICK g : ReplayTo(g, bl, s, lo, m)
    BY <1>2, Zenon
  <2> HIDE DEF m
  <2> DEFINE h == [i \in lo .. (m + 1) |-> IF i <= m THEN g[i] ELSE ReplayStep(bl, g[m], m + 1)]
  <2>2. \A i \in lo .. (m + 1) : h[i] = IF i <= m THEN g[i] ELSE ReplayStep(bl, g[m], m + 1)
    BY Zenon
  <2>3. \A i \in lo .. m : g[i] = IF i = lo THEN Started(s) ELSE ReplayStep(bl, g[i - 1], i)
    BY <2>1, Zenon DEF ReplayTo
  <2>4. ASSUME NEW i \in lo .. (m + 1)
        PROVE  h[i] = IF i = lo THEN Started(s) ELSE ReplayStep(bl, h[i - 1], i)
    <3>1. CASE i = lo
      BY <3>1, <2>0, <2>2, <2>3
    <3>2. CASE i \in (lo + 1) .. m
      <4>1. i - 1 \in lo .. m /\ i - 1 \in lo .. (m + 1) /\ h[i] = g[i] /\ h[i - 1] = g[i - 1]
        BY <2>0, <3>2, <2>2
      <4> QED BY <4>1, <3>2, <2>3
    <3>3. CASE i = m + 1
      <4>1. i - 1 = m /\ m \in lo .. (m + 1) /\ i # lo
        BY <2>0, <3>3
      <4>2. h[m] = g[m] /\ h[i] = ReplayStep(bl, g[m], m + 1)
        BY <2>0, <3>3, <2>2
      <4> QED BY <4>1, <4>2, <3>3, Zenon
    <3> QED BY <2>0, <3>1, <3>2, <3>3
  <2>5. ReplayTo(h, bl, s, lo, m + 1)
    <3>1. h = [i \in lo .. (m + 1) |-> h[i]]
      BY Zenon
    <3> HIDE DEF h
    <3> QED BY <2>4, <3>1, Zenon DEF ReplayTo
  <2> QED BY <2>0, <2>5
<1>3. \A n \in Nat : n \in S
  <2> HIDE DEF S
  <2> QED BY <1>1, <1>2, Induct, Zenon
<1> QED BY <1>3, Zenon

LEMMA ReplayedIs ==
  ASSUME NEW bl, NEW s, NEW lo \in Nat, NEW hi \in Nat, lo <= hi
  PROVE  \A i \in lo .. hi : Replayed(bl, s, lo, hi)[i] =
           IF i = lo THEN Started(s) ELSE ReplayStep(bl, Replayed(bl, s, lo, hi)[i - 1], i)
<1> DEFINE g == Replayed(bl, s, lo, hi)
<1>1. \E f : ReplayTo(f, bl, s, lo, hi)
  <2>1. hi - lo \in Nat /\ lo + (hi - lo) = hi
    OBVIOUS
  <2>2. \E f : ReplayTo(f, bl, s, lo, lo + (hi - lo))
    BY <2>1, ReplayExists, Zenon
  <2> QED BY <2>1, <2>2, Zenon
<1>2. g = CHOOSE f : ReplayTo(f, bl, s, lo, hi)
  BY Zenon DEF Replayed
<1> HIDE DEF g
<1>3. ReplayTo(g, bl, s, lo, hi)
  BY <1>1, <1>2, Zenon
<1>4. \A i \in lo .. hi : g[i] = IF i = lo THEN Started(s) ELSE ReplayStep(bl, g[i - 1], i)
  BY <1>3, Zenon DEF ReplayTo
<1> QED BY <1>4, Zenon DEF g

\* Replaying no block, and one more.
LEMMA ReplayStart ==
  ASSUME NEW bl, NEW s, NEW lo \in Nat
  PROVE  ReplayFrom(bl, s, lo, lo) = Started(s)
<1>1. lo \in lo .. lo
  OBVIOUS
<1> QED BY <1>1, ReplayFromIs, ReplayedIs

LEMMA ReplayNext ==
  ASSUME NEW bl, NEW s, NEW lo \in Nat, NEW hi \in Nat, lo <= hi
  PROVE  ReplayFrom(bl, s, lo, hi + 1) = ReplayStep(bl, ReplayFrom(bl, s, lo, hi), hi + 1)
<1> DEFINE g == Replayed(bl, s, lo, hi)
           h == Replayed(bl, s, lo, hi + 1)
<1>1. /\ \A i \in lo .. hi : g[i] = IF i = lo THEN Started(s) ELSE ReplayStep(bl, g[i - 1], i)
      /\ \A i \in lo .. (hi + 1) : h[i] = IF i = lo THEN Started(s) ELSE ReplayStep(bl, h[i - 1], i)
  <2>1. hi + 1 \in Nat /\ lo <= hi + 1
    OBVIOUS
  <2> QED BY <2>1, ReplayedIs
<1>2. ReplayFrom(bl, s, lo, hi) = g[hi] /\ ReplayFrom(bl, s, lo, hi + 1) = h[hi + 1]
  BY ReplayFromIs, Zenon
<1> HIDE DEF g, h
<1> DEFINE S == {n \in Nat : lo + n <= hi => g[lo + n] = h[lo + n]}
<1>3. 0 \in S
  <2>1. lo + 0 = lo /\ lo \in lo .. hi /\ lo \in lo .. (hi + 1)
    OBVIOUS
  <2>2. g[lo] = h[lo]
    BY <1>1, <2>1, Zenon
  <2> QED BY <2>1, <2>2, Zenon
<1>4. ASSUME NEW n \in Nat, n \in S PROVE n + 1 \in S
  <2> SUFFICES ASSUME lo + (n + 1) <= hi PROVE g[lo + (n + 1)] = h[lo + (n + 1)]
    OBVIOUS
  <2> DEFINE i == lo + (n + 1)
  <2>1. i \in lo .. hi /\ i \in lo .. (hi + 1) /\ i # lo /\ i - 1 = lo + n /\ lo + n <= hi
    OBVIOUS
  <2>2. g[i - 1] = h[i - 1]
    BY <1>4, <2>1, Zenon
  <2> HIDE DEF i
  <2>3. g[i] = h[i]
    BY <1>1, <2>1, <2>2, Zenon
  <2> QED BY <2>3, Zenon DEF i
<1>5. \A n \in Nat : n \in S
  <2> HIDE DEF S
  <2> QED BY <1>3, <1>4, Induct, Zenon
<1>6. g[hi] = h[hi]
  <2>1. hi - lo \in Nat /\ lo + (hi - lo) = hi
    OBVIOUS
  <2>2. hi - lo \in S
    BY <1>5, <2>1, Zenon
  <2> QED BY <2>1, <2>2
<1>7. hi + 1 \in lo .. (hi + 1) /\ hi + 1 # lo /\ (hi + 1) - 1 = hi
  OBVIOUS
<1> QED BY <1>1, <1>2, <1>6, <1>7, Zenon

\* A replay of blocks gives a snapshot.
LEMMA ReplayType ==
  ASSUME NEW bl, NEW s \in SnapshotType, NEW lo \in Nat, NEW hi \in Nat, lo <= hi,
         \A h \in DOMAIN bl : bl[h] \in Block
  PROVE  ReplayFrom(bl, s, lo, hi) \in Result
<1> DEFINE S == {n \in Nat : ReplayFrom(bl, s, lo, lo + n) \in Result}
<1>1. 0 \in S
  <2>1. lo + 0 = lo /\ Started(s) \in Result
    BY DEF Started, Result
  <2> QED BY <2>1, ReplayStart, Zenon
<1>2. ASSUME NEW n \in Nat, n \in S PROVE n + 1 \in S
  <2> DEFINE r == ReplayFrom(bl, s, lo, lo + n)
             h == (lo + n) + 1
  <2>1. lo + (n + 1) = h /\ lo + n \in Nat /\ lo <= lo + n
    OBVIOUS
  <2>2. ReplayFrom(bl, s, lo, h) = ReplayStep(bl, r, h)
    BY <2>1, ReplayNext, Zenon
  <2>3. r \in Result
    BY <1>2, Zenon
  <2> HIDE DEF r, h
  <2>4. ReplayStep(bl, r, h) \in Result
    <3>1. CASE ~r.ok \/ h \notin DOMAIN bl
      <4>1. ReplayStep(bl, r, h) = [r EXCEPT !.ok = FALSE]
        BY <3>1, Zenon DEF ReplayStep
      <4> QED BY <2>3, <4>1, FailedType, Zenon
    <3>2. CASE ~(~r.ok \/ h \notin DOMAIN bl)
      <4> DEFINE a == ApplyBlock(r.snap, bl[h])
      <4>1. a \in Result
        BY <2>3, <3>2, ApplyType, Zenon DEF Result
      <4>2. ReplayStep(bl, r, h) = [ok |-> a.ok /\ bl[h].root = a.snap.tree, snap |-> a.snap]
        BY <3>2, Zenon DEF ReplayStep
      <4> HIDE DEF a
      <4> QED BY <4>1, <4>2 DEF Result
    <3> QED BY <3>1, <3>2, Zenon
  <2> QED BY <2>1, <2>2, <2>4
<1>3. \A n \in Nat : n \in S
  <2> HIDE DEF S
  <2> QED BY <1>1, <1>2, Induct, Zenon
<1>4. hi - lo \in Nat /\ lo + (hi - lo) = hi
  OBVIOUS
<1>5. hi - lo \in S
  BY <1>3, <1>4, Zenon
<1> QED BY <1>4, <1>5, Zenon

-----------------------------------------------------------------------------
(* What GenerateBlock does to a block, seen from ApplyBlock.               *)

\* A block without transactions only prunes nonces.
LEMMA ApplyEmptyBlock ==
  ASSUME NEW s, NEW b, b.txs = <<>>
  PROVE  ApplyBlock(s, b) = Started(PruneNonces(s, b.ts))
BY ApplyBlockIs, ApplyNone, Zenon DEF Pruned, Started

\* The initial block does nothing, and has the root of the empty tree.
LEMMA ApplyInitial ==
  ASSUME NEW b, b = InitialBlock(b.ts)
  PROVE  ApplyBlock(Empty, b) = Started(Empty) /\ b.root = Empty.tree
<1>1. b.txs = <<>> /\ b.root = {}
  BY DEF InitialBlock
<1>2. PruneNonces(Empty, b.ts) = Empty
  BY DEF PruneNonces, Empty
<1> QED BY <1>1, <1>2, ApplyEmptyBlock, Zenon DEF Empty

\* What GenerateBlock adds to its block it adds to its snapshot.
LEMMA ApplyWithTx ==
  ASSUME NEW s, NEW b \in Block, NEW tx \in Tx, NEW t,
         ApplyBlock(s, b) = Started(t), CanApply(t, tx)
  PROVE  ApplyBlock(s, WithTx(b, tx)) = Started(Applied(t, tx))
<1>1. b.txs \in Seq(Tx)
  BY Zenon DEF Block
<1>2. ApplyBlock(s, WithTx(b, tx)) = ApplyStep(ApplyBlock(s, b), tx)
  <2> DEFINE c == WithTx(b, tx)
  <2>1. c.ts = b.ts /\ c.txs = Append(b.txs, tx)
    BY WithTxType, Zenon
  <2> HIDE DEF c
  <2>2. ApplyBlock(s, c) = ApplyTxs(s, b.ts, Append(b.txs, tx)) /\ ApplyBlock(s, b) = ApplyTxs(s, b.ts, b.txs)
    BY <2>1, ApplyBlockIs, Zenon
  <2>3. ApplyTxs(s, b.ts, Append(b.txs, tx)) = ApplyStep(ApplyTxs(s, b.ts, b.txs), tx)
    BY <1>1, ApplyMore, Zenon
  <2> QED BY <2>2, <2>3, Zenon DEF c
<1> QED BY <1>2 DEF ApplyStep, Started

\* The root that GenerateBlock fills in last is not looked at.
LEMMA ApplyWithRoot ==
  ASSUME NEW s, NEW b \in Block, NEW root \in SUBSET Output
  PROVE  ApplyBlock(s, WithRoot(b, root)) = ApplyBlock(s, b)
BY ApplyBlockIs, WithRootType, Zenon

\* The transactions whose ApplyTx takes effect whole or not at all.
SingleSource ==
  \A tx \in Tx : /\ tx.nonces = {} \/ tx.spent = {}
                 /\ \A x, y \in tx.nonces \cup tx.spent : x = y

\* An ApplyTx that fails on the only prevout or nonce there is changes nothing.
LEMMA FailedChangesNothing ==
  ASSUME SingleSource, NEW s \in SnapshotType, NEW tx \in Tx, ~CanApply(s, tx),
         NEW t \in FailedApply(s, tx)
  PROVE  t = s
<1>1. tx \in Transaction
  BY TxAssumption, Zenon
<1>2. CASE tx.nonces \cap s.nonces # {}
  <2>1. tx.nonces \ s.nonces = {}
    BY <1>2 DEF SingleSource
  <2> QED BY <1>2, <2>1, Zenon DEF FailedApply, SnapshotType
<1>3. CASE tx.nonces \cap s.nonces = {}
  <2>1. tx.spent \cap s.tree = {} /\ tx.nonces = {}
    BY <1>3 DEF SingleSource, CanApply
  <2>2. PICK P \in SUBSET (tx.spent \cap s.tree) :
          t = [tree |-> s.tree \ P, nonces |-> s.nonces \cup tx.nonces]
    BY <1>3, Zenon DEF FailedApply
  <2>3. s.tree \ P = s.tree /\ s.nonces \cup tx.nonces = s.nonces
    BY <2>1, <2>2, Zenon
  <2> QED BY <2>2, <2>3, Zenon DEF SnapshotType
<1> QED BY <1>2, <1>3, Zenon

-----------------------------------------------------------------------------

\* StoreHeight and SnapshotHeight are maxima; these have one.
LEMMA MaxUpTo == ASSUME NEW n \in Nat PROVE Max((1 .. n) \cup {0}) = n
<1>1. n \in (1 .. n) \cup {0} /\ \A y \in (1 .. n) \cup {0} : y <= n
  OBVIOUS
<1>2. \A x \in (1 .. n) \cup {0} : n <= x => x = n
  OBVIOUS
<1> QED BY <1>1, <1>2, Zenon DEF Max

LEMMA MaxTwo ==
  ASSUME NEW a \in Nat, NEW b \in Nat
  PROVE  Max({a, b}) \in {a, b} /\ Max({a, b}) >= a /\ Max({a, b}) >= b
<1>1. \E x \in {a, b} : \A y \in {a, b} : y <= x
  OBVIOUS
<1> QED BY <1>1, Zenon DEF Max

LEMMA MaxBounded ==
  ASSUME NEW n \in Nat, NEW T, T \subseteq 0 .. n, T # {}
  PROVE  Max(T) \in T /\ \A y \in T : y <= Max(T)
<1> DEFINE U == {n - x : x \in T}
<1>1. U \subseteq Nat /\ U # {}
  <2>1. \A x \in T : n - x \in Nat
    OBVIOUS
  <2>2. PICK x : x \in T
    BY Zenon
  <2> QED BY <2>1, <2>2, Zenon
<1>2. PICK m \in U : \A k \in U : m <= k
  BY <1>1, NatMin, Zenon
<1>3. PICK x \in T : m = n - x
  BY Zenon
<1>4. \A y \in T : y <= x
  <2> TAKE y \in T
  <2>1. n - x <= n - y
    BY <1>2, <1>3, Zenon
  <2> QED BY <2>1
<1>5. Max(T) \in T /\ \A y \in T : Max(T) >= y
  <2>1. Max(T) = CHOOSE z \in T : \A y \in T : z >= y
    BY Zenon DEF Max
  <2>2. \A y \in T : x >= y
    BY <1>4, Zenon
  <2> QED BY <2>1, <2>2, Zenon
<1> QED BY <1>5, Zenon

-----------------------------------------------------------------------------
(* The inductive invariant.                                                *)

\* bl is a chain of h blocks.
Linked(bl, h) ==
  /\ h \in Nat
  /\ bl \in [1 .. h -> Block]
  /\ \A i \in 1 .. h : bl[i].height = i
  /\ h > 0 => bl[1] = InitialBlock(bl[1].ts)
  /\ \A i \in 2 .. h : bl[i].prev = Hash(bl[i - 1]) /\ bl[i].ts >= bl[i - 1].ts

\* b may be stored on top of it.
Extends(bl, h, b) ==
  /\ b.height = h + 1
  /\ IF h = 0 THEN b = InitialBlock(b.ts)
     ELSE b.prev = Hash(bl[h]) /\ b.ts >= bl[h].ts

\* What the process remembers of the chain.
ChainInv ==
  /\ chain \in [block : Block \cup {None}, snap : SnapshotType \cup {None}, height : 0 .. StoreHeight]
  /\ notes \subseteq 0 .. StoreHeight
  /\ pool \in Seq(Tx)
  /\ chain.block = None => chain.snap = None /\ pool = <<>>
  /\ chain.block # None =>
       /\ chain.block.height \in 1 .. StoreHeight
       /\ chain.block.height \in {StoreHeight - 1, StoreHeight}
       /\ chain.block = blocks[chain.block.height]
       /\ chain.snap \in SnapshotType

\* The pending row is not behind the chain, and at most one block ahead of it.
PendingInv ==
  /\ pending \in Block \cup {None}
  /\ StoreHeight >= 2 => pending # None /\ pending.height >= StoreHeight
  /\ pending # None =>
       /\ StoreHeight > 0
       /\ \/ pending.height \in 2 .. StoreHeight /\ pending = blocks[pending.height]
          \/ /\ Extends(blocks, StoreHeight, pending)
             /\ chain.block # None => chain.block.height = StoreHeight

Committing == {"recover", "initial", "commit"}

\* The CommitAppliedBlock in progress.
CommitInv ==
  /\ call.pc \notin Committing => commit = None
  /\ call.pc \in Committing =>
       /\ commit \in [pc : {"save", "finalize", "set", "done", "error"}, b : Block, s : SnapshotType]
       /\ commit.b.height > 0
       /\ commit.pc = "save" =>
            /\ chain.block # None => commit.b.height = chain.block.height + 1
            /\ \/ commit.b.height = StoreHeight
               \/ /\ Extends(blocks, StoreHeight, commit.b)
                  /\ StoreHeight > 0 => pending = commit.b
       /\ commit.pc \in {"finalize", "set"} => StoreHeight > 0 /\ commit.b = blocks[StoreHeight]
       /\ commit.pc = "done" => chain.block = commit.b /\ chain.snap = commit.s

CallType == [pc : Where, time : Nat, b : Block \cup {None}, s : SnapshotType \cup {None},
             prev : Block \cup {None}, todo : Seq(Tx)]

\* Where MakeBlock and GenerateBlock are.
CallInv ==
  /\ call \in CallType
  /\ call.pc \in {"down", "start"} => chain.block = None
  /\ call.pc = "initial" =>
       /\ pending = None
       /\ call.b = InitialBlock(call.b.ts) /\ call.b \in Block
       /\ call.prev = None /\ call.todo = <<>>
       /\ commit.b = call.b /\ commit.s = Empty
  /\ call.pc \in {"generate", "pending"} =>
       /\ call.b \in Block /\ call.s \in SnapshotType
       /\ call.prev = None => /\ call.pc = "generate"
                              /\ call.b = chain.block /\ call.b = InitialBlock(call.b.ts)
                              /\ call.todo = <<>>
                              /\ call.s.tree = {}
       /\ call.prev # None => /\ chain.block # None
                              /\ chain.block.height = StoreHeight
                              /\ Extends(blocks, StoreHeight, call.b)
                              /\ pending # None => pending.height <= StoreHeight

\* The snapshots on their way to the table, and those in it.
SnapInv ==
  /\ DOMAIN snapshots \subseteq 1 .. StoreHeight
  /\ \A h \in DOMAIN snapshots : snapshots[h] \in SnapshotType
  /\ queue # None => queue.height \in 1 .. StoreHeight /\ queue.snap \in SnapshotType
  /\ saving # None => saving.height \in 1 .. StoreHeight /\ saving.snap \in SnapshotType

LinkInv == Linked(blocks, StoreHeight) /\ SnapInv /\ ChainInv /\ PendingInv /\ CommitInv /\ CallInv

-----------------------------------------------------------------------------
(* What some of the actions do, in terms that the proofs can use.          *)

\* A call at rest.
LEMMA AtType == ASSUME NEW w \in Where PROVE At(w) \in CallType /\ At(w).pc = w
<1>1. <<>> \in Seq(Tx) /\ 0 \in Nat
  OBVIOUS
<1>2. At(w) = [pc |-> w, time |-> 0, b |-> None, s |-> None, prev |-> None, todo |-> <<>>]
  BY Zenon DEF At
<1>3. At(w) \in CallType
  BY <1>1, <1>2 DEF CallType, Where
<1> QED BY <1>2, <1>3

\* Recover computes a snapshot.
LEMMA RecoveredType == ASSUME LinkInv PROVE Recovered.snap \in SnapshotType
<1> DEFINE s == IF SnapshotHeight = 0 THEN Empty ELSE snapshots[SnapshotHeight]
           r == ReplayFrom(blocks, s, SnapshotHeight, StoreHeight)
<1> USE DEF LinkInv
<1>1. SnapshotHeight \in 0 .. StoreHeight /\ SnapshotHeight \in DOMAIN snapshots \cup {0}
  <2>1. DOMAIN snapshots \cup {0} \subseteq 0 .. StoreHeight /\ StoreHeight \in Nat
    BY DEF SnapInv, Linked
  <2> QED BY <2>1, MaxBounded, Zenon DEF SnapshotHeight
<1>2. s \in SnapshotType
  BY <1>1, Zenon DEF SnapInv, Empty, SnapshotType
<1> HIDE DEF s
<1>3. r \in Result
  <2>1. StoreHeight \in Nat /\ SnapshotHeight \in Nat /\ SnapshotHeight <= StoreHeight
    BY <1>1 DEF Linked
  <2>2. \A h \in DOMAIN blocks : blocks[h] \in Block
    BY Zenon DEF Linked
  <2> QED BY <1>2, <2>1, <2>2, ReplayType, Zenon
<1>4. Recovered.snap = r.snap
  BY Zenon DEF Recovered, s
<1> QED BY <1>3, <1>4, Zenon DEF Result

\* The call goes on with block b and snapshot s.
Stepped(d, c, b, s) ==
  d \in CallType /\ d.pc = c.pc /\ d.b = b /\ d.s = s /\ d.prev = c.prev

\* The three ways in which an iteration of GenerateBlock's loop goes on.
LEMMA SteppedIs ==
  ASSUME NEW c \in CallType, Tail(c.todo) \in Seq(Tx), c.b \in Block
  PROVE  /\ Stepped([c EXCEPT !.todo = Tail(@)], c, c.b, c.s)
         /\ \A s \in SnapshotType : Stepped([c EXCEPT !.todo = Tail(@), !.s = s], c, c.b, s)
         /\ \A s \in SnapshotType, tx \in Tx :
              Stepped([c EXCEPT !.todo = Tail(@), !.s = s, !.b.txs = Append(@, tx)], c, WithTx(c.b, tx), s)
<1>1. Stepped([c EXCEPT !.todo = Tail(@)], c, c.b, c.s)
  BY Zenon DEF CallType, Stepped
<1>2. ASSUME NEW s \in SnapshotType
      PROVE  Stepped([c EXCEPT !.todo = Tail(@), !.s = s], c, c.b, s)
  <2>1. ASSUME NEW t \in Seq(Tx) PROVE Stepped([c EXCEPT !.todo = t, !.s = s], c, c.b, s)
    <3> DEFINE d == [c EXCEPT !.todo = t, !.s = s]
    <3>1. d \in CallType
      BY Zenon DEF CallType
    <3>2. d.pc = c.pc /\ d.b = c.b /\ d.s = s /\ d.prev = c.prev
      BY Zenon DEF CallType
    <3> QED BY <3>1, <3>2, Zenon DEF Stepped
  <2> QED BY <2>1, Zenon
<1>3. ASSUME NEW s \in SnapshotType, NEW tx \in Tx
      PROVE  Stepped([c EXCEPT !.todo = Tail(@), !.s = s, !.b.txs = Append(@, tx)], c, WithTx(c.b, tx), s)
  <2> DEFINE d == [c EXCEPT !.todo = Tail(@), !.s = s, !.b.txs = Append(@, tx)]
  <2>1. d = [c EXCEPT !.todo = Tail(@), !.s = s, !.b = [c.b EXCEPT !.txs = Append(@, tx)]]
    BY Zenon DEF CallType
  <2>2. d = [c EXCEPT !.todo = Tail(@), !.s = s, !.b = WithTx(c.b, tx)]
    BY <2>1, WithTxType, Zenon
  <2> HIDE DEF d
  <2>3. WithTx(c.b, tx) \in Block
    BY WithTxType, Zenon
  <2>4. Stepped(d, c, WithTx(c.b, tx), s)
    BY <2>2, <2>3, Zenon DEF CallType, Stepped
  <2> QED BY <2>4, Zenon DEF d
<1> QED BY <1>1, <1>2, <1>3, Zenon

\* What one iteration of the loop does to the call.
LEMMA GenerateTxCases ==
  ASSUME LinkInv, GenerateTx, NEW tx, tx = Head(call.todo)
  PROVE  /\ call.pc = "generate" /\ call \in CallType /\ call.b \in Block /\ call.s \in SnapshotType
         /\ call.prev # None /\ tx \in Tx /\ Tail(call.todo) \in Seq(Tx)
         /\ Len(call.b.txs) < MaxBlockTxs
         /\ UNCHANGED <<chainVars, pending, pool, crashes>>
         /\ \/ /\ tx.valid /\ Timely(tx, call.b.ts) /\ CanApply(call.s, tx)
               /\ Stepped(call', call, WithTx(call.b, tx), Applied(call.s, tx))
            \/ /\ tx.valid /\ Timely(tx, call.b.ts) /\ ~CanApply(call.s, tx)
               /\ \E s \in FailedApply(call.s, tx) : Stepped(call', call, call.b, s)
            \/ /\ ~(tx.valid /\ Timely(tx, call.b.ts))
               /\ Stepped(call', call, call.b, call.s)
<1>1. call.pc = "generate" /\ call.todo # <<>> /\ Len(call.b.txs) < MaxBlockTxs
  BY Zenon DEF GenerateTx
<1>2. call \in CallType /\ call.b \in Block /\ call.s \in SnapshotType /\ call.prev # None
  BY <1>1, Zenon DEF LinkInv, CallInv
<1>3. call.todo \in Seq(Tx)
  BY <1>2, Zenon DEF CallType
<1>4. tx \in Tx /\ Tail(call.todo) \in Seq(Tx)
  BY <1>1, <1>3
<1>5. UNCHANGED <<chainVars, pending, pool, crashes>>
  BY Zenon DEF GenerateTx
<1>6. ASSUME tx.valid, Timely(tx, call.b.ts), CanApply(call.s, tx)
      PROVE  Stepped(call', call, WithTx(call.b, tx), Applied(call.s, tx))
  <2>1. call' = [call EXCEPT !.todo = Tail(@), !.s = Applied(@, tx), !.b.txs = Append(@, tx)]
    BY <1>6, Zenon DEF GenerateTx
  <2>2. Applied(call.s, tx) \in SnapshotType
    BY <1>2, <1>4, AppliedType, Zenon
  <2> QED BY <1>2, <1>4, <2>1, <2>2, SteppedIs, Zenon
<1>7. ASSUME tx.valid, Timely(tx, call.b.ts), ~CanApply(call.s, tx)
      PROVE  \E s \in FailedApply(call.s, tx) : Stepped(call', call, call.b, s)
  <2>1. PICK s \in FailedApply(call.s, tx) : call' = [call EXCEPT !.todo = Tail(@), !.s = s]
    BY <1>7, Zenon DEF GenerateTx
  <2>2. s \in SnapshotType
    BY <1>2, <1>4, AppliedType, Zenon
  <2> QED BY <1>2, <1>4, <2>1, <2>2, SteppedIs, Zenon
<1>8. ASSUME ~(tx.valid /\ Timely(tx, call.b.ts))
      PROVE  Stepped(call', call, call.b, call.s)
  <2>1. call' = [call EXCEPT !.todo = Tail(@)]
    BY <1>8, Zenon DEF GenerateTx
  <2> QED BY <1>2, <1>4, <2>1, SteppedIs, Zenon
<1> QED BY <1>1, <1>2, <1>4, <1>5, <1>6, <1>7, <1>8, Zenon

\* How GenerateBlock ends; the initial block already has its root.
LEMMA GenerateDoneCases ==
  ASSUME LinkInv, GenerateDone
  PROVE  /\ call.pc = "generate" /\ call \in CallType /\ call.b \in Block /\ call.s \in SnapshotType
         /\ UNCHANGED <<chainVars, pending, pool, crashes>>
         /\ \/ call.b.txs = <<>> /\ call' = At("idle")
            \/ /\ call.b.txs # <<>> /\ call.prev # None
               /\ call' \in CallType /\ call'.pc = "pending" /\ call'.s = call.s
               /\ call'.prev = call.prev /\ call'.b = WithRoot(call.b, call.s.tree)
<1> DEFINE b == WithRoot(call.b, call.s.tree)
<1>1. call.pc = "generate"
  BY Zenon DEF GenerateDone
<1>2. call \in CallType /\ call.b \in Block /\ call.s \in SnapshotType /\ call.s.tree \in SUBSET Output
  BY <1>1, Zenon DEF LinkInv, CallInv, SnapshotType
<1>3. /\ [call.b EXCEPT !.root = call.s.tree] = b /\ b.txs = call.b.txs /\ b \in Block
  BY <1>2, WithRootType, Zenon
<1> HIDE DEF b
<1>4. /\ call.prev = None => chain' = [chain EXCEPT !.block = b]
      /\ call.prev # None => chain' = chain
      /\ b.txs = <<>> => call' = At("idle")
      /\ b.txs # <<>> => call' = [call EXCEPT !.pc = "pending", !.b = b, !.todo = <<>>]
  <2>1. /\ call.prev = None => chain' = [chain EXCEPT !.block = [call.b EXCEPT !.root = call.s.tree]]
        /\ call.prev # None => chain' = chain
    BY Zenon DEF GenerateDone
  <2>2. IF [call.b EXCEPT !.root = call.s.tree].txs = <<>> THEN call' = At("idle")
        ELSE call' = [call EXCEPT !.pc = "pending", !.b = [call.b EXCEPT !.root = call.s.tree], !.todo = <<>>]
    BY Zenon DEF GenerateDone, Goto
  <2> QED BY <1>3, <2>1, <2>2, Zenon
<1>5. call.prev = None => b = call.b /\ call.b = chain.block /\ call.b.txs = <<>>
  <2> HAVE call.prev = None
  <2>1. call.s.tree = {} /\ call.b = InitialBlock(call.b.ts) /\ call.b = chain.block
    BY <1>1, Zenon DEF LinkInv, CallInv
  <2>2. call.b = [height |-> 1, prev |-> <<>>, ts |-> call.b.ts, txs |-> <<>>, root |-> {}]
    BY <2>1, Zenon DEF InitialBlock
  <2>3. call.b.height = 1 /\ call.b.prev = <<>> /\ call.b.txs = <<>>
    BY <2>2
  <2>4. b = [height |-> 1, prev |-> <<>>, ts |-> call.b.ts, txs |-> <<>>, root |-> {}]
    BY <2>1, <2>3, Zenon DEF b, WithRoot
  <2> QED BY <2>1, <2>2, <2>3, <2>4, Zenon
<1>6. chain' = chain
  BY <1>4, <1>5, Zenon DEF LinkInv, ChainInv
<1>7. b.txs # <<>> => /\ call' \in CallType /\ call'.pc = "pending" /\ call'.s = call.s
                      /\ call'.prev = call.prev /\ call'.b = b
  <2> HAVE b.txs # <<>>
  <2>1. <<>> \in Seq(Tx) /\ "pending" \in Where
    BY DEF Where
  <2>2. call' = [call EXCEPT !.pc = "pending", !.b = b, !.todo = <<>>]
    BY <1>4, Zenon
  <2>3. call' \in CallType
    BY <1>2, <1>3, <2>1, <2>2, Zenon DEF CallType
  <2> QED BY <1>2, <2>2, <2>3, Zenon DEF CallType
<1>8. UNCHANGED <<chainVars, pending, pool, crashes>>
  BY <1>6, Zenon DEF GenerateDone, chainVars
<1> QED BY <1>1, <1>2, <1>3, <1>4, <1>5, <1>7, <1>8, Zenon DEF b

\* The rows after SaveSnapshot: some of the old ones, and the one it saved.
LEMMA SaveSnapshotIs ==
  ASSUME SaveSnapshot
  PROVE  /\ saving # None /\ saving' = None /\ queue' = queue
         /\ \A h \in DOMAIN snapshots' : \/ h \in DOMAIN snapshots /\ snapshots'[h] = snapshots[h]
                                         \/ h = saving.height /\ snapshots'[h] = saving.snap
<1>1. saving # None /\ saving' = None /\ queue' = queue
  BY Zenon DEF SaveSnapshot
<1>2. \/ snapshots' = snapshots
      \/ \E kept \in SUBSET (DOMAIN snapshots \ {saving.height}) :
           snapshots' = [h \in kept \cup {saving.height} |->
                           IF h = saving.height THEN saving.snap ELSE snapshots[h]]
  BY Zenon DEF SaveSnapshot
<1> QED BY <1>1, <1>2, Zenon

\* SetHeight only raises the height.
LEMMA SetHeightChain ==
  ASSUME LinkInv, NEW h, SetHeight(h), UNCHANGED nodeVars
  PROVE  /\ chain'.block = chain.block /\ chain'.snap = chain.snap
         /\ commit' = commit /\ call' = call /\ pending' = pending
BY Zenon DEF SetHeight, LinkInv, ChainInv, nodeVars

\* Storing the next block.
LEMMA Grows ==
  ASSUME NEW bl, NEW h, Linked(bl, h), NEW b \in Block, Extends(bl, h, b), NEW more,
         more = [i \in DOMAIN bl \cup {b.height} |-> IF i \in DOMAIN bl THEN bl[i] ELSE b]
  PROVE  /\ Linked(more, h + 1) /\ more[h + 1] = b /\ \A i \in 1 .. h : more[i] = bl[i]
         /\ Max(DOMAIN more \cup {0}) = h + 1
<1>1. h \in Nat /\ DOMAIN bl = 1 .. h /\ bl \in [1 .. h -> Block] /\ b.height = h + 1
  BY Zenon DEF Linked, Extends
<1>2. DOMAIN more = 1 .. (h + 1)
  BY <1>1
<1>3. more[h + 1] = b /\ \A i \in 1 .. h : more[i] = bl[i]
  BY <1>1
<1>4. more \in [1 .. (h + 1) -> Block]
  <2>1. \A i \in 1 .. (h + 1) : more[i] \in Block
    BY <1>1, <1>3
  <2>2. more = [i \in 1 .. (h + 1) |-> more[i]]
    BY <1>2, Zenon
  <2> QED BY <2>1, <2>2, Zenon
<1>5. \A i \in 1 .. (h + 1) : more[i].height = i
  BY <1>1, <1>3 DEF Linked
<1>6. more[1] = InitialBlock(more[1].ts)
  <2>1. CASE h = 0
    BY <1>3, <2>1 DEF Extends
  <2>2. CASE h > 0
    BY <1>1, <1>3, <2>2 DEF Linked
  <2> QED BY <1>1, <2>1, <2>2
<1>7. ASSUME NEW i \in 2 .. (h + 1)
      PROVE  more[i].prev = Hash(more[i - 1]) /\ more[i].ts >= more[i - 1].ts
  <2>1. CASE i = h + 1
    <3>1. h > 0 /\ i - 1 = h /\ h \in 1 .. h
      BY <1>1, <2>1
    <3>2. more[i - 1] = bl[h]
      BY <1>3, <3>1, Zenon
    <3> QED BY <1>3, <2>1, <3>1, <3>2 DEF Extends
  <2>2. CASE i \in 2 .. h
    <3>1. i \in 1 .. h /\ i - 1 \in 1 .. h
      BY <1>1, <2>2
    <3>2. more[i] = bl[i] /\ more[i - 1] = bl[i - 1]
      BY <1>3, <3>1, Zenon
    <3> QED BY <2>2, <3>2, Zenon DEF Linked
  <2> QED BY <1>1, <2>1, <2>2
<1>8. Linked(more, h + 1)
  <2>1. h + 1 \in Nat
    BY <1>1
  <2> QED BY <2>1, <1>4, <1>5, <1>6, <1>7, Zenon DEF Linked
<1>9. Max(DOMAIN more \cup {0}) = h + 1
  BY <1>1, <1>2, MaxUpTo
<1> QED BY <1>3, <1>8, <1>9, Zenon

\* SaveBlock leaves the table alone, or stores the next block.
LEMMA SaveBlockCases ==
  ASSUME LinkInv, SaveBlock, UNCHANGED nodeVars
  PROVE  /\ call.pc \in Committing /\ commit.pc = "save"
         /\ UNCHANGED <<snapshots, chain, saving, notes, pending, pool, call>>
         /\ commit.b \in Block /\ commit.s \in SnapshotType
         /\ commit' \in [pc : {"save", "finalize", "set", "done", "error"}, b : Block, s : SnapshotType]
         /\ commit'.b = commit.b /\ commit'.s = commit.s /\ commit'.pc \in {"finalize", "error"}
         /\ queue' = queue \/ queue' = [height |-> commit.b.height, snap |-> commit.s]
         /\ commit'.pc = "error" => queue' = queue
         /\ \/ /\ blocks' = blocks /\ StoreHeight' = StoreHeight
               /\ commit'.pc = "finalize" => /\ StoreHeight > 0 /\ commit.b = blocks[StoreHeight]
                                             /\ commit.b.height = StoreHeight
            \/ /\ Extends(blocks, StoreHeight, commit.b)
               /\ StoreHeight > 0 => pending = commit.b
               /\ blocks' = Inserted(commit.b)
               /\ Linked(blocks', StoreHeight + 1) /\ StoreHeight' = StoreHeight + 1
               /\ blocks'[StoreHeight + 1] = commit.b
               /\ \A i \in 1 .. StoreHeight : blocks'[i] = blocks[i]
<1>1. /\ call.pc \in Committing /\ commit.pc = "save"
      /\ UNCHANGED <<snapshots, chain, saving, notes, pending, pool, call>>
  BY Zenon DEF SaveBlock, nodeVars, LinkInv, CommitInv
<1>2. /\ commit \in [pc : {"save", "finalize", "set", "done", "error"}, b : Block, s : SnapshotType]
      /\ commit.b \in Block /\ commit.s \in SnapshotType /\ commit.b.height > 0
      /\ \/ commit.b.height = StoreHeight
         \/ Extends(blocks, StoreHeight, commit.b) /\ (StoreHeight > 0 => pending = commit.b)
      /\ StoreHeight \in Nat
  BY <1>1, Zenon DEF LinkInv, CommitInv, Linked
<1>3. /\ \/ commit' = [commit EXCEPT !.pc = "finalize"] /\ ~Conflict(commit.b) /\ blocks' = Inserted(commit.b)
         \/ commit' = [commit EXCEPT !.pc = "error"] /\ blocks' \in {blocks, Inserted(commit.b)} /\ queue' = queue
      /\ queue' = queue \/ queue' = [height |-> commit.b.height, snap |-> commit.s]
  BY Zenon DEF SaveBlock, CommitTo, QueueSnapshot
<1>4. /\ commit' \in [pc : {"save", "finalize", "set", "done", "error"}, b : Block, s : SnapshotType]
      /\ commit'.b = commit.b /\ commit'.s = commit.s /\ commit'.pc \in {"finalize", "error"}
      /\ commit'.pc = "error" => queue' = queue
      /\ commit'.pc = "finalize" => ~Conflict(commit.b)
  BY <1>2, <1>3, Zenon
<1>5. CASE commit.b.height = StoreHeight
  <2>1. commit.b.height \in DOMAIN blocks /\ blocks[StoreHeight] \in Block
    BY <1>2, <1>5 DEF LinkInv, Linked
  <2>2. Inserted(commit.b) = blocks
    BY <2>1, Zenon DEF Inserted, LinkInv, Linked
  <2>3. blocks' = blocks /\ StoreHeight' = StoreHeight
    BY <1>3, <2>2, Zenon DEF StoreHeight
  <2>4. ~Conflict(commit.b) => commit.b = blocks[StoreHeight]
    BY <1>2, <1>5, <2>1, HashInjective, Zenon DEF Conflict
  <2> QED BY <1>1, <1>2, <1>3, <1>4, <1>5, <2>3, <2>4, Zenon
<1>6. CASE Extends(blocks, StoreHeight, commit.b) /\ (StoreHeight > 0 => pending = commit.b)
  <2>1. CASE blocks' = blocks
    <3>1. commit'.pc # "finalize"
      <4>1. commit.b.height = StoreHeight + 1 /\ DOMAIN blocks = 1 .. StoreHeight
        BY <1>6, Zenon DEF Extends, LinkInv, Linked
      <4>2. commit.b.height \notin DOMAIN blocks /\ commit.b.height \in DOMAIN Inserted(commit.b)
        BY <1>2, <4>1 DEF Inserted
      <4> QED BY <1>3, <1>4, <2>1, <4>2, Zenon
    <3>2. StoreHeight' = StoreHeight
      BY <2>1, Zenon DEF StoreHeight
    <3> QED BY <1>1, <1>2, <1>3, <1>4, <2>1, <3>1, <3>2, Zenon
  <2>2. CASE blocks' = Inserted(commit.b)
    <3>1. blocks' = [i \in DOMAIN blocks \cup {commit.b.height} |->
                       IF i \in DOMAIN blocks THEN blocks[i] ELSE commit.b]
      BY <2>2, Zenon DEF Inserted
    <3>2. Linked(blocks, StoreHeight)
      BY Zenon DEF LinkInv
    <3>3. /\ Linked(blocks', StoreHeight + 1) /\ Max(DOMAIN blocks' \cup {0}) = StoreHeight + 1
          /\ blocks'[StoreHeight + 1] = commit.b
          /\ \A i \in 1 .. StoreHeight : blocks'[i] = blocks[i]
      BY <1>2, <1>6, <3>1, <3>2, Grows
    <3>4. StoreHeight' = StoreHeight + 1
      BY <3>3, Zenon DEF StoreHeight
    <3> QED BY <1>1, <1>2, <1>3, <1>4, <1>6, <2>2, <3>3, <3>4, Zenon
  <2> QED BY <1>3, <2>1, <2>2, Zenon
<1> QED BY <1>2, <1>5, <1>6, Zenon

-----------------------------------------------------------------------------
(* What a step that leaves the blocks alone cannot disturb.                *)

LEMMA LinkFrame ==
  ASSUME LinkInv, UNCHANGED blocks
  PROVE  /\ StoreHeight' = StoreHeight /\ Linked(blocks, StoreHeight)'
         /\ UNCHANGED <<snapshots, queue, saving>> => SnapInv'
         /\ UNCHANGED <<chain, notes, pool>> => ChainInv'
         /\ chain'.block = chain.block /\ pending' = pending => PendingInv'
         /\ chain'.block = chain.block /\ chain'.snap = chain.snap /\ UNCHANGED <<pending, commit, call>> =>
              CommitInv' /\ CallInv'
<1>1. StoreHeight' = StoreHeight
  BY Zenon DEF StoreHeight
<1>2. Linked(blocks, StoreHeight)'
  BY <1>1, Zenon DEF LinkInv
<1>3. ASSUME UNCHANGED <<snapshots, queue, saving>> PROVE SnapInv'
  BY <1>1, <1>3, Zenon DEF LinkInv, SnapInv
<1>4. ASSUME UNCHANGED <<chain, notes, pool>> PROVE ChainInv'
  BY <1>1, <1>4, Zenon DEF LinkInv, ChainInv
<1>5. ASSUME chain'.block = chain.block, pending' = pending PROVE PendingInv'
  BY <1>1, <1>5, Zenon DEF LinkInv, PendingInv
<1>6. ASSUME chain'.block = chain.block, chain'.snap = chain.snap, UNCHANGED <<pending, commit, call>>
      PROVE  CommitInv' /\ CallInv'
  <2>1. CommitInv'
    BY <1>1, <1>6, Zenon DEF LinkInv, CommitInv
  <2>2. CallInv'
    BY <1>1, <1>6, Zenon DEF LinkInv, CallInv
  <2> QED BY <2>1, <2>2, Zenon
<1> QED BY <1>1, <1>2, <1>3, <1>4, <1>5, <1>6, Zenon

\* A call that holds no block.
LEMMA Parked ==
  ASSUME NEW w \in {"down", "start", "idle", "recover", "commit"}, call' = At(w),
         w \in {"down", "start"} => chain'.block = None
  PROVE  CallInv' /\ (w \notin Committing /\ commit' = None => CommitInv')
<1>1. call' \in CallType /\ call'.pc = w
  BY AtType, Zenon DEF Where
<1>2. CallInv'
  BY <1>1, Zenon DEF CallInv
<1>3. ASSUME w \notin Committing, commit' = None PROVE CommitInv'
  BY <1>1, <1>3, Zenon DEF CommitInv
<1> QED BY <1>2, <1>3, Zenon

-----------------------------------------------------------------------------
(* It is inductive.                                                        *)

LEMMA LinkInit == ASSUME Init PROVE LinkInv
<1> USE DEF Init, ChainInit
<1>1. StoreHeight = 0
  <2>1. DOMAIN blocks \cup {0} = (1 .. 0) \cup {0}
    OBVIOUS
  <2> QED BY <2>1, MaxUpTo, Zenon DEF StoreHeight
<1>2. Linked(blocks, StoreHeight)
  BY <1>1 DEF Linked
<1>3. ChainInv
  BY <1>1 DEF ChainInv, NoState
<1>4. PendingInv
  BY <1>1 DEF PendingInv
<1>5. CommitInv
  BY Zenon DEF CommitInv, At, Committing
<1>6. CallInv
  BY AtType, Zenon DEF CallInv, Where, NoState
<1>7. SnapInv
  BY Zenon DEF SnapInv
<1> QED BY <1>2, <1>3, <1>4, <1>5, <1>6, <1>7, Zenon DEF LinkInv

\* One step per action, and under it one per conjunct that it can disturb.
LEMMA LinkStep ==
  ASSUME ~TxsInFirstBlock, LinkInv
  PROVE  [Next]_vars => LinkInv'
<1>0. /\ StoreHeight \in Nat /\ blocks \in [1 .. StoreHeight -> Block]
      /\ \A i \in 1 .. StoreHeight : blocks[i].height = i
  BY Zenon DEF LinkInv, Linked
<1>1. ASSUME Start PROVE LinkInv'
  <2>1. /\ UNCHANGED <<blocks, snapshots, queue, saving, notes, commit, pending, pool>>
        /\ call.pc = "down" /\ chain' = [block |-> None, snap |-> None, height |-> StoreHeight]
        /\ \E w \in {"start", "idle"} : call' = At(w)
    BY <1>1, Zenon DEF Start, NewChain, NoState, Goto
  <2>2. chain.block = None /\ commit = None
    BY <2>1, Zenon DEF LinkInv, CallInv, CommitInv, Committing
  <2>3. StoreHeight' = StoreHeight /\ Linked(blocks, StoreHeight)' /\ SnapInv' /\ PendingInv'
    BY <2>1, <2>2, LinkFrame, Zenon
  <2>4. ChainInv'
    BY <1>0, <2>1, <2>2, <2>3 DEF LinkInv, ChainInv
  <2>5. CommitInv' /\ CallInv'
    BY <2>1, <2>2, Parked, Zenon DEF Committing
  <2> QED BY <2>3, <2>4, <2>5, Zenon DEF LinkInv
<1>2. ASSUME RecoverChain PROVE LinkInv'
  <2>1. /\ UNCHANGED <<blocks, snapshots, chain, queue, saving, notes, pending, pool>> /\ call.pc = "start"
        /\ \/ StoreHeight = 0 /\ call' = At("idle") /\ commit' = commit
           \/ /\ StoreHeight # 0 /\ call' = At("recover")
              /\ commit' = [pc |-> "save", b |-> blocks[StoreHeight], s |-> Recovered.snap]
    BY <1>2, Zenon DEF RecoverChain, Recover, CommitAppliedBlock, Goto, chainVars
  <2>2. chain.block = None /\ commit = None
    BY <2>1, Zenon DEF LinkInv, CallInv, CommitInv, Committing
  <2>3. StoreHeight' = StoreHeight /\ Linked(blocks, StoreHeight)' /\ SnapInv' /\ ChainInv' /\ PendingInv'
    BY <2>1, LinkFrame, Zenon
  <2>4. CallInv'
    BY <2>1, Parked, Zenon
  <2>5. CommitInv'
    <3>1. CASE StoreHeight = 0
      BY <2>1, <2>2, <3>1, Parked, Zenon DEF Committing
    <3>2. CASE StoreHeight # 0
      <4>1. blocks[StoreHeight] \in Block /\ blocks[StoreHeight].height = StoreHeight /\ StoreHeight > 0
        BY <1>0, <3>2
      <4>2. Recovered.snap \in SnapshotType
        BY RecoveredType, Zenon
      <4>3. call'.pc = "recover"
        BY <2>1, <3>2, AtType, Zenon DEF Where
      <4> QED BY <2>1, <2>2, <2>3, <3>2, <4>1, <4>2, <4>3 DEF CommitInv, Committing
    <3> QED BY <3>1, <3>2, Zenon
  <2> QED BY <2>3, <2>4, <2>5, Zenon DEF LinkInv
<1>3. ASSUME NEW ts \in Timestamp, BeginBlock(ts) PROVE LinkInv'
  <2>1. /\ UNCHANGED <<blocks, snapshots, chain, queue, saving, notes, commit, pending, pool>>
        /\ call.pc = "idle" /\ call' = [At("block") EXCEPT !.time = ts]
    BY <1>3, Zenon DEF BeginBlock, chainVars
  <2>2. Linked(blocks, StoreHeight)' /\ SnapInv' /\ ChainInv' /\ PendingInv'
    BY <2>1, LinkFrame, Zenon
  <2>3. call' \in CallType /\ call'.pc = "block"
    <3>1. At("block") \in CallType /\ At("block").pc = "block" /\ ts \in Nat
      BY AtType, NodeAssumption, Zenon DEF Where
    <3> QED BY <2>1, <3>1, Zenon DEF CallType
  <2>4. CallInv'
    BY <2>3, Zenon DEF CallInv
  <2>5. CommitInv'
    BY <2>1, <2>3, Zenon DEF LinkInv, CommitInv, Committing
  <2> QED BY <2>2, <2>4, <2>5, Zenon DEF LinkInv
<1>4. ASSUME Stop PROVE LinkInv'
  <2>1. /\ UNCHANGED <<blocks, snapshots, pending>> /\ queue' = None /\ saving' = None /\ notes' = {}
        /\ commit' = None /\ pool' = <<>> /\ call' = At("down")
        /\ chain' = [block |-> None, snap |-> None, height |-> 0]
    BY <1>4, Zenon DEF Stop, LoseMemory, NoState, Goto
  <2>2. StoreHeight' = StoreHeight /\ Linked(blocks, StoreHeight)'
    BY <2>1, LinkFrame, Zenon
  <2>3. ChainInv'
    BY <1>0, <2>1, <2>2 DEF ChainInv
  <2>4. PendingInv'
    BY <2>1, <2>2, Zenon DEF LinkInv, PendingInv
  <2>5. SnapInv'
    BY <2>1, <2>2, Zenon DEF LinkInv, SnapInv
  <2>6. CommitInv' /\ CallInv'
    BY <2>1, Parked, Zenon DEF Committing
  <2> QED BY <2>2, <2>3, <2>4, <2>5, <2>6, Zenon DEF LinkInv
<1>5. ASSUME MakeBlockError PROVE LinkInv'
  <2>1. /\ UNCHANGED <<blocks, snapshots, chain, queue, saving, notes, commit, pending, pool>>
        /\ call.pc = "block" /\ call' = At("idle")
    BY <1>5, Zenon DEF MakeBlockError, Goto
  <2>2. Linked(blocks, StoreHeight)' /\ SnapInv' /\ ChainInv' /\ PendingInv'
    BY <2>1, LinkFrame, Zenon
  <2>3. commit' = None
    BY <2>1, Zenon DEF LinkInv, CommitInv, Committing
  <2>4. CommitInv' /\ CallInv'
    BY <2>1, <2>3, Parked, Zenon DEF Committing
  <2> QED BY <2>2, <2>4, Zenon DEF LinkInv
<1>6. ASSUME MakeBlockPending, ~Stop PROVE LinkInv'
  <2> DEFINE s == ApplyBlock(chain.snap, pending).snap
  <2>1. /\ UNCHANGED <<blocks, snapshots, chain, queue, saving, notes, pending, pool>>
        /\ chain.snap # None /\ pending # None /\ (chain.block # None => pending.height = chain.block.height + 1)
        /\ call' = At("commit") /\ commit' = [pc |-> "save", b |-> pending, s |-> s]
    BY <1>6, Zenon DEF MakeBlockPending, HavePending, CommitAppliedBlock, Goto
  <2>2. StoreHeight' = StoreHeight /\ Linked(blocks, StoreHeight)' /\ SnapInv' /\ ChainInv' /\ PendingInv'
    BY <2>1, LinkFrame, Zenon
  <2>3. CallInv'
    BY <2>1, Parked, Zenon
  <2>4. CommitInv'
    <3>1. chain.block # None /\ chain.snap \in SnapshotType /\ chain.block.height \in Nat \ {0}
      BY <1>0, <2>1 DEF LinkInv, ChainInv
    <3>2. pending \in Block /\ pending.height = chain.block.height + 1 /\ pending.height > 0
      BY <2>1, <3>1 DEF LinkInv, PendingInv
    <3>3. s \in SnapshotType
      BY <3>1, <3>2, ApplyType, Zenon DEF Result
    <3>4. pending.height = StoreHeight \/ Extends(blocks, StoreHeight, pending)
      <4>1. chain.block.height \in {StoreHeight - 1, StoreHeight}
        BY <3>1, Zenon DEF LinkInv, ChainInv
      <4> QED BY <1>0, <2>1, <3>1, <3>2, <4>1 DEF LinkInv, PendingInv
    <3>5. call'.pc = "commit"
      BY <2>1, AtType, Zenon DEF Where
    <3> HIDE DEF s
    <3> QED BY <2>1, <2>2, <3>1, <3>2, <3>3, <3>4, <3>5, Zenon DEF CommitInv, Committing
  <2> QED BY <2>2, <2>3, <2>4, Zenon DEF LinkInv
<1>7. ASSUME MakeBlockInitial PROVE LinkInv'
  <2> DEFINE b == InitialBlock(call.time)
  <2>1. /\ UNCHANGED <<blocks, snapshots, chain, queue, saving, notes, pending>>
        /\ pool' = <<>> /\ chain.block = None /\ pending = None
        /\ commit' = [pc |-> "save", b |-> b, s |-> Empty]
        /\ call' = [At("initial") EXCEPT !.b = b, !.todo = pool]
    BY <1>7, Zenon DEF MakeBlockInitial, HavePending, CommitAppliedBlock
  <2>2. pool = <<>> /\ call.time \in Nat
    BY <2>1, Zenon DEF LinkInv, ChainInv, CallInv, CallType
  <2>3. b \in Block /\ b = InitialBlock(b.ts) /\ b.height = 1
    BY <2>2, InitialBlockType, Zenon DEF InitialBlock
  <2> HIDE DEF b
  <2>4. StoreHeight' = StoreHeight /\ Linked(blocks, StoreHeight)' /\ SnapInv' /\ ChainInv' /\ PendingInv'
    BY <2>1, <2>2, LinkFrame, Zenon
  <2>5. /\ call' \in CallType /\ call'.pc = "initial" /\ call'.b = b
        /\ call'.prev = None /\ call'.todo = <<>>
    <3>1. At("initial") \in CallType /\ At("initial").pc = "initial" /\ At("initial").prev = None
      BY AtType, Zenon DEF Where, At
    <3>2. <<>> \in Seq(Tx)
      OBVIOUS
    <3> QED BY <2>1, <2>2, <2>3, <3>1, <3>2, Zenon DEF CallType
  <2>6. CommitInv'
    <3>1. StoreHeight \in {0, 1}
      BY <1>0, <2>1 DEF LinkInv, PendingInv
    <3>2. Empty \in SnapshotType
      BY Zenon DEF Empty, SnapshotType
    <3>3. b.height = StoreHeight \/ (StoreHeight = 0 /\ Extends(blocks, StoreHeight, b))
      BY <2>3, <3>1 DEF Extends
    <3> QED BY <2>1, <2>3, <2>4, <2>5, <3>2, <3>3 DEF CommitInv, Committing
  <2>7. CallInv'
    BY <2>1, <2>3, <2>5, Zenon DEF CallInv
  <2> QED BY <2>4, <2>6, <2>7, Zenon DEF LinkInv
<1>8. ASSUME MakeBlockNext PROVE LinkInv'
  <2> DEFINE b == EmptyBlock(chain.block, call.time)
             s == PruneNonces(chain.snap, call.time)
             late == call.time < chain.block.ts
             c == [pc |-> "generate", time |-> 0, b |-> b, s |-> s, prev |-> chain.block, todo |-> pool]
  <2>1. /\ UNCHANGED <<blocks, snapshots, chain, queue, saving, notes, commit, pending>>
        /\ pool' = <<>> /\ call.pc = "block" /\ chain.block # None
        /\ pending # None => pending.height # chain.block.height + 1
        /\ call' = IF late THEN At("idle") ELSE c
    BY <1>8, Zenon DEF MakeBlockNext, HavePending, Goto, chainVars
  <2>2. StoreHeight' = StoreHeight /\ Linked(blocks, StoreHeight)' /\ SnapInv' /\ PendingInv'
    BY <2>1, LinkFrame, Zenon
  <2>3. ChainInv'
    BY <2>1, <2>2 DEF LinkInv, ChainInv
  <2>4. commit = None /\ call.time \in Nat
    BY <2>1, Zenon DEF LinkInv, CommitInv, Committing, CallInv, CallType
  <2>5. CASE late
    <3>1. call' = At("idle") /\ commit' = None
      BY <2>1, <2>4, <2>5, Zenon
    <3>2. CommitInv' /\ CallInv'
      BY <3>1, Parked, Zenon DEF Committing
    <3> QED BY <2>2, <2>3, <3>2, Zenon DEF LinkInv
  <2>6. CASE ~late
    <3>1. /\ chain.block \in Block /\ chain.snap \in SnapshotType /\ pool \in Seq(Tx)
          /\ chain.block = blocks[chain.block.height] /\ chain.block.height \in 1 .. StoreHeight
          /\ chain.block.height \in {StoreHeight - 1, StoreHeight}
      BY <2>1, Zenon DEF LinkInv, ChainInv
    <3>2. /\ StoreHeight >= 2 => pending # None /\ pending.height >= StoreHeight
          /\ pending # None => \/ pending.height \in 2 .. StoreHeight
                               \/ /\ pending.height = StoreHeight + 1
                                  /\ chain.block.height = StoreHeight
      BY <2>1, Zenon DEF LinkInv, PendingInv, Extends
    <3>3. chain.block.height = StoreHeight /\ (pending # None => pending.height <= StoreHeight)
      BY <1>0, <2>1, <3>1, <3>2
    <3>4. b \in Block /\ s \in SnapshotType
      BY <2>4, <3>1, EmptyBlockType, PrunedType, Zenon
    <3>5. Extends(blocks, StoreHeight, b)
      <4>1. b.height = chain.block.height + 1 /\ b.prev = Hash(chain.block) /\ b.ts = call.time
        BY Zenon DEF EmptyBlock
      <4>2. call.time >= chain.block.ts
        BY <2>4, <2>6, <3>1 DEF Block
      <4> HIDE DEF b
      <4> QED BY <3>1, <3>3, <4>1, <4>2 DEF Extends
    <3>6. call' = c
      BY <2>1, <2>6, Zenon
    <3> HIDE DEF b, s
    <3>7. call' \in CallType /\ call'.pc = "generate" /\ call'.b = b /\ call'.s = s /\ call'.prev = chain.block
      BY <3>1, <3>4, <3>6, Zenon DEF CallType, Where
    <3> HIDE DEF c
    <3>8. CommitInv'
      BY <2>1, <2>4, <3>7, Zenon DEF CommitInv, Committing
    <3>9. CallInv'
      BY <2>1, <2>2, <3>3, <3>4, <3>5, <3>7, Zenon DEF CallInv
    <3> QED BY <2>2, <2>3, <3>8, <3>9, Zenon DEF LinkInv
  <2> QED BY <2>5, <2>6, Zenon
<1>9. ASSUME GenerateTx PROVE LinkInv'
  <2> DEFINE tx == Head(call.todo)
  <2>1. /\ UNCHANGED <<blocks, snapshots, chain, queue, saving, notes, commit, pending, pool>>
        /\ call.pc = "generate" /\ call.prev # None /\ call.b \in Block /\ call.s \in SnapshotType /\ tx \in Tx
    BY <1>9, GenerateTxCases, Zenon DEF chainVars
  <2>2. PICK b \in {call.b, WithTx(call.b, tx)}, s \in SnapshotType : Stepped(call', call, b, s)
    <3>1. Applied(call.s, tx) \in SnapshotType /\ FailedApply(call.s, tx) \subseteq SnapshotType
      BY <2>1, AppliedType, Zenon
    <3>2. \/ Stepped(call', call, WithTx(call.b, tx), Applied(call.s, tx))
          \/ \E s \in FailedApply(call.s, tx) : Stepped(call', call, call.b, s)
          \/ Stepped(call', call, call.b, call.s)
      BY <1>9, GenerateTxCases, Zenon
    <3> HIDE DEF tx
    <3> QED BY <2>1, <3>1, <3>2, Zenon
  <2> HIDE DEF tx
  <2>3. b \in Block /\ b.height = call.b.height /\ b.prev = call.b.prev /\ b.ts = call.b.ts
    BY <2>1, WithTxType
  <2>4. call' \in CallType /\ call'.pc = "generate" /\ call'.b = b /\ call'.s = s /\ call'.prev = call.prev
    BY <2>1, <2>2, Zenon DEF Stepped
  <2>5. StoreHeight' = StoreHeight /\ Linked(blocks, StoreHeight)' /\ SnapInv' /\ ChainInv' /\ PendingInv'
    BY <2>1, LinkFrame, Zenon
  <2>6. CommitInv'
    BY <2>1, <2>4, Zenon DEF LinkInv, CommitInv, Committing
  <2>7. CallInv'
    <3>1. /\ chain.block # None /\ chain.block.height = StoreHeight
          /\ Extends(blocks, StoreHeight, call.b) /\ (pending # None => pending.height <= StoreHeight)
      BY <2>1, Zenon DEF LinkInv, CallInv
    <3>2. Extends(blocks, StoreHeight, b)
      <4>1. StoreHeight # 0
        BY <1>0, <3>1 DEF LinkInv, ChainInv
      <4> QED BY <2>3, <3>1, <4>1, Zenon DEF Extends
    <3> QED BY <2>1, <2>2, <2>3, <2>4, <2>5, <3>1, <3>2, Zenon DEF CallInv
  <2> QED BY <2>5, <2>6, <2>7, Zenon DEF LinkInv
<1>10. ASSUME GenerateDone PROVE LinkInv'
  <2> DEFINE b == WithRoot(call.b, call.s.tree)
  <2>1. /\ UNCHANGED <<blocks, snapshots, chain, queue, saving, notes, commit, pending, pool>>
        /\ call.pc = "generate"
        /\ \/ call' = At("idle")
           \/ /\ call' \in CallType /\ call'.pc = "pending" /\ call'.s = call.s
              /\ call.prev # None /\ call'.prev = call.prev /\ call'.b = b
    BY <1>10, GenerateDoneCases, Zenon DEF chainVars
  <2>2. StoreHeight' = StoreHeight /\ Linked(blocks, StoreHeight)' /\ SnapInv' /\ ChainInv' /\ PendingInv'
    BY <2>1, LinkFrame, Zenon
  <2>3. commit' = None
    BY <2>1, Zenon DEF LinkInv, CommitInv, Committing
  <2>4. CASE call' = At("idle")
    <3>1. CommitInv' /\ CallInv'
      BY <2>3, <2>4, Parked, Zenon DEF Committing
    <3> QED BY <2>2, <3>1, Zenon DEF LinkInv
  <2>5. CASE call' # At("idle")
    <3>1. /\ call.b \in Block /\ call.s \in SnapshotType /\ call.prev # None
          /\ chain.block # None /\ chain.block.height = StoreHeight
          /\ Extends(blocks, StoreHeight, call.b) /\ (pending # None => pending.height <= StoreHeight)
      BY <2>1, <2>5, Zenon DEF LinkInv, CallInv
    <3>2. b \in Block /\ b.height = call.b.height /\ b.prev = call.b.prev /\ b.ts = call.b.ts
      BY <3>1, WithRootType, Zenon DEF SnapshotType
    <3> HIDE DEF b
    <3>3. Extends(blocks, StoreHeight, b)
      <4>1. StoreHeight # 0
        BY <1>0, <3>1 DEF LinkInv, ChainInv
      <4> QED BY <3>1, <3>2, <4>1, Zenon DEF Extends
    <3>4. CommitInv'
      BY <2>1, <2>3, <2>5, Zenon DEF CommitInv, Committing
    <3>5. CallInv'
      BY <2>1, <2>2, <2>5, <3>1, <3>2, <3>3, Zenon DEF CallInv
    <3> QED BY <2>2, <3>4, <3>5, Zenon DEF LinkInv
  <2> QED BY <2>4, <2>5, Zenon
<1>11. ASSUME SavePending PROVE LinkInv'
  <2>1. /\ UNCHANGED <<blocks, snapshots, chain, queue, saving, notes, pool>> /\ call.pc = "pending"
        /\ \/ /\ call' = At("commit") /\ pending' = call.b
              /\ commit' = [pc |-> "save", b |-> call.b, s |-> call.s]
           \/ call' = At("idle") /\ pending' \in {pending, call.b} /\ commit' = commit
    BY <1>11, Zenon DEF SavePending, CommitAppliedBlock, Goto
  <2>2. StoreHeight' = StoreHeight /\ Linked(blocks, StoreHeight)' /\ SnapInv' /\ ChainInv'
    BY <2>1, LinkFrame, Zenon
  <2>3. CallInv'
    BY <2>1, Parked, Zenon
  <2>4. /\ call.b \in Block /\ call.s \in SnapshotType /\ commit = None
        /\ chain.block # None /\ chain.block.height = StoreHeight /\ Extends(blocks, StoreHeight, call.b)
    BY <2>1, Zenon DEF LinkInv, CallInv, CommitInv, Committing
  <2>5. call.b # None /\ call.b.height = StoreHeight + 1 /\ StoreHeight > 0
    BY <1>0, <2>4, ChainAssumption DEF Extends, LinkInv, ChainInv
  <2>6. PendingInv'
    <3>1. CASE pending' = pending
      BY <2>1, <3>1, LinkFrame, Zenon
    <3>2. CASE pending' = call.b
      BY <1>0, <2>1, <2>2, <2>4, <2>5, <3>2 DEF PendingInv
    <3> QED BY <2>1, <3>1, <3>2, Zenon
  <2>7. CommitInv'
    <3>1. CASE call' = At("idle") /\ commit' = commit
      BY <2>4, <3>1, Parked, Zenon DEF Committing
    <3>2. CASE /\ call' = At("commit") /\ pending' = call.b
               /\ commit' = [pc |-> "save", b |-> call.b, s |-> call.s]
      <4>1. call'.pc = "commit"
        BY <3>2, AtType, Zenon DEF Where
      <4> QED BY <1>0, <2>1, <2>2, <2>4, <2>5, <3>2, <4>1 DEF CommitInv, Committing
    <3> QED BY <2>1, <3>1, <3>2, Zenon
  <2> QED BY <2>2, <2>3, <2>6, <2>7, Zenon DEF LinkInv
<1>12. ASSUME RecoverReturns \/ CommitReturns, ~Stop PROVE LinkInv'
  <2>1. /\ UNCHANGED <<blocks, snapshots, chain, queue, saving, notes, pending, pool>>
        /\ commit' = None /\ call' = At("idle")
    BY <1>12, Zenon DEF RecoverReturns, CommitReturns, Goto
  <2>2. Linked(blocks, StoreHeight)' /\ SnapInv' /\ ChainInv' /\ PendingInv'
    BY <2>1, LinkFrame, Zenon
  <2>3. CommitInv' /\ CallInv'
    BY <2>1, Parked, Zenon DEF Committing
  <2> QED BY <2>2, <2>3, Zenon DEF LinkInv
<1>13. ASSUME InitialReturns PROVE LinkInv'
  <2> DEFINE s == PruneNonces(chain.snap, call.b.ts)
  <2>1. /\ UNCHANGED <<blocks, snapshots, chain, queue, saving, notes, pending, pool>>
        /\ call.pc = "initial" /\ commit' = None
        /\ \/ call' = At("idle")
           \/ commit.pc = "done" /\ call' = [call EXCEPT !.pc = "generate", !.s = s]
    BY <1>13, Zenon DEF InitialReturns, Goto
  <2>2. Linked(blocks, StoreHeight)' /\ SnapInv' /\ ChainInv' /\ PendingInv'
    BY <2>1, LinkFrame, Zenon
  <2>3. CASE call' = At("idle")
    <3>1. CommitInv' /\ CallInv'
      BY <2>1, <2>3, Parked, Zenon DEF Committing
    <3> QED BY <2>2, <3>1, Zenon DEF LinkInv
  <2>4. CASE commit.pc = "done" /\ call' = [call EXCEPT !.pc = "generate", !.s = s]
    <3>1. /\ call \in CallType /\ call.prev = None /\ call.todo = <<>> /\ call.b \in Block
          /\ call.b = InitialBlock(call.b.ts) /\ commit.b = call.b /\ commit.s = Empty
      BY <2>1, Zenon DEF LinkInv, CallInv
    <3>2. call.b = chain.block /\ chain.snap = Empty
      BY <2>1, <2>4, <3>1, Zenon DEF LinkInv, CommitInv, Committing
    <3>3. s \in SnapshotType /\ s.tree = {}
      <4>1. Empty \in SnapshotType /\ Empty.tree = {} /\ call.b.ts \in Nat
        BY <3>1, Zenon DEF Empty, SnapshotType, Block
      <4> QED BY <3>2, <4>1, PrunedType, Zenon DEF PruneNonces
    <3> HIDE DEF s
    <3>4. /\ call' \in CallType /\ call'.pc = "generate" /\ call'.s = s /\ call'.b = call.b
          /\ call'.prev = call.prev /\ call'.todo = call.todo
      BY <2>4, <3>1, <3>3, Zenon DEF CallType, Where
    <3>5. CommitInv'
      BY <2>1, <3>4, Zenon DEF CommitInv, Committing
    <3>6. CallInv'
      BY <2>1, <3>1, <3>2, <3>3, <3>4, Zenon DEF CallInv
    <3> QED BY <2>2, <3>5, <3>6, Zenon DEF LinkInv
  <2> QED BY <2>1, <2>3, <2>4, Zenon
<1>14. ASSUME SaveBlock, UNCHANGED nodeVars PROVE LinkInv'
  <2>1. /\ call.pc \in Committing /\ commit.pc = "save"
        /\ UNCHANGED <<snapshots, chain, saving, notes, pending, pool, call>>
        /\ commit.b \in Block /\ commit.s \in SnapshotType
        /\ commit' \in [pc : {"save", "finalize", "set", "done", "error"}, b : Block, s : SnapshotType]
        /\ commit'.b = commit.b /\ commit'.s = commit.s /\ commit'.pc \in {"finalize", "error"}
        /\ queue' = queue \/ queue' = [height |-> commit.b.height, snap |-> commit.s]
        /\ commit'.pc = "error" => queue' = queue
    BY <1>14, SaveBlockCases, Zenon
  <2>2. CASE /\ blocks' = blocks
             /\ commit'.pc = "finalize" => /\ StoreHeight > 0 /\ commit.b = blocks[StoreHeight]
                                           /\ commit.b.height = StoreHeight
    <3>1. StoreHeight' = StoreHeight /\ Linked(blocks, StoreHeight)' /\ ChainInv' /\ PendingInv'
      BY <2>1, <2>2, LinkFrame, Zenon
    <3>2. CommitInv'
      <4>1. commit.b.height > 0
        BY <2>1, Zenon DEF LinkInv, CommitInv
      <4> QED BY <2>1, <2>2, <3>1, <4>1, Zenon DEF CommitInv
    <3>3. CallInv'
      BY <2>1, <3>1, Zenon DEF LinkInv, CallInv, Committing
    <3>4. SnapInv'
      BY <1>0, <2>1, <2>2, <3>1 DEF LinkInv, SnapInv
    <3> QED BY <3>1, <3>2, <3>3, <3>4, Zenon DEF LinkInv
  <2>3. CASE /\ Extends(blocks, StoreHeight, commit.b)
             /\ StoreHeight > 0 => pending = commit.b
             /\ Linked(blocks', StoreHeight + 1) /\ StoreHeight' = StoreHeight + 1
             /\ blocks'[StoreHeight + 1] = commit.b
             /\ \A i \in 1 .. StoreHeight : blocks'[i] = blocks[i]
    <3>1. Linked(blocks, StoreHeight)'
      BY <2>3, Zenon
    <3>2. commit.b.height = StoreHeight + 1
      BY <2>3, Zenon DEF Extends
    <3>3. ChainInv'
      <4>1. chain.block # None => chain.block.height = StoreHeight
        <5>1. chain.block # None => commit.b.height = chain.block.height + 1 /\ chain.block.height \in 1 .. StoreHeight
          BY <2>1, Zenon DEF LinkInv, CommitInv, ChainInv
        <5> QED BY <1>0, <3>2, <5>1
      <4> QED BY <1>0, <2>1, <2>3, <4>1 DEF LinkInv, ChainInv
    <3>4. PendingInv'
      <4>1. CASE StoreHeight = 0
        <5>1. pending = None
          BY <4>1 DEF LinkInv, PendingInv
        <5> QED BY <2>1, <2>3, <4>1, <5>1 DEF PendingInv
      <4>2. CASE StoreHeight > 0
        <5>1. pending = commit.b /\ pending \in Block /\ pending # None
          BY <2>1, <2>3, <4>2, ChainAssumption, Zenon
        <5> QED BY <1>0, <2>1, <2>3, <3>2, <4>2, <5>1 DEF PendingInv
      <4> QED BY <1>0, <4>1, <4>2
    <3>5. CommitInv'
      BY <1>0, <2>1, <2>3, <3>2 DEF CommitInv
    <3>6. CallInv'
      BY <2>1, Zenon DEF LinkInv, CallInv, Committing
    <3>7. SnapInv'
      BY <1>0, <2>1, <2>3, <3>2 DEF LinkInv, SnapInv
    <3> QED BY <3>1, <3>3, <3>4, <3>5, <3>6, <3>7, Zenon DEF LinkInv
  <2> QED BY <1>14, <2>2, <2>3, SaveBlockCases, Zenon
<1>15. ASSUME FinalizeBlock, UNCHANGED nodeVars PROVE LinkInv'
  <2>1. /\ UNCHANGED <<blocks, snapshots, chain, queue, saving, pending, pool, call>>
        /\ commit # None /\ commit.pc = "finalize" /\ notes' \subseteq notes \cup {commit.b.height}
        /\ commit' \in {[commit EXCEPT !.pc = "set"], [commit EXCEPT !.pc = "error"]}
    BY <1>15, Zenon DEF FinalizeBlock, CommitTo, nodeVars
  <2>2. /\ call.pc \in Committing
        /\ commit \in [pc : {"save", "finalize", "set", "done", "error"}, b : Block, s : SnapshotType]
        /\ commit.b.height > 0 /\ StoreHeight > 0 /\ commit.b = blocks[StoreHeight]
    BY <2>1, Zenon DEF LinkInv, CommitInv
  <2>3. /\ commit' \in [pc : {"save", "finalize", "set", "done", "error"}, b : Block, s : SnapshotType]
        /\ commit'.b = commit.b /\ commit'.s = commit.s /\ commit'.pc \in {"set", "error"}
    BY <2>1, <2>2, Zenon
  <2>4. StoreHeight' = StoreHeight /\ Linked(blocks, StoreHeight)' /\ SnapInv' /\ PendingInv'
    BY <2>1, LinkFrame, Zenon
  <2>5. ChainInv'
    <3>1. notes' \subseteq 0 .. StoreHeight
      BY <1>0, <2>1, <2>2 DEF LinkInv, ChainInv
    <3> QED BY <2>1, <2>4, <3>1, Zenon DEF LinkInv, ChainInv
  <2>6. CommitInv'
    BY <2>1, <2>2, <2>3, <2>4, Zenon DEF CommitInv
  <2>7. CallInv'
    BY <2>1, <2>2, <2>3, <2>4, Zenon DEF LinkInv, CallInv, Committing
  <2> QED BY <2>4, <2>5, <2>6, <2>7, Zenon DEF LinkInv
<1>16. ASSUME SetState, UNCHANGED nodeVars PROVE LinkInv'
  <2> DEFINE m == Max({chain.height, commit.b.height})
  <2>1. /\ UNCHANGED <<blocks, snapshots, queue, saving, notes, pending, pool, call>>
        /\ commit # None /\ commit.pc = "set" /\ commit' = [commit EXCEPT !.pc = "done"]
        /\ chain' = [block |-> commit.b, snap |-> commit.s, height |-> m]
    BY <1>16, Zenon DEF SetState, CommitTo, nodeVars
  <2>2. /\ call.pc \in Committing
        /\ commit \in [pc : {"save", "finalize", "set", "done", "error"}, b : Block, s : SnapshotType]
        /\ commit.b.height > 0 /\ StoreHeight > 0 /\ commit.b = blocks[StoreHeight]
    BY <2>1, Zenon DEF LinkInv, CommitInv
  <2>3. commit.b.height = StoreHeight /\ commit.b # None
    BY <1>0, <2>2, ChainAssumption
  <2>4. m \in 0 .. StoreHeight
    <3>1. chain.height \in 0 .. StoreHeight
      BY Zenon DEF LinkInv, ChainInv
    <3> QED BY <1>0, <2>3, <3>1, MaxTwo
  <2> HIDE DEF m
  <2>5. chain'.block = commit.b /\ chain'.snap = commit.s /\ chain'.height = m
    BY <2>1, Zenon
  <2>6. /\ commit' \in [pc : {"save", "finalize", "set", "done", "error"}, b : Block, s : SnapshotType]
        /\ commit'.b = commit.b /\ commit'.s = commit.s /\ commit'.pc = "done"
    BY <2>1, <2>2, Zenon
  <2>7. StoreHeight' = StoreHeight /\ Linked(blocks, StoreHeight)' /\ SnapInv'
    BY <2>1, LinkFrame, Zenon
  <2>8. ChainInv'
    BY <1>0, <2>1, <2>2, <2>3, <2>4, <2>7 DEF LinkInv, ChainInv
  <2>9. PendingInv'
    BY <2>1, <2>3, <2>5, <2>7, Zenon DEF LinkInv, PendingInv
  <2>10. CommitInv'
    BY <2>1, <2>2, <2>5, <2>6, Zenon DEF CommitInv
  <2>11. CallInv'
    BY <2>1, <2>2, <2>6, <2>7, Zenon DEF LinkInv, CallInv, Committing
  <2> QED BY <2>7, <2>8, <2>9, <2>10, <2>11, Zenon DEF LinkInv
<1>17. ASSUME TakeSnapshot \/ SaveSnapshot \/ LoseNotes, UNCHANGED nodeVars PROVE LinkInv'
  <2>1. UNCHANGED <<blocks, chain, commit, pending, pool, call>> /\ notes' \subseteq notes
    BY <1>17, Zenon DEF TakeSnapshot, SaveSnapshot, LoseNotes, nodeVars
  <2>2. StoreHeight' = StoreHeight /\ Linked(blocks, StoreHeight)' /\ PendingInv' /\ CommitInv' /\ CallInv'
    BY <2>1, LinkFrame, Zenon
  <2>3. ChainInv'
    BY <2>1, <2>2, Zenon DEF LinkInv, ChainInv
  <2>4. SnapInv'
    <3>1. CASE TakeSnapshot
      BY <2>2, <3>1, Zenon DEF TakeSnapshot, LinkInv, SnapInv
    <3>2. CASE SaveSnapshot
      <4>1. /\ saving # None /\ saving' = None /\ queue' = queue
            /\ \A h \in DOMAIN snapshots' : \/ h \in DOMAIN snapshots /\ snapshots'[h] = snapshots[h]
                                            \/ h = saving.height /\ snapshots'[h] = saving.snap
        BY <3>2, SaveSnapshotIs, Zenon
      <4>2. saving.height \in 1 .. StoreHeight /\ saving.snap \in SnapshotType
        BY <4>1, Zenon DEF LinkInv, SnapInv
      <4> QED BY <2>2, <4>1, <4>2, Zenon DEF LinkInv, SnapInv
    <3>3. CASE LoseNotes
      BY <2>1, <3>3, LinkFrame, Zenon DEF LoseNotes
    <3> QED BY <1>17, <3>1, <3>2, <3>3, Zenon
  <2> QED BY <2>2, <2>3, <2>4, Zenon DEF LinkInv
<1>18. ASSUME NEW h \in notes, SetHeight(h), UNCHANGED nodeVars PROVE LinkInv'
  <2> DEFINE m == Max({h, chain.height})
  <2>1. /\ UNCHANGED <<blocks, snapshots, queue, saving, commit, pending, pool, call>>
        /\ notes' \subseteq notes /\ chain' = [chain EXCEPT !.height = m]
    BY <1>18, Zenon DEF SetHeight, nodeVars
  <2>2. h \in 0 .. StoreHeight /\ chain.height \in 0 .. StoreHeight
    BY <1>18, Zenon DEF LinkInv, ChainInv
  <2>3. m \in 0 .. StoreHeight
    BY <1>0, <2>2, MaxTwo
  <2> HIDE DEF m
  <2>4. chain'.block = chain.block /\ chain'.snap = chain.snap
    BY <1>18, SetHeightChain, Zenon
  <2>5. StoreHeight' = StoreHeight /\ Linked(blocks, StoreHeight)' /\ SnapInv' /\ PendingInv' /\ CommitInv' /\ CallInv'
    BY <2>1, <2>4, LinkFrame, Zenon
  <2>6. ChainInv'
    BY <2>1, <2>3, <2>5, Zenon DEF LinkInv, ChainInv
  <2> QED BY <2>5, <2>6, Zenon DEF LinkInv
<1>19. ASSUME NEW tx \in Tx, Submit(tx) PROVE LinkInv'
  <2>1. /\ UNCHANGED <<blocks, snapshots, chain, queue, saving, notes, commit, pending, call>>
        /\ chain.block # None /\ pool' = Append(pool, tx)
    BY <1>19, Zenon DEF Submit, chainVars
  <2>2. /\ StoreHeight' = StoreHeight /\ Linked(blocks, StoreHeight)' /\ SnapInv'
        /\ PendingInv' /\ CommitInv' /\ CallInv'
    BY <2>1, LinkFrame, Zenon
  <2>3. ChainInv'
    <3>1. pool' \in Seq(Tx)
      BY <2>1 DEF LinkInv, ChainInv
    <3> QED BY <2>1, <2>2, <3>1, Zenon DEF LinkInv, ChainInv
  <2> QED BY <2>2, <2>3, Zenon DEF LinkInv
<1>20. ASSUME UNCHANGED vars PROVE LinkInv'
  <2>1. UNCHANGED <<blocks, snapshots, chain, queue, saving, notes, commit, pending, pool, call>>
    BY <1>20, Zenon DEF vars, nodeVars, chainVars
  <2> QED BY <2>1, LinkFrame, Zenon DEF LinkInv
<1> QED
  <2> SUFFICES ASSUME [Next]_vars PROVE LinkInv' BY Zenon
  <2>1. CASE Work
    BY <2>1, <1>1, <1>2, <1>3, <1>4, <1>5, <1>6, <1>7, <1>8, <1>9, <1>10, <1>11, <1>12, <1>13,
       <1>14, <1>15, <1>16, Zenon DEF Work, MakeBlock, Generate, Returns, Commit
  <2>2. CASE ~Work
    BY <2>2, <1>4, <1>17, <1>18, <1>19, <1>20, Zenon DEF Next, Background, Crash
  <2> QED BY <2>1, <2>2, Zenon

\* The invariant holds at every step, whatever fails or crashes, as long as no
\* transaction arrives before the first block.
THEOREM LinkInvariant == ASSUME ~TxsInFirstBlock PROVE Spec => []LinkInv
<1>1. Init => LinkInv
  BY LinkInit, Zenon
<1>2. LinkInv /\ [Next]_vars => LinkInv'
  BY LinkStep, Zenon
<1> QED BY <1>1, <1>2, PTL DEF Spec

\* Table blocks holds one chain: the initial block first, no height missing,
\* every block with the hash of the one before it and a time not before its.
THEOREM ChainIsLinked == ASSUME ~TxsInFirstBlock PROVE Spec => []ChainLinked
<1>1. LinkInv => ChainLinked
  BY Zenon DEF LinkInv, Linked, ChainLinked
<1> QED BY <1>1, LinkInvariant, PTL

=============================================================================
