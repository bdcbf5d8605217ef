------------------------------- MODULE Blocks -------------------------------
(***************************************************************************)
(* Blocks and what applying them does.  A block hash is injective, so it   *)
(* is modelled by what it commits to: the headers of the chain up to and   *)
(* including the block.  The transactions merkle root is the sequence of   *)
(* transactions, the assets merkle root the set of unspent outputs (it     *)
(* does not cover the nonces).                                             *)
(***************************************************************************)
EXTENDS Snapshot, Sequences

Header == [height : Nat, ts : Nat, txs : Seq(Tx), root : SUBSET Output]
Block  == [height : Nat, prev : Seq(Header), ts : Nat, txs : Seq(Tx), root : SUBSET Output]

Hash(b) == Append(b.prev, [height |-> b.height, ts |-> b.ts, txs |-> b.txs, root |-> b.root])

\* NewInitialBlock
InitialBlock(ts) == [height |-> 1, prev |-> <<>>, ts |-> ts, txs |-> <<>>, root |-> {}]

\* The block GenerateBlock starts from when there is a previous one.
EmptyBlock(prev, ts) ==
  [height |-> prev.height + 1, prev |-> Hash(prev), ts |-> ts, txs |-> <<>>, root |-> {}]

\* ApplyBlock stops at the first transaction that fails; its callers then
\* drop the snapshot.
ApplyBlock(s, b) ==
  LET after[i \in 0 .. Len(b.txs)] ==
        IF i = 0 THEN [ok |-> TRUE, snap |-> PruneNonces(s, b.ts)]
        ELSE LET r == after[i - 1]
             IN  IF r.ok /\ CanApply(r.snap, b.txs[i])
                 THEN [ok |-> TRUE, snap |-> Applied(r.snap, b.txs[i])]
                 ELSE [r EXCEPT !.ok = FALSE]
  IN  after[Len(b.txs)]

(***************************************************************************)
(* Recover's loop: apply the blocks lo + 1 .. hi to s, checking each state *)
(* root.  ok is FALSE when a block is missing, does not apply or has       *)
(* another root.                                                           *)
(***************************************************************************)
ReplayFrom(blocks, s, lo, hi) ==
  LET after[h \in lo .. hi] ==
        IF h = lo THEN [ok |-> TRUE, snap |-> s]
        ELSE LET r == after[h - 1]
             IN  IF ~r.ok \/ h \notin DOMAIN blocks
                 THEN [r EXCEPT !.ok = FALSE]
                 ELSE LET a == ApplyBlock(r.snap, blocks[h])
                      IN  [ok |-> a.ok /\ blocks[h].root = a.snap.tree, snap |-> a.snap]
  IN  after[hi]

\* The state a chain of blocks determines.
Replay(blocks, height) == ReplayFrom(blocks, Empty, 0, height)
=============================================================================
