-------------------------- MODULE NodeLedgerProofs --------------------------
(***************************************************************************)
(* The node and its state, proved for every value of the constants.  The   *)
(* invariant of NodeProofs is taken as given.                              *)
(***************************************************************************)
EXTENDS NodeLedger, NodeProofs

-----------------------------------------------------------------------------
(***************************************************************************)
(* The state that the node keeps of its chain: Recover rebuilds it from    *)
(* the tables whenever the process ends, and the snapshot in memory is the *)
(* state of the block in memory.                                           *)
(***************************************************************************)
(* Replaying composes, and what a block of a transaction does.             *)

\* Replaying looks at the blocks up to the height only.
LEMMA ReplayLocal ==
  ASSUME NEW bl, NEW cl, NEW h \in Nat,
         \A i \in 1 .. h : i \in DOMAIN bl /\ i \in DOMAIN cl /\ bl[i] = cl[i]
  PROVE  \A k \in 0 .. h : Replay(bl, k) = Replay(cl, k)
<1> DEFINE S == {k \in Nat : k <= h => Replay(bl, k) = Replay(cl, k)}
<1>1. 0 \in S
  BY ReplayStart, Zenon DEF Replay
<1>2. ASSUME NEW k \in Nat, k \in S PROVE k + 1 \in S
  <2> SUFFICES ASSUME k + 1 <= h PROVE Replay(bl, k + 1) = Replay(cl, k + 1)
    OBVIOUS
  <2>1. Replay(bl, k) = Replay(cl, k) /\ k + 1 \in 1 .. h
    BY <1>2
  <2>2. /\ Replay(bl, k + 1) = ReplayStep(bl, Replay(bl, k), k + 1)
        /\ Replay(cl, k + 1) = ReplayStep(cl, Replay(cl, k), k + 1)
    BY ReplayNext DEF Replay
  <2>3. k + 1 \in DOMAIN bl /\ k + 1 \in DOMAIN cl /\ bl[k + 1] = cl[k + 1]
    BY <2>1, Zenon
  <2> QED BY <2>1, <2>2, <2>3 DEF ReplayStep
<1>3. \A k \in Nat : k \in S
  <2> HIDE DEF S
  <2> QED BY <1>1, <1>2, Induct, Zenon
<1> QED BY <1>3

\* One more block that applies and has the right root.
LEMMA ReplayMore ==
  ASSUME NEW bl, NEW h \in Nat, h + 1 \in DOMAIN bl, NEW s,
         Replay(bl, h).ok, ApplyBlock(Replay(bl, h).snap, bl[h + 1]) = Started(s),
         bl[h + 1].root = s.tree
  PROVE  Replay(bl, h + 1) = Started(s)
<1>1. Replay(bl, h + 1) = ReplayStep(bl, Replay(bl, h), h + 1)
  BY ReplayNext DEF Replay
<1> DEFINE a == ApplyBlock(Replay(bl, h).snap, bl[h + 1])
<1>2. Replay(bl, h + 1) = [ok |-> a.ok /\ bl[h + 1].root = a.snap.tree, snap |-> a.snap]
  BY <1>1, Zenon DEF ReplayStep
<1>3. a.ok = TRUE /\ a.snap = s
  BY DEF Started
<1>4. (a.ok /\ bl[h + 1].root = a.snap.tree) = TRUE
  BY <1>3, Zenon
<1> HIDE DEF a
<1> QED BY <1>2, <1>3, <1>4, Zenon DEF Started

\* So does the replay from the start.
LEMMA EmptyType == Empty \in SnapshotType
BY Zenon DEF Empty, SnapshotType

LEMMA ReplayResult ==
  ASSUME NEW bl, NEW h \in Nat, \A i \in DOMAIN bl : bl[i] \in Block
  PROVE  Replay(bl, h) \in Result
BY EmptyType, ReplayType DEF Replay

\* What a replay says of its last block.
LEMMA ReplayLast ==
  ASSUME NEW bl, NEW h \in Nat, \A i \in DOMAIN bl : bl[i] \in Block,
         Replay(bl, h).ok, Replay(bl, h + 1).ok
  PROVE  /\ ApplyBlock(Replay(bl, h).snap, bl[h + 1]).ok
         /\ ApplyBlock(Replay(bl, h).snap, bl[h + 1]).snap = Replay(bl, h + 1).snap
         /\ bl[h + 1].root = Replay(bl, h + 1).snap.tree
<1>1. Replay(bl, h + 1) = ReplayStep(bl, Replay(bl, h), h + 1)
  BY ReplayNext DEF Replay
<1>2. h + 1 \in DOMAIN bl
  <2> SUFFICES ASSUME h + 1 \notin DOMAIN bl PROVE FALSE
    BY Zenon
  <2>1. Replay(bl, h + 1) = [Replay(bl, h) EXCEPT !.ok = FALSE]
    BY <1>1, Zenon DEF ReplayStep
  <2>2. Replay(bl, h) \in Result
    BY ReplayResult, Zenon
  <2> QED BY <2>1, <2>2, Zenon DEF Result
<1> DEFINE a == ApplyBlock(Replay(bl, h).snap, bl[h + 1])
           q == a.ok /\ bl[h + 1].root = a.snap.tree
<1>3. Replay(bl, h + 1) = [ok |-> q, snap |-> a.snap]
  BY <1>1, <1>2, Zenon DEF ReplayStep
<1> HIDE DEF a, q
<1>4. a.snap = Replay(bl, h + 1).snap /\ q
  BY <1>3
<1> QED BY <1>4, Zenon DEF a, q

\* A result that is no error.
LEMMA OkIsStarted == ASSUME NEW r \in Result, r.ok PROVE r = Started(r.snap)
BY Zenon DEF Result, Started

\* Recover may begin at any snapshot that is the state of its height.
LEMMA ReplayCompose ==
  ASSUME NEW bl, NEW lo \in Nat, NEW hi \in Nat, lo <= hi, \A i \in DOMAIN bl : bl[i] \in Block,
         Replay(bl, lo).ok
  PROVE  ReplayFrom(bl, Replay(bl, lo).snap, lo, hi) = Replay(bl, hi)
<1> DEFINE s == Replay(bl, lo).snap
           S == {n \in Nat : ReplayFrom(bl, s, lo, lo + n) = Replay(bl, lo + n)}
<1>1. 0 \in S
  <2>1. lo + 0 = lo
    OBVIOUS
  <2>2. Replay(bl, lo) = Started(s)
    BY ReplayResult, OkIsStarted, Zenon
  <2> QED BY <2>1, <2>2, ReplayStart, Zenon
<1>2. ASSUME NEW n \in Nat, n \in S PROVE n + 1 \in S
  <2> DEFINE k == lo + n
  <2>1. k \in Nat /\ lo <= k /\ lo + (n + 1) = k + 1
    OBVIOUS
  <2>2. ReplayFrom(bl, s, lo, k) = Replay(bl, k)
    BY <1>2, Zenon
  <2> HIDE DEF k, s
  <2>3. ReplayFrom(bl, s, lo, k + 1) = ReplayStep(bl, Replay(bl, k), k + 1)
    BY <2>1, <2>2, ReplayNext
  <2>4. Replay(bl, k + 1) = ReplayStep(bl, Replay(bl, k), k + 1)
    BY <2>1, ReplayNext DEF Replay
  <2> QED BY <2>1, <2>3, <2>4
<1>3. \A n \in Nat : n \in S
  <2> HIDE DEF S
  <2> QED BY <1>1, <1>2, Induct, Zenon
<1>4. hi - lo \in Nat /\ lo + (hi - lo) = hi
  OBVIOUS
<1>5. hi - lo \in S
  BY <1>3, <1>4, Zenon
<1> QED BY <1>4, <1>5, Zenon

-----------------------------------------------------------------------------

(* The inductive invariant.                                                *)

\* s is the state after b, where b is the last of the h blocks or the next.
Fits(bl, h, b, s) ==
  /\ b.height = h + 1 => ApplyBlock(Replay(bl, h).snap, b) = Started(s)
  /\ h > 0 /\ b = bl[h] => s = Replay(bl, h).snap

IsState(bl, h, r) == r.height \in 1 .. h /\ r.snap = Replay(bl, r.height).snap

\* Every stored block applies, and every snapshot is the state of its height.
TablesFit ==
  /\ \A h \in 0 .. StoreHeight : Replay(blocks, h).ok
  /\ \A h \in DOMAIN snapshots : snapshots[h] = Replay(blocks, h).snap
  /\ queue # None => IsState(blocks, StoreHeight, queue)
  /\ saving # None => IsState(blocks, StoreHeight, saving)

ChainFits == chain.block # None => chain.snap = Replay(blocks, chain.block.height).snap

\* b applies to the state of the h blocks, and has the root of what comes out.
NextFits(bl, h, b) ==
  LET a == ApplyBlock(Replay(bl, h).snap, b) IN a.ok /\ b.root = a.snap.tree

PendingFits ==
  pending # None /\ pending.height = StoreHeight + 1 => NextFits(blocks, StoreHeight, pending)

CommitFits ==
  call.pc \in Committing =>
    /\ commit.pc = "save" => /\ Fits(blocks, StoreHeight, commit.b, commit.s)
                             /\ commit.b.height = StoreHeight + 1 => commit.b.root = commit.s.tree
    /\ commit.pc \in {"finalize", "set"} => commit.s = Replay(blocks, StoreHeight).snap

CallFits ==
  call.pc \in {"generate", "pending"} /\ call.prev # None =>
    /\ ApplyBlock(Replay(blocks, StoreHeight).snap, call.b) = Started(call.s)
    /\ call.pc = "pending" => call.b.root = call.s.tree

StateInv == TablesFit /\ ChainFits /\ PendingFits /\ CommitFits /\ CallFits

-----------------------------------------------------------------------------
(* What a step that leaves the blocks alone cannot disturb.                *)

LEMMA StateFrame ==
  ASSUME StateInv, UNCHANGED blocks
  PROVE  /\ UNCHANGED <<snapshots, queue, saving>> => TablesFit'
         /\ chain'.block = chain.block /\ chain'.snap = chain.snap => ChainFits'
         /\ pending' = pending => PendingFits'
         /\ UNCHANGED <<commit, call>> => CommitFits' /\ CallFits'
<1>1. StoreHeight' = StoreHeight
  BY Zenon DEF StoreHeight
<1>2. ASSUME UNCHANGED <<snapshots, queue, saving>> PROVE TablesFit'
  BY <1>1, <1>2, Zenon DEF StateInv, TablesFit
<1>3. ASSUME chain'.block = chain.block, chain'.snap = chain.snap PROVE ChainFits'
  BY <1>3, Zenon DEF StateInv, ChainFits
<1>4. ASSUME pending' = pending PROVE PendingFits'
  BY <1>1, <1>4, Zenon DEF StateInv, PendingFits
<1>5. ASSUME UNCHANGED <<commit, call>> PROVE CommitFits' /\ CallFits'
  BY <1>1, <1>5, Zenon DEF StateInv, CommitFits, CallFits
<1> QED BY <1>2, <1>3, <1>4, <1>5, Zenon

\* A call that waits, or that waits for CommitAppliedBlock, promises nothing.
\* A call that holds no block.
LEMMA StateParked ==
  ASSUME NEW w \in {"down", "start", "idle", "recover", "commit"}, call' = At(w)
  PROVE  CallFits' /\ (w \notin Committing => CommitFits')
<1>1. call'.pc = w
  BY AtType, Zenon DEF Where
<1>2. CallFits'
  BY <1>1, Zenon DEF CallFits
<1>3. ASSUME w \notin Committing PROVE CommitFits'
  BY <1>1, <1>3, Zenon DEF CommitFits
<1> QED BY <1>2, <1>3, Zenon

-----------------------------------------------------------------------------
(* It is inductive.                                                        *)

LEMMA StateInit == ASSUME Init PROVE StateInv
<1> USE DEF Init, ChainInit
<1>1. StoreHeight = 0
  <2>1. DOMAIN blocks \cup {0} = (1 .. 0) \cup {0}
    OBVIOUS
  <2> QED BY <2>1, MaxUpTo, Zenon DEF StoreHeight
<1>2. Replay(blocks, 0) = Started(Empty)
  BY ReplayStart, Zenon DEF Replay
<1>3. TablesFit
  BY <1>1, <1>2 DEF TablesFit, Started
<1> QED BY <1>3, Zenon DEF StateInv, ChainFits, PendingFits, CommitFits, CallFits, NoState, At, Committing

\* Recover rebuilds the state of the last block.
LEMMA RecoveredIs ==
  ASSUME LinkInv, StateInv
  PROVE  Recovered.ok /\ Recovered.snap = Replay(blocks, StoreHeight).snap
<1> DEFINE s == IF SnapshotHeight = 0 THEN Empty ELSE snapshots[SnapshotHeight]
           r == ReplayFrom(blocks, s, SnapshotHeight, StoreHeight)
           q == r.ok /\ (SnapshotHeight > 0 => SnapshotHeight \in DOMAIN blocks)
<1>1. SnapshotHeight \in 0 .. StoreHeight /\ SnapshotHeight \in DOMAIN snapshots \cup {0}
  <2>1. DOMAIN snapshots \cup {0} \subseteq 0 .. StoreHeight /\ StoreHeight \in Nat
    BY DEF LinkInv, SnapInv, Linked
  <2> QED BY <2>1, MaxBounded, Zenon DEF SnapshotHeight
<1>2. StoreHeight \in Nat /\ DOMAIN blocks = 1 .. StoreHeight /\ \A i \in DOMAIN blocks : blocks[i] \in Block
  BY Zenon DEF LinkInv, Linked
<1>3. s = Replay(blocks, SnapshotHeight).snap /\ Replay(blocks, SnapshotHeight).ok
  <2>1. Replay(blocks, 0) = Started(Empty)
    BY ReplayStart, Zenon DEF Replay
  <2> QED BY <1>1, <2>1 DEF StateInv, TablesFit, Started
<1> HIDE DEF s
<1>4. r = Replay(blocks, StoreHeight)
  BY <1>1, <1>2, <1>3, ReplayCompose
<1>5. q
  BY <1>1, <1>2, <1>4 DEF StateInv, TablesFit
<1>6. Recovered = [ok |-> q, snap |-> r.snap]
  BY Zenon DEF Recovered, s
<1> HIDE DEF q, r
<1> QED BY <1>4, <1>5, <1>6, Zenon

\* One step per action, and under it one per conjunct that it can disturb.
LEMMA StateStep ==
  ASSUME SingleSource, LinkInv, LinkInv', StateInv
  PROVE  [Next]_vars => StateInv'
<1> DEFINE Held == Replay(blocks, StoreHeight).snap
<1>0. /\ StoreHeight \in Nat /\ DOMAIN blocks = 1 .. StoreHeight
      /\ \A i \in DOMAIN blocks : blocks[i] \in Block /\ blocks[i].height = i
  BY Zenon DEF LinkInv, Linked
<1>1. ASSUME blocks' = blocks PROVE StoreHeight' = StoreHeight
  BY <1>1, Zenon DEF StoreHeight
<1>2. ASSUME Start PROVE StateInv'
  <2>1. /\ UNCHANGED <<blocks, snapshots, queue, saving, commit, pending>>
        /\ call.pc = "down" /\ chain' = [block |-> None, snap |-> None, height |-> StoreHeight]
        /\ \E w \in {"start", "idle"} : call' = At(w)
    BY <1>2, Zenon DEF Start, NewChain, NoState, Goto
  <2>2. commit = None
    BY <2>1, Zenon DEF LinkInv, CommitInv, Committing
  <2>3. TablesFit' /\ PendingFits'
    BY <2>1, StateFrame, Zenon
  <2>4. ChainFits'
    BY <2>1, Zenon DEF ChainFits
  <2>5. CommitFits' /\ CallFits'
    BY <2>1, <2>2, StateParked, Zenon DEF Committing
  <2> QED BY <2>3, <2>4, <2>5, Zenon DEF StateInv
<1>3. ASSUME RecoverChain PROVE StateInv'
  <2>1. /\ UNCHANGED <<blocks, snapshots, chain, queue, saving, pending>> /\ call.pc = "start"
        /\ \/ StoreHeight = 0 /\ call' = At("idle") /\ commit' = commit
           \/ /\ StoreHeight # 0 /\ call' = At("recover")
              /\ commit' = [pc |-> "save", b |-> blocks[StoreHeight], s |-> Recovered.snap]
    BY <1>3, Zenon DEF RecoverChain, Recover, CommitAppliedBlock, Goto, chainVars
  <2>2. TablesFit' /\ ChainFits' /\ PendingFits'
    BY <2>1, StateFrame, Zenon
  <2>3. CallFits'
    BY <2>1, StateParked, Zenon
  <2>4. CommitFits'
    <3>1. CASE StoreHeight = 0
      <4>1. commit' = None
        BY <2>1, <3>1, Zenon DEF LinkInv, CommitInv, Committing
      <4> QED BY <2>1, <3>1, <4>1, StateParked, Zenon DEF Committing
    <3>2. CASE StoreHeight # 0
      <4>1. Recovered.snap = Held
        BY RecoveredIs, Zenon
      <4>2. blocks[StoreHeight].height = StoreHeight
        BY <1>0, <3>2
      <4>3. Fits(blocks, StoreHeight, blocks[StoreHeight], Recovered.snap)
        BY <1>0, <4>1, <4>2 DEF Fits
      <4> QED BY <1>0, <1>1, <2>1, <3>2, <4>2, <4>3 DEF CommitFits
    <3> QED BY <3>1, <3>2, Zenon
  <2> QED BY <2>2, <2>3, <2>4, Zenon DEF StateInv
<1>4. ASSUME NEW ts \in Timestamp, BeginBlock(ts) PROVE StateInv'
  <2>1. UNCHANGED <<blocks, snapshots, chain, queue, saving, pending>> /\ call' = [At("block") EXCEPT !.time = ts]
    BY <1>4, Zenon DEF BeginBlock, chainVars
  <2>2. TablesFit' /\ ChainFits' /\ PendingFits'
    BY <2>1, StateFrame, Zenon
  <2>3. call'.pc = "block"
    BY <2>1, Zenon DEF At
  <2>4. CommitFits' /\ CallFits'
    BY <2>3, Zenon DEF CommitFits, CallFits, Committing
  <2> QED BY <2>2, <2>4, Zenon DEF StateInv
<1>5. ASSUME Stop PROVE StateInv'
  <2>1. /\ UNCHANGED <<blocks, snapshots, pending>> /\ queue' = None /\ saving' = None
        /\ commit' = None /\ call' = At("down") /\ chain' = [block |-> None, snap |-> None, height |-> 0]
    BY <1>5, Zenon DEF Stop, LoseMemory, NoState, Goto
  <2>2. PendingFits'
    BY <2>1, StateFrame, Zenon
  <2>3. TablesFit'
    BY <1>1, <2>1, Zenon DEF StateInv, TablesFit
  <2>4. ChainFits'
    BY <2>1, Zenon DEF ChainFits
  <2>5. CommitFits' /\ CallFits'
    BY <2>1, StateParked, Zenon DEF Committing
  <2> QED BY <2>2, <2>3, <2>4, <2>5, Zenon DEF StateInv
<1>6. ASSUME MakeBlockError PROVE StateInv'
  <2>1. /\ UNCHANGED <<blocks, snapshots, chain, queue, saving, commit, pending>>
        /\ call.pc = "block" /\ call' = At("idle")
    BY <1>6, Zenon DEF MakeBlockError, Goto
  <2>2. commit' = None
    BY <2>1, Zenon DEF LinkInv, CommitInv, Committing
  <2>3. TablesFit' /\ ChainFits' /\ PendingFits'
    BY <2>1, StateFrame, Zenon
  <2>4. CommitFits' /\ CallFits'
    BY <2>1, <2>2, StateParked, Zenon DEF Committing
  <2> QED BY <2>3, <2>4, Zenon DEF StateInv
<1>7. ASSUME MakeBlockPending, ~Stop PROVE StateInv'
  <2> DEFINE a == ApplyBlock(chain.snap, pending)
  <2>1. /\ UNCHANGED <<blocks, snapshots, chain, queue, saving, pending>>
        /\ chain.snap # None /\ a.ok
        /\ pending # None /\ (chain.block # None => pending.height = chain.block.height + 1)
        /\ call' = At("commit") /\ commit' = [pc |-> "save", b |-> pending, s |-> a.snap]
    BY <1>7, Zenon DEF MakeBlockPending, HavePending, CommitAppliedBlock, Goto
  <2>2. TablesFit' /\ ChainFits' /\ PendingFits'
    BY <2>1, StateFrame, Zenon
  <2>3. CallFits'
    BY <2>1, StateParked, Zenon
  <2>4. /\ chain.block # None /\ chain.snap \in SnapshotType
        /\ chain.block.height \in 1 .. StoreHeight /\ chain.block.height \in {StoreHeight - 1, StoreHeight}
    BY <2>1, Zenon DEF LinkInv, ChainInv
  <2>5. pending \in Block /\ pending.height = chain.block.height + 1
    BY <2>1, <2>4, Zenon DEF LinkInv, PendingInv
  <2>6. chain.snap = Replay(blocks, chain.block.height).snap
    BY <2>4, Zenon DEF StateInv, ChainFits
  <2>7. a = Started(a.snap)
    BY <2>1, <2>4, <2>5, ApplyType, OkIsStarted, Zenon
  <2> HIDE DEF a
  <2>8. Fits(blocks, StoreHeight, pending, a.snap) /\ (pending.height = StoreHeight + 1 => pending.root = a.snap.tree)
    <3>1. CASE chain.block.height = StoreHeight
      <4>1. pending.height = StoreHeight + 1 /\ a = ApplyBlock(Held, pending)
        BY <2>5, <2>6, <3>1, Zenon DEF a
      <4>2. pending.root = a.snap.tree
        BY <2>1, <4>1, Zenon DEF StateInv, PendingFits, NextFits
      <4>3. StoreHeight > 0 => pending # blocks[StoreHeight]
        BY <1>0, <4>1
      <4> QED BY <2>7, <4>1, <4>2, <4>3, Zenon DEF Fits
    <3>2. CASE chain.block.height = StoreHeight - 1
      <4> DEFINE h == StoreHeight - 1
      <4>1. pending.height = StoreHeight /\ h \in Nat /\ h + 1 = StoreHeight
        BY <1>0, <2>4, <2>5, <3>2
      <4>2. pending = blocks[StoreHeight]
        BY <1>0, <2>1, <2>4, <4>1 DEF LinkInv, PendingInv, Extends
      <4>3. Replay(blocks, h).ok /\ Replay(blocks, h + 1).ok
        BY <1>0, <4>1 DEF StateInv, TablesFit
      <4>4. ApplyBlock(Replay(blocks, h).snap, blocks[h + 1]).snap = Replay(blocks, h + 1).snap
        BY <1>0, <4>1, <4>3, ReplayLast, Zenon
      <4>5. a.snap = Held
        BY <2>6, <3>2, <4>1, <4>2, <4>4, Zenon DEF a
      <4> QED BY <1>0, <4>1, <4>5 DEF Fits
    <3> QED BY <2>4, <3>1, <3>2, Zenon
  <2>9. CommitFits'
    BY <1>1, <2>1, <2>8, Zenon DEF CommitFits
  <2> QED BY <2>2, <2>3, <2>9, Zenon DEF StateInv
<1>8. ASSUME MakeBlockInitial PROVE StateInv'
  <2> DEFINE b == InitialBlock(call.time)
  <2>1. /\ UNCHANGED <<blocks, snapshots, chain, queue, saving, pending>>
        /\ chain.block = None /\ pending = None
        /\ commit' = [pc |-> "save", b |-> b, s |-> Empty]
        /\ call' = [At("initial") EXCEPT !.b = b, !.todo = pool]
    BY <1>8, Zenon DEF MakeBlockInitial, HavePending, CommitAppliedBlock
  <2>2. b = InitialBlock(b.ts) /\ b.height = 1
    BY Zenon DEF InitialBlock
  <2> HIDE DEF b
  <2>3. TablesFit' /\ ChainFits' /\ PendingFits'
    BY <2>1, StateFrame, Zenon
  <2>4. CallFits'
    <3>1. call'.pc = "initial"
      BY <2>1, Zenon DEF At
    <3> QED BY <3>1, Zenon DEF CallFits
  <2>5. ApplyBlock(Empty, b) = Started(Empty) /\ b.root = Empty.tree
    BY <2>2, ApplyInitial, Zenon
  <2>6. Replay(blocks, 0) = Started(Empty)
    BY ReplayStart, Zenon DEF Replay
  <2>7. Held = Empty
    <3>1. StoreHeight \in {0, 1}
      BY <1>0, <2>1 DEF LinkInv, PendingInv
    <3>2. CASE StoreHeight = 0
      BY <2>6, <3>2 DEF Started
    <3>3. CASE StoreHeight = 1
      <4>1. 0 + 1 = 1 /\ 1 \in DOMAIN blocks /\ blocks[1] = InitialBlock(blocks[1].ts)
        BY <1>0, <3>3 DEF LinkInv, Linked
      <4>2. ApplyBlock(Empty, blocks[1]) = Started(Empty) /\ blocks[1].root = Empty.tree
        BY <4>1, ApplyInitial, Zenon
      <4>3. Replay(blocks, 0).ok /\ Replay(blocks, 0).snap = Empty
        BY <2>6 DEF Started
      <4>4. Replay(blocks, 1) = Started(Empty)
        BY <4>1, <4>2, <4>3, ReplayMore, Zenon
      <4> QED BY <3>3, <4>4 DEF Started
    <3> QED BY <3>1, <3>2, <3>3, Zenon
  <2>8. Fits(blocks, StoreHeight, b, Empty)
    BY <2>5, <2>7, Zenon DEF Fits
  <2>9. CommitFits'
    BY <1>1, <2>1, <2>5, <2>8, Zenon DEF CommitFits
  <2> QED BY <2>3, <2>4, <2>9, Zenon DEF StateInv
<1>9. ASSUME MakeBlockNext PROVE StateInv'
  <2> DEFINE b == EmptyBlock(chain.block, call.time)
             s == PruneNonces(chain.snap, call.time)
             late == call.time < chain.block.ts
             c == [pc |-> "generate", time |-> 0, b |-> b, s |-> s, prev |-> chain.block, todo |-> pool]
  <2>1. /\ UNCHANGED <<blocks, snapshots, chain, queue, saving, commit, pending>>
        /\ call.pc = "block" /\ chain.block # None /\ call' = IF late THEN At("idle") ELSE c
    BY <1>9, Zenon DEF MakeBlockNext, Goto, chainVars
  <2>2. TablesFit' /\ ChainFits' /\ PendingFits'
    BY <2>1, StateFrame, Zenon
  <2>3. commit' = None
    BY <2>1, Zenon DEF LinkInv, CommitInv, Committing
  <2>4. CASE late
    <3>1. CommitFits' /\ CallFits'
      BY <2>1, <2>3, <2>4, StateParked, Zenon DEF Committing
    <3> QED BY <2>2, <3>1, Zenon DEF StateInv
  <2>5. CASE ~late
    <3>1. call' = c
      BY <2>1, <2>5, Zenon
    <3>2. b.txs = <<>> /\ b.ts = call.time
      BY Zenon DEF EmptyBlock
    <3> HIDE DEF b
    <3>3. ApplyBlock(chain.snap, b) = Started(s)
      BY <3>2, ApplyEmptyBlock, Zenon
    <3> HIDE DEF s
    <3>4. call'.pc = "generate" /\ call'.b = b /\ call'.s = s /\ call'.prev = chain.block
      BY <3>1, Zenon
    <3> HIDE DEF c
    <3>5. chain.block.height = StoreHeight
      BY <1>1, <2>1, <3>4, Zenon DEF LinkInv, CallInv
    <3>6. chain.snap = Held
      BY <2>1, <3>5, Zenon DEF StateInv, ChainFits
    <3>7. CommitFits'
      BY <3>4, Zenon DEF CommitFits, Committing
    <3>8. CallFits'
      BY <1>1, <2>1, <3>3, <3>4, <3>6, Zenon DEF CallFits
    <3> QED BY <2>2, <3>7, <3>8, Zenon DEF StateInv
  <2> QED BY <2>4, <2>5, Zenon
<1>10. ASSUME GenerateTx PROVE StateInv'
  <2> DEFINE tx == Head(call.todo)
  <2>1. /\ UNCHANGED <<blocks, snapshots, chain, queue, saving, pending>>
        /\ call.pc = "generate" /\ call.prev # None /\ call.b \in Block /\ call.s \in SnapshotType /\ tx \in Tx
    BY <1>10, GenerateTxCases, Zenon DEF chainVars
  <2>2. \/ CanApply(call.s, tx) /\ Stepped(call', call, WithTx(call.b, tx), Applied(call.s, tx))
        \/ ~CanApply(call.s, tx) /\ \E s \in FailedApply(call.s, tx) : Stepped(call', call, call.b, s)
        \/ Stepped(call', call, call.b, call.s)
    BY <1>10, GenerateTxCases, Zenon
  <2> HIDE DEF tx
  <2>3. TablesFit' /\ ChainFits' /\ PendingFits'
    BY <2>1, StateFrame, Zenon
  <2>4. ApplyBlock(Held, call.b) = Started(call.s)
    BY <2>1, Zenon DEF StateInv, CallFits
  <2>5. ApplyBlock(Held, call'.b) = Started(call'.s) /\ call'.pc = "generate"
    <3>1. CASE CanApply(call.s, tx) /\ Stepped(call', call, WithTx(call.b, tx), Applied(call.s, tx))
      <4>1. ApplyBlock(Held, WithTx(call.b, tx)) = Started(Applied(call.s, tx))
        BY <2>1, <2>4, <3>1, ApplyWithTx
      <4> QED BY <2>1, <3>1, <4>1, Zenon DEF Stepped
    <3>2. CASE ~CanApply(call.s, tx) /\ \E s \in FailedApply(call.s, tx) : Stepped(call', call, call.b, s)
      <4>1. Stepped(call', call, call.b, call.s)
        BY <2>1, <3>2, FailedChangesNothing, Zenon
      <4> QED BY <2>1, <2>4, <4>1, Zenon DEF Stepped
    <3>3. CASE Stepped(call', call, call.b, call.s)
      BY <2>1, <2>4, <3>3, Zenon DEF Stepped
    <3> QED BY <2>2, <3>1, <3>2, <3>3, Zenon
  <2>6. CommitFits' /\ CallFits'
    BY <1>1, <2>1, <2>5, Zenon DEF CommitFits, CallFits, Committing
  <2> QED BY <2>3, <2>6, Zenon DEF StateInv
<1>11. ASSUME GenerateDone PROVE StateInv'
  <2> DEFINE b == WithRoot(call.b, call.s.tree)
  <2>1. /\ UNCHANGED <<blocks, snapshots, chain, queue, saving, commit, pending>>
        /\ call.pc = "generate" /\ call.b \in Block /\ call.s \in SnapshotType
        /\ \/ call' = At("idle")
           \/ call'.pc = "pending" /\ call'.s = call.s /\ call.prev # None /\ call'.b = b
    BY <1>11, GenerateDoneCases, Zenon DEF chainVars
  <2>2. TablesFit' /\ ChainFits' /\ PendingFits'
    BY <2>1, StateFrame, Zenon
  <2>3. commit' = None
    BY <2>1, Zenon DEF LinkInv, CommitInv, Committing
  <2>4. CASE call' = At("idle")
    <3>1. CommitFits' /\ CallFits'
      BY <2>3, <2>4, StateParked, Zenon DEF Committing
    <3> QED BY <2>2, <3>1, Zenon DEF StateInv
  <2>5. CASE call' # At("idle")
    <3>1. b.root = call.s.tree /\ \A s : ApplyBlock(s, b) = ApplyBlock(s, call.b)
      <4>1. call.s.tree \in SUBSET Output
        BY <2>1, Zenon DEF SnapshotType
      <4> QED BY <2>1, <4>1, WithRootType, ApplyWithRoot
    <3> HIDE DEF b
    <3>2. ApplyBlock(Held, call.b) = Started(call.s)
      BY <2>1, <2>5, Zenon DEF StateInv, CallFits
    <3>3. CommitFits'
      BY <2>1, <2>5, Zenon DEF CommitFits, Committing
    <3>4. CallFits'
      BY <1>1, <2>1, <2>5, <3>1, <3>2, Zenon DEF CallFits
    <3> QED BY <2>2, <3>3, <3>4, Zenon DEF StateInv
  <2> QED BY <2>4, <2>5, Zenon
<1>12. ASSUME SavePending PROVE StateInv'
  <2>1. /\ UNCHANGED <<blocks, snapshots, chain, queue, saving>> /\ call.pc = "pending"
        /\ \/ /\ call' = At("commit") /\ pending' = call.b
              /\ commit' = [pc |-> "save", b |-> call.b, s |-> call.s]
           \/ call' = At("idle") /\ pending' \in {pending, call.b} /\ commit' = commit
    BY <1>12, Zenon DEF SavePending, CommitAppliedBlock, Goto
  <2>2. TablesFit' /\ ChainFits'
    BY <2>1, StateFrame, Zenon
  <2>3. CallFits'
    BY <2>1, StateParked, Zenon
  <2>4. call.prev # None /\ Extends(blocks, StoreHeight, call.b) /\ commit = None
    BY <2>1, Zenon DEF LinkInv, CallInv, CommitInv, Committing
  <2>5. ApplyBlock(Held, call.b) = Started(call.s) /\ call.b.root = call.s.tree
    BY <2>1, <2>4, Zenon DEF StateInv, CallFits
  <2>6. PendingFits'
    <3>1. NextFits(blocks, StoreHeight, call.b)
      BY <2>5 DEF NextFits, Started
    <3>2. CASE pending' = pending
      BY <2>1, <3>2, StateFrame, Zenon
    <3>3. CASE pending' = call.b
      BY <1>1, <2>1, <3>1, <3>3, Zenon DEF PendingFits
    <3> QED BY <2>1, <3>2, <3>3, Zenon
  <2>7. CommitFits'
    <3>1. CASE call' = At("idle") /\ commit' = commit
      BY <2>4, <3>1, StateParked, Zenon DEF Committing
    <3>2. CASE commit' = [pc |-> "save", b |-> call.b, s |-> call.s]
      <4>1. call.b.height = StoreHeight + 1
        BY <2>4, Zenon DEF Extends
      <4>2. StoreHeight > 0 => call.b # blocks[StoreHeight]
        BY <1>0, <4>1
      <4>3. Fits(blocks, StoreHeight, call.b, call.s)
        BY <2>5, <4>2, Zenon DEF Fits
      <4> QED BY <1>1, <2>1, <2>5, <3>2, <4>3, Zenon DEF CommitFits
    <3> QED BY <2>1, <3>1, <3>2, Zenon
  <2> QED BY <2>2, <2>3, <2>6, <2>7, Zenon DEF StateInv
<1>13. ASSUME RecoverReturns \/ CommitReturns, ~Stop PROVE StateInv'
  <2>1. /\ UNCHANGED <<blocks, snapshots, chain, queue, saving, pending>>
        /\ commit' = None /\ call' = At("idle")
    BY <1>13, Zenon DEF RecoverReturns, CommitReturns, Goto
  <2>2. TablesFit' /\ ChainFits' /\ PendingFits'
    BY <2>1, StateFrame, Zenon
  <2>3. CommitFits' /\ CallFits'
    BY <2>1, StateParked, Zenon DEF Committing
  <2> QED BY <2>2, <2>3, Zenon DEF StateInv
<1>14. ASSUME InitialReturns PROVE StateInv'
  <2> DEFINE s == PruneNonces(chain.snap, call.b.ts)
  <2>1. /\ UNCHANGED <<blocks, snapshots, chain, queue, saving, pending>>
        /\ call.pc = "initial" /\ commit' = None
        /\ \/ call' = At("idle")
           \/ call' = [call EXCEPT !.pc = "generate", !.s = s]
    BY <1>14, Zenon DEF InitialReturns, Goto
  <2> HIDE DEF s
  <2>2. TablesFit' /\ ChainFits' /\ PendingFits'
    BY <2>1, StateFrame, Zenon
  <2>3. CASE call' = At("idle")
    <3>1. CommitFits' /\ CallFits'
      BY <2>1, <2>3, StateParked, Zenon DEF Committing
    <3> QED BY <2>2, <3>1, Zenon DEF StateInv
  <2>4. CASE call' # At("idle")
    <3>1. call \in CallType /\ call.prev = None
      BY <2>1, Zenon DEF LinkInv, CallInv
    <3>2. call'.pc = "generate" /\ call'.prev = None
      BY <2>1, <2>4, <3>1, Zenon DEF CallType
    <3>3. CommitFits' /\ CallFits'
      BY <3>2, Zenon DEF CommitFits, CallFits, Committing
    <3> QED BY <2>2, <3>3, Zenon DEF StateInv
  <2> QED BY <2>3, <2>4, Zenon
<1>15. ASSUME SaveBlock, UNCHANGED nodeVars PROVE StateInv'
  <2>1. /\ call.pc \in Committing /\ commit.pc = "save"
        /\ UNCHANGED <<snapshots, chain, saving, pending, call>>
        /\ commit'.b = commit.b /\ commit'.s = commit.s /\ commit'.pc \in {"finalize", "error"}
        /\ queue' = queue \/ queue' = [height |-> commit.b.height, snap |-> commit.s]
        /\ commit'.pc = "error" => queue' = queue
    BY <1>15, SaveBlockCases, Zenon
  <2>2. /\ Fits(blocks, StoreHeight, commit.b, commit.s)
        /\ commit.b.height = StoreHeight + 1 => commit.b.root = commit.s.tree
    BY <2>1, Zenon DEF StateInv, CommitFits
  <2>3. CallFits'
    BY <2>1, Zenon DEF CallFits, Committing
  <2>4. CASE /\ blocks' = blocks
             /\ commit'.pc = "finalize" => /\ StoreHeight > 0 /\ commit.b = blocks[StoreHeight]
                                           /\ commit.b.height = StoreHeight
    <3>1. ChainFits' /\ PendingFits'
      BY <2>1, <2>4, StateFrame, Zenon
    <3>2. commit'.pc = "finalize" => commit.s = Held
      BY <2>2, <2>4, Zenon DEF Fits
    <3>3. CommitFits'
      BY <1>1, <2>1, <2>4, <3>2, Zenon DEF CommitFits
    <3>4. queue' # None => IsState(blocks, StoreHeight, queue')
      <4>1. CASE queue' = queue
        BY <4>1, Zenon DEF StateInv, TablesFit
      <4>2. CASE queue' # queue
        <5>1. commit'.pc = "finalize" /\ queue' = [height |-> commit.b.height, snap |-> commit.s]
          BY <2>1, <4>2, Zenon
        <5> QED BY <1>0, <2>4, <3>2, <5>1 DEF IsState
      <4> QED BY <4>1, <4>2, Zenon
    <3>5. TablesFit'
      BY <1>1, <2>1, <2>4, <3>4, Zenon DEF StateInv, TablesFit
    <3> QED BY <2>3, <3>1, <3>3, <3>5, Zenon DEF StateInv
  <2>5. CASE /\ Extends(blocks, StoreHeight, commit.b)
             /\ StoreHeight > 0 => pending = commit.b
             /\ Linked(blocks', StoreHeight + 1) /\ StoreHeight' = StoreHeight + 1
             /\ blocks'[StoreHeight + 1] = commit.b
             /\ \A i \in 1 .. StoreHeight : blocks'[i] = blocks[i]
    <3> DEFINE n == StoreHeight
    <3>1. commit.b.height = n + 1
      BY <2>5, Zenon DEF Extends
    <3>2. DOMAIN blocks' = 1 .. (n + 1) /\ n + 1 \in DOMAIN blocks'
      BY <1>0, <2>5 DEF Linked
    <3>3. \A k \in 0 .. n : Replay(blocks', k) = Replay(blocks, k)
      <4>1. \A i \in 1 .. n : i \in DOMAIN blocks' /\ i \in DOMAIN blocks /\ blocks'[i] = blocks[i]
        BY <1>0, <2>5, <3>2
      <4> QED BY <1>0, <4>1, ReplayLocal, Zenon
    <3>4. Replay(blocks', n) = Replay(blocks, n) /\ Replay(blocks, n).ok
      BY <1>0, <3>3 DEF StateInv, TablesFit
    <3>5. ApplyBlock(Held, commit.b) = Started(commit.s) /\ commit.b.root = commit.s.tree
      BY <2>2, <3>1, Zenon DEF Fits
    <3>6. Replay(blocks', n + 1) = Started(commit.s)
      BY <1>0, <2>5, <3>2, <3>4, <3>5, ReplayMore
    <3>7. Replay(blocks', n + 1).ok /\ Replay(blocks', n + 1).snap = commit.s
      BY <3>6 DEF Started
    <3>8. ASSUME NEW r, IsState(blocks, n, r) PROVE IsState(blocks', n + 1, r)
      BY <1>0, <3>3, <3>8 DEF IsState
    <3>9. TablesFit'
      <4>1. \A h \in 0 .. (n + 1) : Replay(blocks', h).ok
        BY <1>0, <3>3, <3>7 DEF StateInv, TablesFit
      <4>2. \A h \in DOMAIN snapshots : snapshots[h] = Replay(blocks', h).snap
        <5>1. DOMAIN snapshots \subseteq 0 .. n
          BY <1>0 DEF LinkInv, SnapInv
        <5> QED BY <3>3, <5>1, Zenon DEF StateInv, TablesFit
      <4>3. saving # None => IsState(blocks', n + 1, saving)
        BY <3>8, Zenon DEF StateInv, TablesFit
      <4>4. queue' # None => IsState(blocks', n + 1, queue')
        <5>1. CASE queue' = queue
          BY <3>8, <5>1, Zenon DEF StateInv, TablesFit
        <5>2. CASE queue' = [height |-> commit.b.height, snap |-> commit.s]
          BY <1>0, <3>1, <3>7, <5>2 DEF IsState
        <5> QED BY <2>1, <5>1, <5>2, Zenon
      <4> QED BY <2>1, <2>5, <4>1, <4>2, <4>3, <4>4, Zenon DEF TablesFit
    <3>10. ChainFits'
      <4>1. chain.block # None => chain.block.height \in 0 .. n
        BY <1>0 DEF LinkInv, ChainInv
      <4> QED BY <2>1, <3>3, <4>1, Zenon DEF StateInv, ChainFits
    <3>11. PendingFits'
      <4>1. pending # None => pending.height # (n + 1) + 1
        BY <1>0, <2>5, <3>1 DEF LinkInv, PendingInv
      <4> QED BY <2>1, <2>5, <4>1, Zenon DEF PendingFits
    <3>12. CommitFits'
      BY <2>1, <2>5, <3>7, Zenon DEF CommitFits
    <3> QED BY <2>3, <3>9, <3>10, <3>11, <3>12, Zenon DEF StateInv
  <2> QED BY <1>15, <2>4, <2>5, SaveBlockCases, Zenon
<1>16. ASSUME FinalizeBlock, UNCHANGED nodeVars PROVE StateInv'
  <2>1. /\ UNCHANGED <<blocks, snapshots, chain, queue, saving, pending, call>>
        /\ commit # None /\ commit.pc = "finalize"
        /\ commit' \in {[commit EXCEPT !.pc = "set"], [commit EXCEPT !.pc = "error"]}
    BY <1>16, Zenon DEF FinalizeBlock, CommitTo, nodeVars
  <2>2. /\ call.pc \in Committing
        /\ commit \in [pc : {"save", "finalize", "set", "done", "error"}, b : Block, s : SnapshotType]
    BY <2>1, Zenon DEF LinkInv, CommitInv
  <2>3. commit'.s = commit.s /\ commit'.pc \in {"set", "error"}
    BY <2>1, <2>2, Zenon
  <2>4. TablesFit' /\ ChainFits' /\ PendingFits'
    BY <2>1, StateFrame, Zenon
  <2>5. CommitFits' /\ CallFits'
    BY <1>1, <2>1, <2>2, <2>3, Zenon DEF StateInv, CommitFits, CallFits
  <2> QED BY <2>4, <2>5, Zenon DEF StateInv
<1>17. ASSUME SetState, UNCHANGED nodeVars PROVE StateInv'
  <2>1. /\ UNCHANGED <<blocks, snapshots, queue, saving, pending, call>>
        /\ commit # None /\ commit.pc = "set" /\ commit' = [commit EXCEPT !.pc = "done"]
        /\ chain'.block = commit.b /\ chain'.snap = commit.s
    BY <1>17, Zenon DEF SetState, CommitTo, nodeVars
  <2>2. /\ call.pc \in Committing /\ StoreHeight > 0 /\ commit.b = blocks[StoreHeight]
        /\ commit \in [pc : {"save", "finalize", "set", "done", "error"}, b : Block, s : SnapshotType]
    BY <2>1, Zenon DEF LinkInv, CommitInv
  <2>3. commit'.pc = "done"
    BY <2>1, <2>2, Zenon
  <2>4. TablesFit' /\ PendingFits'
    BY <2>1, StateFrame, Zenon
  <2>5. ChainFits'
    <3>1. commit.b.height = StoreHeight /\ commit.s = Held
      BY <1>0, <2>1, <2>2 DEF StateInv, CommitFits
    <3> QED BY <2>1, <3>1, Zenon DEF ChainFits
  <2>6. CommitFits' /\ CallFits'
    BY <1>1, <2>1, <2>3, Zenon DEF StateInv, CommitFits, CallFits
  <2> QED BY <2>4, <2>5, <2>6, Zenon DEF StateInv
<1>18. ASSUME TakeSnapshot \/ SaveSnapshot \/ LoseNotes, UNCHANGED nodeVars PROVE StateInv'
  <2>1. UNCHANGED <<blocks, chain, commit, pending, call>>
    BY <1>18, Zenon DEF TakeSnapshot, SaveSnapshot, LoseNotes, nodeVars
  <2>2. ChainFits' /\ PendingFits' /\ CommitFits' /\ CallFits'
    BY <2>1, StateFrame, Zenon
  <2>3. TablesFit'
    <3>1. CASE TakeSnapshot
      BY <1>1, <2>1, <3>1, Zenon DEF TakeSnapshot, StateInv, TablesFit
    <3>2. CASE SaveSnapshot
      <4>1. /\ saving # None /\ saving' = None /\ queue' = queue
            /\ \A h \in DOMAIN snapshots' : \/ h \in DOMAIN snapshots /\ snapshots'[h] = snapshots[h]
                                            \/ h = saving.height /\ snapshots'[h] = saving.snap
        BY <3>2, SaveSnapshotIs, Zenon
      <4>2. saving.snap = Replay(blocks, saving.height).snap
        BY <4>1, Zenon DEF StateInv, TablesFit, IsState
      <4>3. \A h \in DOMAIN snapshots : snapshots[h] = Replay(blocks, h).snap
        BY Zenon DEF StateInv, TablesFit
      <4>4. \A h \in DOMAIN snapshots' : snapshots'[h] = Replay(blocks, h).snap
        BY <4>1, <4>2, <4>3, Zenon
      <4>5. StoreHeight' = StoreHeight
        BY <1>1, <2>1, Zenon
      <4> QED BY <2>1, <4>1, <4>4, <4>5, Zenon DEF StateInv, TablesFit
    <3>3. CASE LoseNotes
      BY <2>1, <3>3, StateFrame, Zenon DEF LoseNotes
    <3> QED BY <1>18, <3>1, <3>2, <3>3, Zenon
  <2> QED BY <2>2, <2>3, Zenon DEF StateInv
<1>19. ASSUME NEW h \in notes, SetHeight(h), UNCHANGED nodeVars PROVE StateInv'
  <2>1. UNCHANGED <<blocks, snapshots, queue, saving, commit, pending, call>>
    BY <1>19, Zenon DEF SetHeight, nodeVars
  <2>2. chain'.block = chain.block /\ chain'.snap = chain.snap
    BY <1>19, SetHeightChain, Zenon
  <2> QED BY <2>1, <2>2, StateFrame, Zenon DEF StateInv
<1>20. ASSUME (\E tx \in Tx : Submit(tx)) \/ UNCHANGED vars PROVE StateInv'
  <2>1. UNCHANGED <<blocks, snapshots, chain, queue, saving, commit, pending, call>>
    BY <1>20, Zenon DEF Submit, vars, nodeVars, chainVars
  <2> QED BY <2>1, StateFrame, Zenon DEF StateInv
<1> QED
  <2> SUFFICES ASSUME [Next]_vars PROVE StateInv' BY Zenon
  <2>1. CASE Work
    BY <2>1, <1>2, <1>3, <1>4, <1>5, <1>6, <1>7, <1>8, <1>9, <1>10, <1>11, <1>12, <1>13,
       <1>14, <1>15, <1>16, <1>17, Zenon DEF Work, MakeBlock, Generate, Returns, Commit
  <2>2. CASE ~Work
    BY <2>2, <1>5, <1>18, <1>19, <1>20, Zenon DEF Next, Background, Crash
  <2> QED BY <2>1, <2>2, Zenon

\* Snapshots, drafts, the pending row and the state in memory all agree with
\* the replay of the stored blocks, at every step of every process that is
\* driven by transactions with a single prevout or nonce.
THEOREM StateInvariant == ASSUME ~TxsInFirstBlock, SingleSource PROVE Spec => [](LinkInv /\ StateInv)
<1>1. Init => LinkInv /\ StateInv
  BY LinkInit, StateInit, Zenon
<1>2. LinkInv /\ StateInv /\ [Next]_vars => (LinkInv /\ StateInv)'
  BY LinkStep, StateStep, Zenon
<1> QED BY <1>1, <1>2, PTL DEF Spec

\* Recover succeeds on whatever the tables hold when the process ends, and
\* rebuilds the state of the last block from whichever snapshot is the latest.
THEOREM RecoverSucceeds == ASSUME ~TxsInFirstBlock, SingleSource PROVE Spec => []RecoverOK
<1>1. LinkInv /\ StateInv => RecoverOK
  BY RecoveredIs, Zenon DEF RecoverOK
<1> QED BY <1>1, StateInvariant, PTL

\* The state in memory, the height that wakes waiters and the pending block
\* fit the tables, whichever call failed or was cut off.
THEOREM MemoryFits == ASSUME ~TxsInFirstBlock, SingleSource PROVE Spec => []MemoryFitsTables
<1>1. ASSUME LinkInv, StateInv PROVE MemoryFitsTables
  <2>1. StateIsStored
    BY <1>1, Zenon DEF StateIsStored, LinkInv, ChainInv, StateInv, ChainFits
  <2>2. WaiterFindsBlock
    BY <1>1 DEF WaiterFindsBlock, LinkInv, ChainInv
  <2>3. PendingIsNext
    BY <1>1 DEF PendingIsNext, LinkInv, Linked, PendingInv, Extends, StateInv, PendingFits, NextFits
  <2> QED BY <2>1, <2>2, <2>3, Zenon DEF MemoryFitsTables
<1> QED BY <1>1, StateInvariant, PTL

-----------------------------------------------------------------------------
(***************************************************************************)
(* The node implements Ledger.  The proof takes the node's invariants as   *)
(* given and shows, action by action, what the step does to the ledger     *)
(* that NodeLedger reads from the tables.                                  *)
(***************************************************************************)
\* BeginBlock gives the time of the block; only a first MakeBlock commits a
\* block that no pending row holds.
DriveInv ==
  /\ call.pc = "block" => call.time \in Timestamp
  /\ call.pc \in {"recover", "commit"} => StoreHeight > 0

\* Where InitialReturns leaves the call.
LEMMA InitialReturnsTo ==
  ASSUME LinkInv, InitialReturns
  PROVE  call'.pc = "idle" \/ (call'.pc = "generate" /\ call'.prev = None)
<1> DEFINE s == PruneNonces(chain.snap, call.b.ts)
<1>1. /\ call.pc = "initial"
      /\ call' = At("idle") \/ call' = [call EXCEPT !.pc = "generate", !.s = s]
  BY Zenon DEF InitialReturns, Goto
<1> HIDE DEF s
<1>2. call \in CallType /\ call.prev = None
  BY <1>1, Zenon DEF LinkInv, CallInv
<1>3. CASE call' = At("idle")
  BY <1>3, AtType, Zenon DEF Where
<1>4. CASE call' = [call EXCEPT !.pc = "generate", !.s = s]
  BY <1>2, <1>4, Zenon DEF CallType
<1> QED BY <1>1, <1>3, <1>4, Zenon

\* It is kept.
LEMMA DriveStep ==
  ASSUME LinkInv, DriveInv, [Next]_vars
  PROVE  DriveInv'
<1> USE DEF Where
<1>1. CASE call' = call /\ StoreHeight' = StoreHeight
  BY <1>1, Zenon DEF DriveInv
<1>2. CASE Start \/ MakeBlockError \/ CommitReturns
  <2>1. call'.pc \in {"start", "idle"}
    BY <1>2, AtType, Zenon DEF Start, MakeBlockError, CommitReturns, Goto
  <2> QED BY <2>1, Zenon DEF DriveInv
<1>3. CASE Stop
  <2>1. call'.pc = "down"
    BY <1>3, AtType, Zenon DEF Stop, Goto
  <2> QED BY <2>1, Zenon DEF DriveInv
<1>4. CASE RecoverChain
  <2>1. StoreHeight' = StoreHeight /\ StoreHeight \in Nat
    <3>1. blocks' = blocks
      BY <1>4, Zenon DEF RecoverChain, Recover, chainVars
    <3> QED BY <3>1, Zenon DEF StoreHeight, LinkInv, Linked
  <2>2. call'.pc \in {"idle", "recover"} /\ (call'.pc = "recover" => StoreHeight # 0)
    BY <1>4, AtType, Zenon DEF RecoverChain, Goto
  <2> QED BY <2>1, <2>2 DEF DriveInv
<1>5. CASE \E ts \in Timestamp : BeginBlock(ts)
  <2>1. PICK ts \in Timestamp : BeginBlock(ts)
    BY <1>5, Zenon
  <2>2. call' = [At("block") EXCEPT !.time = ts]
    BY <2>1, Zenon DEF BeginBlock
  <2>3. call'.pc = "block" /\ call'.time = ts
    BY <2>2, Zenon DEF At
  <2> QED BY <2>3, Zenon DEF DriveInv
<1>6. CASE MakeBlockPending /\ ~Stop
  <2>1. StoreHeight' = StoreHeight /\ StoreHeight > 0
    BY <1>6, Zenon DEF MakeBlockPending, HavePending, StoreHeight, LinkInv, PendingInv
  <2>2. call'.pc = "commit"
    BY <1>6, AtType, Zenon DEF MakeBlockPending, Goto
  <2> QED BY <2>1, <2>2, Zenon DEF DriveInv
<1>7. CASE MakeBlockInitial
  <2>1. call'.pc = "initial"
    BY <1>7, Zenon DEF MakeBlockInitial, At
  <2> QED BY <2>1, Zenon DEF DriveInv
<1>8. CASE MakeBlockNext
  <2>1. call'.pc \in {"idle", "generate"}
    BY <1>8, AtType DEF MakeBlockNext, Goto
  <2> QED BY <2>1, Zenon DEF DriveInv
<1>9. CASE GenerateTx
  <2>1. call'.pc = "generate"
    BY <1>9, GenerateTxCases, Zenon DEF Stepped
  <2> QED BY <2>1, Zenon DEF DriveInv
<1>10. CASE GenerateDone
  <2>1. call'.pc \in {"idle", "pending"}
    BY <1>10, GenerateDoneCases, AtType, Zenon
  <2> QED BY <2>1, Zenon DEF DriveInv
<1>11. CASE SavePending
  <2>1. StoreHeight' = StoreHeight /\ call'.pc \in {"idle", "commit"}
    BY <1>11, AtType, Zenon DEF SavePending, Goto, StoreHeight
  <2>2. StoreHeight > 0
    BY <1>11 DEF SavePending, LinkInv, CallInv, ChainInv
  <2> QED BY <2>1, <2>2, Zenon DEF DriveInv
<1>12. CASE InitialReturns
  <2>1. call'.pc \in {"idle", "generate"}
    BY <1>12, InitialReturnsTo, Zenon
  <2> QED BY <2>1, Zenon DEF DriveInv
<1>13. CASE RecoverReturns /\ ~Stop
  <2>1. call'.pc = "idle"
    BY <1>13, AtType, Zenon DEF RecoverReturns, Goto
  <2> QED BY <2>1, Zenon DEF DriveInv
<1>14. CASE SaveBlock /\ UNCHANGED nodeVars
  <2>1. call' = call /\ call.pc # "block" /\ (StoreHeight' = StoreHeight \/ StoreHeight' = StoreHeight + 1)
    BY <1>14, SaveBlockCases, Zenon DEF Committing
  <2>2. StoreHeight \in Nat
    BY Zenon DEF LinkInv, Linked
  <2> QED BY <2>1, <2>2 DEF DriveInv
<1>15. CASE (FinalizeBlock \/ SetState \/ Background) /\ UNCHANGED nodeVars
  <2>1. blocks' = blocks /\ call' = call
    BY <1>15, Zenon DEF FinalizeBlock, SetState, Background, TakeSnapshot, SaveSnapshot, LoseNotes, SetHeight, nodeVars
  <2> QED BY <1>1, <2>1, Zenon DEF StoreHeight
<1>16. CASE \E tx \in Tx : Submit(tx)
  BY <1>1, <1>16, Zenon DEF Submit, chainVars, StoreHeight
<1>17. CASE UNCHANGED vars
  BY <1>1, <1>17, Zenon DEF vars, chainVars, nodeVars, StoreHeight
<1> QED BY <1>2, <1>3, <1>4, <1>5, <1>6, <1>7, <1>8, <1>9, <1>10, <1>11, <1>12, <1>13, <1>14, <1>15, <1>16, <1>17, Zenon DEF Next, Work, MakeBlock, Generate, Returns, Commit, Crash


\* The three places a draft is found in.
Waiting(p, h) == p # None /\ p.height = h + 1

First(c, m, h) == c.pc = "initial" /\ m.pc = "save" /\ h = 0

Working(c) == c.pc \in {"generate", "pending"} /\ c.prev # None

DraftFrom(p, c, m, st, h) ==
  CASE p # None /\ p.height = h + 1 -> DraftOf(p, ApplyBlock(st, p).snap)
    [] c.pc = "initial" /\ m.pc = "save" /\ h = 0 -> DraftOf(m.b, m.s)
    [] c.pc \in {"generate", "pending"} /\ c.prev # None -> DraftOf(c.b, c.s)
    [] OTHER -> None

\* At most one of the three holds, so that their order does not matter.
LEMMA DraftCases ==
  ASSUME NEW p, NEW c, NEW m, NEW st, NEW h,
         Waiting(p, h) => ~First(c, m, h) /\ ~Working(c)
  PROVE  /\ Waiting(p, h) => DraftFrom(p, c, m, st, h) = DraftOf(p, ApplyBlock(st, p).snap)
         /\ First(c, m, h) => DraftFrom(p, c, m, st, h) = DraftOf(m.b, m.s)
         /\ Working(c) => DraftFrom(p, c, m, st, h) = DraftOf(c.b, c.s)
         /\ ~Waiting(p, h) /\ ~First(c, m, h) /\ ~Working(c) => DraftFrom(p, c, m, st, h) = None
BY Zenon DEF DraftFrom, Waiting, First, Working

\* The draft of a state, and of the next.
LEMMA DraftNow ==
  ASSUME LinkInv
  PROVE  /\ Waiting(pending, StoreHeight) => LedgerDraft = DraftOf(pending, ApplyBlock(State, pending).snap)
         /\ First(call, commit, StoreHeight) => LedgerDraft = DraftOf(commit.b, commit.s)
         /\ Working(call) => LedgerDraft = DraftOf(call.b, call.s)
         /\ ~Waiting(pending, StoreHeight) /\ ~First(call, commit, StoreHeight) /\ ~Working(call) => LedgerDraft = None
<1>1. LedgerDraft = DraftFrom(pending, call, commit, State, StoreHeight)
  BY Zenon DEF LedgerDraft, DraftFrom
<1>2. Waiting(pending, StoreHeight) => ~First(call, commit, StoreHeight) /\ ~Working(call)
  BY DEF LinkInv, Linked, CallInv, Waiting, First, Working
<1> QED BY <1>1, <1>2, DraftCases

LEMMA DraftThen ==
  ASSUME LinkInv'
  PROVE  /\ Waiting(pending', StoreHeight') => LedgerDraft' = DraftOf(pending', ApplyBlock(State', pending').snap)
         /\ First(call', commit', StoreHeight') => LedgerDraft' = DraftOf(commit'.b, commit'.s)
         /\ Working(call') => LedgerDraft' = DraftOf(call'.b, call'.s)
         /\ ~Waiting(pending', StoreHeight') /\ ~First(call', commit', StoreHeight') /\ ~Working(call') => LedgerDraft' = None
<1>1. LedgerDraft' = DraftFrom(pending', call', commit', State', StoreHeight')
  BY Zenon DEF LedgerDraft, DraftFrom
<1>2. Waiting(pending', StoreHeight') => ~First(call', commit', StoreHeight') /\ ~Working(call')
  <2>1. StoreHeight' \in Nat /\ CallInv'
    BY Zenon DEF LinkInv, Linked
  <2>2. call'.pc = "initial" => pending' = None
    BY <2>1, Zenon DEF CallInv
  <2>3. Working(call') /\ pending' # None => pending'.height <= StoreHeight'
    BY <2>1, Zenon DEF CallInv, Working
  <2>4. Working(call') => ~Waiting(pending', StoreHeight')
    BY <2>1, <2>3 DEF Waiting
  <2> QED BY <2>2, <2>4, Zenon DEF Waiting, First
<1> QED BY <1>1, <1>2, DraftCases

\* The ledger has the node's transactions, and does with them what it does.
LEMMA SameRules ==
  /\ Ledger!Empty = Empty
  /\ \A sn, ts : Ledger!PruneNonces(sn, ts) = PruneNonces(sn, ts)
  /\ \A tx, ts : Ledger!Timely(tx, ts) <=> Timely(tx, ts)
  /\ \A sn, tx : Ledger!CanApply(sn, tx) <=> CanApply(sn, tx)
  /\ \A sn, tx : Ledger!Applied(sn, tx) = Applied(sn, tx)
  /\ \A sn, tx : Ledger!FailedApply(sn, tx) = FailedApply(sn, tx)
<1>1. Ledger!Empty = Empty
  BY Zenon DEF Ledger!Empty, Empty
<1>2. \A sn, ts : Ledger!PruneNonces(sn, ts) = PruneNonces(sn, ts)
  BY Zenon DEF Ledger!PruneNonces, PruneNonces
<1>3. \A tx, ts : Ledger!Timely(tx, ts) <=> Timely(tx, ts)
  BY Zenon DEF Ledger!Timely, Timely
<1>4. \A sn, tx : Ledger!CanApply(sn, tx) <=> CanApply(sn, tx)
  BY Zenon DEF Ledger!CanApply, CanApply
<1>5. \A sn, tx : Ledger!Applied(sn, tx) = Applied(sn, tx)
  BY Zenon DEF Ledger!Applied, Applied
<1>6. \A sn, tx : Ledger!FailedApply(sn, tx) = FailedApply(sn, tx)
  BY Zenon DEF Ledger!FailedApply, FailedApply
<1> QED BY <1>1, <1>2, <1>3, <1>4, <1>5, <1>6, Zenon

LedgerTime == IF StoreHeight = 0 THEN 0 ELSE blocks[StoreHeight].ts

LedgerStep == [Ledger!Next]_(Ledger!vars)

\* The ledger depends on the blocks only, but for its draft.
LEMMA LedgerFrame ==
  ASSUME blocks' = blocks
  PROVE  StoreHeight' = StoreHeight /\ State' = State /\ LedgerLog' = LedgerLog /\ LedgerTime' = LedgerTime
<1>1. StoreHeight' = StoreHeight
  BY Zenon DEF StoreHeight
<1> QED BY <1>1 DEF State, LedgerLog, LedgerTime

\* A step that stores no block and leaves or drops the draft.
LEMMA LedgerStays ==
  ASSUME blocks' = blocks, LedgerDraft' = LedgerDraft \/ LedgerDraft' = None
  PROVE  LedgerStep
<1>1. StoreHeight' = StoreHeight /\ State' = State /\ LedgerLog' = LedgerLog /\ LedgerTime' = LedgerTime
  BY LedgerFrame, Zenon
<1>2. CASE LedgerDraft' = LedgerDraft
  BY <1>1, <1>2, Zenon DEF LedgerStep, Ledger!vars, LedgerTime
<1>3. CASE LedgerDraft' # LedgerDraft
  <2>1. LedgerDraft # None /\ LedgerDraft' = None
    BY <1>3, Zenon
  <2>2. Ledger!DropBlock
    BY <1>1, <2>1, Zenon DEF Ledger!DropBlock, LedgerTime
  <2> QED BY <2>2, Zenon DEF LedgerStep, Ledger!Next
<1> QED BY <1>2, <1>3, Zenon

\* The empty tables are the empty ledger.
LEMMA LedgerInit == ASSUME Init PROVE Ledger!Init
<1> USE DEF Init, ChainInit
<1>1. StoreHeight = 0
  <2>1. DOMAIN blocks \cup {0} = (1 .. 0) \cup {0}
    OBVIOUS
  <2> QED BY <2>1, MaxUpTo, Zenon DEF StoreHeight
<1>2. State = Empty
  <2>1. Replay(blocks, 0) = Started(Empty)
    BY ReplayStart, Zenon DEF Replay
  <2> QED BY <1>1, <2>1 DEF State, Started
<1>3. LedgerLog = {}
  BY Zenon DEF LedgerLog
<1>4. LedgerDraft = None
  <2>1. LinkInv
    BY LinkInit, Zenon
  <2>2. ~Waiting(pending, StoreHeight) /\ ~First(call, commit, StoreHeight) /\ ~Working(call)
    BY Zenon DEF Waiting, First, Working, At
  <2> QED BY <2>1, <2>2, DraftNow, Zenon
<1> QED BY <1>1, <1>2, <1>3, <1>4, SameRules, Zenon DEF Ledger!Init

\* The steps that touch neither the blocks nor the pending row, and come from
\* or go to a place without a draft of its own.
LEMMA LedgerQuiet ==
  ASSUME LinkInv, LinkInv', blocks' = blocks, pending' = pending,
         ~First(call', commit', StoreHeight) /\ ~Working(call')
  PROVE  LedgerStep
<1>1. StoreHeight' = StoreHeight /\ State' = State
  BY LedgerFrame, Zenon
<1>2. CASE Waiting(pending, StoreHeight)
  BY <1>1, <1>2, DraftNow, DraftThen, LedgerStays, Zenon
<1>3. CASE ~Waiting(pending, StoreHeight)
  BY <1>1, <1>3, DraftThen, LedgerStays, Zenon
<1> QED BY <1>2, <1>3, Zenon

\* The steps of the background goroutines, of Submit and of the rest of
\* CommitAppliedBlock: the draft is where it was.
LEMMA LedgerSame ==
  ASSUME LinkInv, LinkInv', blocks' = blocks, pending' = pending, call' = call,
         commit' = commit \/ (commit.pc # "save" /\ commit'.pc # "save")
  PROVE  LedgerStep
<1>1. StoreHeight' = StoreHeight /\ State' = State
  BY LedgerFrame, Zenon
<1>2. First(call', commit', StoreHeight') <=> First(call, commit, StoreHeight)
  BY <1>1, Zenon DEF First
<1>3. First(call, commit, StoreHeight) => commit' = commit
  BY Zenon DEF First
<1>4. LedgerDraft' = LedgerDraft
  BY <1>1, <1>2, <1>3, DraftNow, DraftThen
<1> QED BY <1>4, LedgerStays, Zenon

\* One step per action, and under it which step of the ledger it is.
LEMMA LedgerNext ==
  ASSUME LinkInv, LinkInv', StateInv, StateInv', DriveInv
  PROVE  [Next]_vars => LedgerStep
<1>1. ASSUME MakeBlockInitial
      PROVE  LedgerStep
  <2> USE <1>1
  <2> DEFINE b == InitialBlock(call.time)
  <2>1. /\ call.pc = "block" /\ pending = None /\ blocks' = blocks /\ pending' = pending
        /\ commit' = [pc |-> "save", b |-> b, s |-> Empty] /\ call'.pc = "initial"
    BY Zenon DEF MakeBlockInitial, HavePending, CommitAppliedBlock, At
  <2>2. call.time \in Timestamp /\ ~(call.time < 0) /\ 0 < MaxHeight
    <3>1. call.time \in Timestamp
      BY <2>1, Zenon DEF DriveInv
    <3>2. call.time \in Nat /\ MaxHeight \in Nat
      BY <3>1, NodeAssumption, Zenon
    <3>3. MaxHeight > 0
      BY NodeLedgerAssumption, Zenon
    <3> QED BY <3>1, <3>2, <3>3
  <2>3. StoreHeight' = StoreHeight /\ State' = State /\ LedgerLog' = LedgerLog /\ LedgerTime' = LedgerTime
    BY <2>1, LedgerFrame, Zenon
  <2>4. ~Waiting(pending, StoreHeight) /\ ~First(call, commit, StoreHeight) /\ ~Working(call)
    BY <2>1, Zenon DEF Waiting, First, Working
  <2>5. LedgerDraft = None
    BY <2>4, DraftNow, Zenon
  <2>6. CASE StoreHeight # 0
    <3>1. ~First(call', commit', StoreHeight) /\ ~Working(call')
      BY <2>1, <2>6, Zenon DEF First, Working
    <3> QED BY <2>1, <3>1, LedgerQuiet, Zenon
  <2>7. CASE StoreHeight = 0
    <3>1. First(call', commit', StoreHeight')
      BY <2>1, <2>3, <2>7, Zenon DEF First
    <3>2. LedgerDraft' = DraftOf(b, Empty)
      BY <2>1, <3>1, DraftThen, Zenon
    <3>3. State = Empty
      <4>1. Replay(blocks, 0) = Started(Empty)
        BY ReplayStart, Zenon DEF Replay
      <4> QED BY <2>7, <4>1 DEF State, Started
    <3>4. PruneNonces(Empty, call.time) = Empty /\ b.ts = call.time /\ b.txs = <<>>
      BY DEF PruneNonces, Empty, InitialBlock
    <3>5. LedgerDraft' = [ts |-> call.time, snap |-> PruneNonces(State, call.time), txs |-> <<>>]
      BY <3>2, <3>3, <3>4, Zenon DEF DraftOf
    <3>6. Ledger!StartBlock(call.time)
      BY <2>2, <2>3, <2>5, <2>7, <3>5, SameRules, Zenon DEF Ledger!StartBlock, LedgerTime
    <3> QED BY <2>2, <3>6, Zenon DEF LedgerStep, Ledger!Next
  <2> QED BY <2>6, <2>7, Zenon
<1>2. ASSUME MakeBlockNext
      PROVE  LedgerStep
  <2> USE <1>2
  <2>1. call.pc = "block" /\ ~HavePending /\ chain.block # None /\ blocks' = blocks /\ pending' = pending
    BY Zenon DEF MakeBlockNext, chainVars
  <2>2. CASE call'.pc = "idle"
    BY <2>1, <2>2, LedgerQuiet, Zenon DEF First, Working
  <2>3. CASE call'.pc # "idle"
    <3> DEFINE b == EmptyBlock(chain.block, call.time)
               s == PruneNonces(chain.snap, call.time)
    <3>1. /\ ~(call.time < chain.block.ts) /\ chain.block.height < MaxHeight /\ chain' = chain
          /\ call' = [pc |-> "generate", time |-> 0, b |-> b, s |-> s, prev |-> chain.block, todo |-> pool]
      BY <2>3, AtType, Zenon DEF MakeBlockNext, chainVars, Goto, Where
    <3>2. call'.pc = "generate" /\ call'.prev = chain.block /\ call'.b = b /\ call'.s = s
      BY <3>1, Zenon
    <3>3. StoreHeight' = StoreHeight /\ State' = State /\ LedgerLog' = LedgerLog /\ LedgerTime' = LedgerTime
      BY <2>1, LedgerFrame, Zenon
    <3>4. chain.block.height = StoreHeight
      BY <2>1, <3>1, <3>2, <3>3, Zenon DEF LinkInv, CallInv
    <3>5. chain.snap = State /\ StoreHeight # 0 /\ chain.block = blocks[StoreHeight]
      BY <2>1, <3>4 DEF StateInv, ChainFits, State, LinkInv, ChainInv
    <3>6. ~Waiting(pending, StoreHeight) /\ ~First(call, commit, StoreHeight) /\ ~Working(call)
      BY <2>1, <3>4, Zenon DEF Waiting, First, Working, HavePending
    <3>7. LedgerDraft = None
      BY <3>6, DraftNow, Zenon
    <3>8. LedgerDraft' = DraftOf(b, s)
      BY <2>1, <3>2, DraftThen, Zenon DEF Working
    <3>9. b.ts = call.time /\ b.txs = <<>>
      BY Zenon DEF EmptyBlock
    <3>10. LedgerDraft' = [ts |-> call.time, snap |-> PruneNonces(State, call.time), txs |-> <<>>]
      BY <3>5, <3>8, <3>9, Zenon DEF DraftOf
    <3>11. StoreHeight < MaxHeight /\ ~(call.time < LedgerTime) /\ call.time \in Timestamp
      BY <2>1, <3>1, <3>4, <3>5, Zenon DEF LedgerTime, DriveInv
    <3>12. Ledger!StartBlock(call.time)
      BY <3>3, <3>7, <3>10, <3>11, SameRules, Zenon DEF Ledger!StartBlock, LedgerTime
    <3> QED BY <3>11, <3>12, Zenon DEF LedgerStep, Ledger!Next
  <2> QED BY <2>2, <2>3, Zenon
<1>3. ASSUME GenerateTx
      PROVE  LedgerStep
  <2> USE <1>3
  <2> DEFINE tx == Head(call.todo)
  <2>1. /\ call.pc = "generate" /\ call.prev # None /\ tx \in Tx /\ call.b \in Block /\ call.s \in SnapshotType
        /\ Len(call.b.txs) < MaxBlockTxs /\ blocks' = blocks
        /\ \/ /\ tx.valid /\ Timely(tx, call.b.ts) /\ CanApply(call.s, tx)
              /\ Stepped(call', call, WithTx(call.b, tx), Applied(call.s, tx))
           \/ /\ tx.valid /\ Timely(tx, call.b.ts) /\ ~CanApply(call.s, tx)
              /\ \E s \in FailedApply(call.s, tx) : Stepped(call', call, call.b, s)
           \/ Stepped(call', call, call.b, call.s)
    BY GenerateTxCases, Zenon DEF chainVars
  <2> HIDE DEF tx
  <2>2. StoreHeight' = StoreHeight /\ State' = State /\ LedgerLog' = LedgerLog /\ LedgerTime' = LedgerTime
    BY <2>1, LedgerFrame, Zenon
  <2>3. Working(call) /\ Working(call')
    BY <2>1, Zenon DEF Working, Stepped
  <2>4. LedgerDraft = DraftOf(call.b, call.s) /\ LedgerDraft' = DraftOf(call'.b, call'.s)
    BY <2>3, DraftNow, DraftThen, Zenon
  <2>5. /\ LedgerDraft # None /\ LedgerDraft.ts = call.b.ts
        /\ LedgerDraft.txs = call.b.txs /\ LedgerDraft.snap = call.s
    <3>1. DraftOf(call.b, call.s) \in [ts : Nat, snap : SnapshotType, txs : Seq(Tx)]
      BY <2>1, Zenon DEF DraftOf, Block
    <3> QED BY <2>4, <3>1, NodeLedgerAssumption, Zenon DEF DraftOf
  <2>6. CASE /\ tx.valid /\ Timely(tx, call.b.ts) /\ CanApply(call.s, tx)
             /\ Stepped(call', call, WithTx(call.b, tx), Applied(call.s, tx))
    <3>1. LedgerDraft' = [LedgerDraft EXCEPT !.snap = Applied(LedgerDraft.snap, tx), !.txs = Append(LedgerDraft.txs, tx)]
      <4>1. LedgerDraft' = [ts |-> call.b.ts, snap |-> Applied(call.s, tx), txs |-> Append(call.b.txs, tx)]
        <5>1. call'.b = WithTx(call.b, tx) /\ call'.s = Applied(call.s, tx)
          BY <2>6, Zenon DEF Stepped
        <5>2. call'.b.ts = call.b.ts /\ call'.b.txs = Append(call.b.txs, tx)
          BY <2>1, <5>1, WithTxType
        <5> QED BY <2>4, <5>1, <5>2, Zenon DEF DraftOf
      <4>2. LedgerDraft = [ts |-> call.b.ts, snap |-> call.s, txs |-> call.b.txs]
        BY <2>4, Zenon DEF DraftOf
      <4> DEFINE x == Applied(call.s, tx)
                 y == Append(call.b.txs, tx)
                 d == [ts |-> call.b.ts, snap |-> call.s, txs |-> call.b.txs]
      <4>3. LedgerDraft' = [ts |-> call.b.ts, snap |-> x, txs |-> y] /\ LedgerDraft = d
        BY <4>1, <4>2, Zenon
      <4>4. x = Applied(LedgerDraft.snap, tx) /\ y = Append(LedgerDraft.txs, tx)
        BY <2>5, Zenon
      <4> HIDE DEF x, y
      <4>5. [d EXCEPT !.snap = x, !.txs = y] = [ts |-> call.b.ts, snap |-> x, txs |-> y]
        <5> DEFINE e == [ts |-> call.b.ts, snap |-> x, txs |-> call.b.txs]
        <5>1. [d EXCEPT !.snap = x] = e
          OBVIOUS
        <5>2. [e EXCEPT !.txs = y] = [ts |-> call.b.ts, snap |-> x, txs |-> y]
          OBVIOUS
        <5>3. [d EXCEPT !.snap = x, !.txs = y] = [[d EXCEPT !.snap = x] EXCEPT !.txs = y]
          BY Zenon
        <5> HIDE DEF d, e
        <5> QED BY <5>1, <5>2, <5>3, Zenon
      <4> HIDE DEF d
      <4>6. LedgerDraft' = [LedgerDraft EXCEPT !.snap = x, !.txs = y]
        BY <4>3, <4>5, Zenon
      <4> QED BY <4>4, <4>6, Zenon
    <3>2. Ledger!AddTx(tx)
      BY <2>1, <2>2, <2>5, <2>6, <3>1, SameRules, Zenon DEF Ledger!AddTx, LedgerTime
    <3> QED BY <2>1, <3>2, Zenon DEF LedgerStep, Ledger!Next
  <2>7. CASE /\ tx.valid /\ Timely(tx, call.b.ts) /\ ~CanApply(call.s, tx)
             /\ \E s \in FailedApply(call.s, tx) : Stepped(call', call, call.b, s)
    <3>1. PICK s \in FailedApply(call.s, tx) : Stepped(call', call, call.b, s)
      BY <2>7, Zenon
    <3>2. LedgerDraft' = [LedgerDraft EXCEPT !.snap = s]
      <4>1. LedgerDraft' = [ts |-> call.b.ts, snap |-> s, txs |-> call.b.txs]
        BY <2>4, <3>1, Zenon DEF Stepped, DraftOf
      <4> QED BY <2>4, <4>1 DEF DraftOf
    <3>3. Ledger!SkipTx(tx)
      BY <2>1, <2>2, <2>5, <2>7, <3>1, <3>2, SameRules, Zenon DEF Ledger!SkipTx, LedgerTime
    <3> QED BY <2>1, <3>3, Zenon DEF LedgerStep, Ledger!Next
  <2>8. CASE Stepped(call', call, call.b, call.s)
    <3>1. LedgerDraft' = LedgerDraft
      BY <2>4, <2>8, Zenon DEF Stepped
    <3> QED BY <2>1, <3>1, LedgerStays, Zenon
  <2> QED BY <2>1, <2>6, <2>7, <2>8, Zenon
<1>4. ASSUME GenerateDone
      PROVE  LedgerStep
  <2> USE <1>4
  <2>1. call.pc = "generate" /\ blocks' = blocks /\ pending' = pending /\ call.b \in Block /\ call.s.tree \in SUBSET Output
    BY GenerateDoneCases, Zenon DEF chainVars, SnapshotType
  <2>2. CASE call' = At("idle")
    <3>1. call'.pc = "idle"
      BY <2>2, AtType, Zenon DEF Where
    <3> QED BY <2>1, <3>1, LedgerQuiet, Zenon DEF First, Working
  <2>3. CASE call' # At("idle")
    <3>1. /\ call.prev # None /\ call'.pc = "pending" /\ call'.s = call.s
          /\ call'.prev = call.prev /\ call'.b = WithRoot(call.b, call.s.tree)
      BY <2>3, GenerateDoneCases, Zenon
    <3>2. LedgerDraft = DraftOf(call.b, call.s) /\ LedgerDraft' = DraftOf(call'.b, call'.s)
      BY <2>1, <3>1, DraftNow, DraftThen, Zenon DEF Working
    <3>3. LedgerDraft' = LedgerDraft
      BY <2>1, <3>1, <3>2, WithRootType DEF DraftOf
    <3> QED BY <2>1, <3>3, LedgerStays, Zenon
  <2> QED BY <2>2, <2>3, Zenon
<1>5. ASSUME SavePending
      PROVE  LedgerStep
  <2> USE <1>5
  <2>1. call.pc = "pending" /\ blocks' = blocks /\ pending' \in {pending, call.b} /\ call'.pc \in {"idle", "commit"}
    BY AtType, Zenon DEF SavePending, Goto, Where
  <2>2. CASE pending' = pending
    BY <2>1, <2>2, LedgerQuiet, Zenon DEF First, Working
  <2>3. CASE pending' = call.b
    <3>1. /\ call.prev # None /\ call.b.height = StoreHeight + 1
          /\ ApplyBlock(State, call.b) = Started(call.s) /\ call.b \in Block /\ call.b # None
      <4>1. call.prev # None /\ call.b \in Block /\ Extends(blocks, StoreHeight, call.b)
        BY <2>1, Zenon DEF LinkInv, CallInv
      <4>2. ApplyBlock(State, call.b) = Started(call.s)
        BY <2>1, <4>1, Zenon DEF StateInv, CallFits, State
      <4> QED BY <4>1, <4>2, ChainAssumption, Zenon DEF Extends
    <3>2. StoreHeight' = StoreHeight /\ State' = State
      BY <2>1, LedgerFrame, Zenon
    <3>3. Working(call) /\ Waiting(pending', StoreHeight')
      BY <2>1, <2>3, <3>1, <3>2, Zenon DEF Working, Waiting
    <3>4. LedgerDraft = DraftOf(call.b, call.s) /\ LedgerDraft' = DraftOf(call.b, ApplyBlock(State, call.b).snap)
      BY <2>3, <3>2, <3>3, DraftNow, DraftThen, Zenon
    <3>5. LedgerDraft' = LedgerDraft
      BY <3>1, <3>4 DEF Started
    <3> QED BY <2>1, <3>5, LedgerStays, Zenon
  <2> QED BY <2>1, <2>2, <2>3, Zenon
<1>6. ASSUME SaveBlock, UNCHANGED nodeVars
      PROVE  LedgerStep
  <2> USE <1>6
  <2>1. /\ call.pc \in Committing /\ commit.pc = "save" /\ call' = call /\ pending' = pending
        /\ commit.b \in Block /\ commit.s \in SnapshotType
        /\ commit'.pc \in {"finalize", "error"}
    BY SaveBlockCases, Zenon
  <2>2. CASE blocks' = blocks
    BY <2>1, <2>2, LedgerQuiet, Zenon DEF First, Working, Committing
  <2>3. CASE /\ Extends(blocks, StoreHeight, commit.b)
             /\ StoreHeight > 0 => pending = commit.b
             /\ Linked(blocks', StoreHeight + 1) /\ StoreHeight' = StoreHeight + 1
             /\ blocks'[StoreHeight + 1] = commit.b
             /\ \A i \in 1 .. StoreHeight : blocks'[i] = blocks[i]
    <3> DEFINE n == StoreHeight + 1
    <3>1. StoreHeight \in Nat /\ DOMAIN blocks = 1 .. StoreHeight /\ DOMAIN blocks' = 1 .. n /\ commit.b.height = n
      BY <2>3, Zenon DEF LinkInv, Linked, Extends
    <3>2. commit.b # None /\ commit.b.txs \in Seq(Tx)
      BY <2>1, ChainAssumption, Zenon DEF Block
    <3>3. ApplyBlock(State, commit.b) = Started(commit.s)
      BY <2>1, <3>1, Zenon DEF StateInv, CommitFits, Fits, State
    <3>4. LedgerDraft = DraftOf(commit.b, commit.s)
      <4>1. CASE StoreHeight > 0
        <5>1. Waiting(pending, StoreHeight) /\ pending = commit.b
          BY <2>3, <3>1, <3>2, <4>1, Zenon DEF Waiting
        <5> QED BY <3>3, <5>1, DraftNow DEF Started
      <4>2. CASE StoreHeight = 0
        <5>1. First(call, commit, StoreHeight)
          BY <2>1, <4>2 DEF First, Committing, DriveInv
        <5> QED BY <5>1, DraftNow, Zenon
      <4> QED BY <3>1, <4>1, <4>2
    <3>5. LedgerDraft # None /\ LedgerDraft.ts = commit.b.ts /\ LedgerDraft.snap = commit.s /\ LedgerDraft.txs = commit.b.txs
      <4>1. DraftOf(commit.b, commit.s) \in [ts : Nat, snap : SnapshotType, txs : Seq(Tx)]
        BY <2>1, Zenon DEF DraftOf, Block
      <4> QED BY <3>4, <4>1, NodeLedgerAssumption, Zenon DEF DraftOf
    <3>6. LedgerTime' = commit.b.ts
      BY <2>3, <3>1 DEF LedgerTime
    <3>7. State' = commit.s
      <4>1. \A i \in 1 .. StoreHeight : i \in DOMAIN blocks' /\ i \in DOMAIN blocks /\ blocks'[i] = blocks[i]
        BY <2>3, <3>1
      <4>2. Replay(blocks', StoreHeight) = Replay(blocks, StoreHeight) /\ Replay(blocks, StoreHeight).ok
        <5>1. StoreHeight \in 0 .. StoreHeight
          BY <3>1
        <5>2. \A k \in 0 .. StoreHeight : Replay(blocks', k) = Replay(blocks, k)
          BY <3>1, <4>1, ReplayLocal, Zenon
        <5> QED BY <5>1, <5>2, Zenon DEF StateInv, TablesFit
      <4>3. n \in DOMAIN blocks' /\ commit.b.root = commit.s.tree
        BY <2>1, <3>1 DEF StateInv, CommitFits
      <4>4. Replay(blocks', n) = Started(commit.s)
        BY <2>3, <3>1, <3>3, <4>2, <4>3, ReplayMore DEF State
      <4> QED BY <2>3, <4>4 DEF State, Started
    <3>8. LedgerDraft' = None
      <4>1. ~Waiting(pending', StoreHeight')
        <5>1. StoreHeight = 0 => pending = None
          BY DEF LinkInv, PendingInv
        <5> QED BY <2>1, <2>3, <3>1, <5>1 DEF Waiting
      <4>2. ~First(call', commit', StoreHeight') /\ ~Working(call')
        BY <2>1, Zenon DEF First, Working, Committing
      <4> QED BY <4>1, <4>2, DraftThen, Zenon
    <3>9. LedgerLog' = LedgerLog \cup {[height |-> n, pos |-> i, tx |-> commit.b.txs[i]] : i \in 1 .. Len(commit.b.txs)}
      <4> DEFINE Rows(bl, h) == {[height |-> h, pos |-> i, tx |-> bl[h].txs[i]] : i \in DOMAIN bl[h].txs}
      <4>1. \A h \in 1 .. StoreHeight : Rows(blocks', h) = Rows(blocks, h)
        BY <2>3, Zenon
      <4>2. Rows(blocks', n) = {[height |-> n, pos |-> i, tx |-> commit.b.txs[i]] : i \in 1 .. Len(commit.b.txs)}
        BY <2>3, <3>2
      <4>3. LedgerLog = UNION {Rows(blocks, h) : h \in 1 .. StoreHeight} /\ LedgerLog' = UNION {Rows(blocks', h) : h \in 1 .. n}
        BY <3>1, Zenon DEF LedgerLog
      <4>4. 1 .. n = (1 .. StoreHeight) \cup {n}
        BY <3>1
      <4> HIDE DEF Rows, n
      <4>5. LedgerLog' = LedgerLog \cup Rows(blocks', n)
        BY <4>1, <4>3, <4>4, Zenon
      <4> QED BY <4>2, <4>5, Zenon
    <3>10. Ledger!CommitBlock
      BY <2>3, <3>5, <3>6, <3>7, <3>8, <3>9, Zenon DEF Ledger!CommitBlock, LedgerTime
    <3> QED BY <3>10, Zenon DEF LedgerStep, Ledger!Next
  <2> QED BY <2>2, <2>3, SaveBlockCases, Zenon
<1> USE DEF Where
<1>7. CASE Start \/ MakeBlockError \/ CommitReturns \/ RecoverChain
  <2>1. blocks' = blocks /\ pending' = pending /\ call'.pc \in {"start", "idle", "recover"}
    BY <1>7, AtType, Zenon DEF Start, NewChain, MakeBlockError, CommitReturns, RecoverChain, Recover, Goto, chainVars
  <2> QED BY <2>1, LedgerQuiet, Zenon DEF First, Working
<1>8. CASE Stop
  <2>1. blocks' = blocks /\ pending' = pending /\ call'.pc = "down"
    BY <1>8, AtType, Zenon DEF Stop, LoseMemory, Goto
  <2> QED BY <2>1, LedgerQuiet, Zenon DEF First, Working
<1>9. CASE \E ts \in Timestamp : BeginBlock(ts)
  <2>1. blocks' = blocks /\ pending' = pending /\ call'.pc = "block"
    BY <1>9, Zenon DEF BeginBlock, chainVars, At
  <2> QED BY <2>1, LedgerQuiet, Zenon DEF First, Working
<1>10. CASE MakeBlockPending /\ ~Stop
  <2>1. blocks' = blocks /\ pending' = pending /\ call'.pc = "commit"
    BY <1>10, AtType, Zenon DEF MakeBlockPending, Goto
  <2> QED BY <2>1, LedgerQuiet, Zenon DEF First, Working
<1>11. CASE RecoverReturns /\ ~Stop
  <2>1. blocks' = blocks /\ pending' = pending /\ call'.pc = "idle"
    BY <1>11, AtType, Zenon DEF RecoverReturns, Goto
  <2> QED BY <2>1, LedgerQuiet, Zenon DEF First, Working
<1>12. CASE InitialReturns
  <2>1. blocks' = blocks /\ pending' = pending
    BY <1>12, Zenon DEF InitialReturns
  <2>2. ~First(call', commit', StoreHeight) /\ ~Working(call')
    BY <1>12, InitialReturnsTo, Zenon DEF First, Working
  <2> QED BY <2>1, <2>2, LedgerQuiet, Zenon
<1>13. CASE (\E tx \in Tx : Submit(tx)) \/ UNCHANGED vars
  <2>1. blocks' = blocks /\ pending' = pending /\ call' = call /\ commit' = commit
    BY <1>13, Zenon DEF Submit, vars, chainVars, nodeVars
  <2> QED BY <2>1, LedgerSame, Zenon
<1>14. CASE Background /\ UNCHANGED nodeVars
  <2>1. blocks' = blocks /\ pending' = pending /\ call' = call /\ commit' = commit
    BY <1>14, Zenon DEF Background, TakeSnapshot, SaveSnapshot, LoseNotes, SetHeight, nodeVars
  <2> QED BY <2>1, LedgerSame, Zenon
<1>15. CASE (FinalizeBlock \/ SetState) /\ UNCHANGED nodeVars
  <2>1. blocks' = blocks /\ pending' = pending /\ call' = call
    BY <1>15, Zenon DEF FinalizeBlock, SetState, nodeVars
  <2>2. commit.pc # "save" /\ commit'.pc # "save"
    BY <1>15, Zenon DEF FinalizeBlock, SetState, CommitTo, LinkInv, CommitInv
  <2> QED BY <2>1, <2>2, LedgerSame, Zenon
<1> QED
  BY <1>1, <1>2, <1>3, <1>4, <1>5, <1>6, <1>7, <1>8, <1>9, <1>10, <1>11, <1>12, <1>13, <1>14,
     <1>15, Zenon DEF Next, Work, MakeBlock, Generate, Returns, Commit, Crash


\* Every step of the node, whatever fails, crashes or is retried, is a step of
\* the ledger whose chain is table blocks, or changes nothing of it.
THEOREM NodeIsLedger == ASSUME ~TxsInFirstBlock, SingleSource PROVE Spec => Ledger!Spec
<1>1. Init => Ledger!Init /\ LinkInv /\ StateInv /\ DriveInv
  <2>1. Init => DriveInv
    BY AtType, Zenon DEF Init, DriveInv, Where
  <2> QED BY <2>1, LedgerInit, LinkInit, StateInit, Zenon
<1>2. LinkInv /\ StateInv /\ DriveInv /\ [Next]_vars => (LinkInv /\ StateInv /\ DriveInv)'
  BY LinkStep, StateStep, DriveStep, Zenon
<1>3. /\ LinkInv /\ StateInv /\ DriveInv /\ (LinkInv /\ StateInv /\ DriveInv)' /\ [Next]_vars
      => [Ledger!Next]_(Ledger!vars)
  BY LedgerNext, Zenon DEF LedgerStep
<1> QED BY <1>1, <1>2, <1>3, PTL DEF Spec, Ledger!Spec

\* The same in the words of the property that is checked with TLC.
THEOREM ImplementsTheLedger == ASSUME ~TxsInFirstBlock, SingleSource PROVE Spec => ImplementsLedger
<1>1. [Ledger!Next]_(Ledger!vars) => [UNCHANGED <<blocks, pending, call, commit>> \/ Ledger!Next]_(Ledger!vars)
  BY Zenon
<1> QED BY <1>1, NodeIsLedger, PTL DEF ImplementsLedger, Ledger!Spec

-----------------------------------------------------------------------------
(* What is proved of the ledger holds of the node.                         *)

LP == INSTANCE LedgerProofs WITH
  height <- StoreHeight,
  time   <- IF StoreHeight = 0 THEN 0 ELSE blocks[StoreHeight].ts,
  snap   <- State,
  log    <- LedgerLog,
  draft  <- LedgerDraft

\* An INSTANCE has definitions of its own: those of LP and of Ledger are the
\* same.
LEMMA SameSpec ==
  /\ LP!Init <=> Ledger!Init
  /\ [LP!Next]_(LP!vars) <=> [Ledger!Next]_(Ledger!vars)
  /\ LP!NoDoubleSpend <=> Ledger!NoDoubleSpend
  /\ LP!TreeIsUnspent <=> Ledger!TreeIsUnspent
<1>1. LP!Init <=> Ledger!Init
  BY Zenon DEF LP!Init, Ledger!Init, LP!Empty, Ledger!Empty
<1>2. LP!vars = Ledger!vars /\ LP!vars' = Ledger!vars'
  BY Zenon DEF LP!vars, Ledger!vars
<1>3. LP!Next <=> Ledger!Next
  <2>1. \A ts : LP!StartBlock(ts) <=> Ledger!StartBlock(ts)
    BY Zenon DEF LP!StartBlock, Ledger!StartBlock, LP!PruneNonces, Ledger!PruneNonces
  <2>2. \A tx : LP!AddTx(tx) <=> Ledger!AddTx(tx)
    BY Zenon DEF LP!AddTx, Ledger!AddTx, LP!Timely, Ledger!Timely, LP!CanApply, Ledger!CanApply, LP!Applied, Ledger!Applied
  <2>3. \A tx : LP!SkipTx(tx) <=> Ledger!SkipTx(tx)
    BY Zenon DEF LP!SkipTx, Ledger!SkipTx, LP!Timely, Ledger!Timely, LP!CanApply, Ledger!CanApply, LP!FailedApply, Ledger!FailedApply
  <2>4. (LP!CommitBlock <=> Ledger!CommitBlock) /\ (LP!DropBlock <=> Ledger!DropBlock)
    BY Zenon DEF LP!CommitBlock, Ledger!CommitBlock, LP!DropBlock, Ledger!DropBlock
  <2> QED BY <2>1, <2>2, <2>3, <2>4, Zenon DEF LP!Next, Ledger!Next
<1>4. (LP!NoDoubleSpend <=> Ledger!NoDoubleSpend) /\ (LP!TreeIsUnspent <=> Ledger!TreeIsUnspent)
  BY Zenon DEF LP!NoDoubleSpend, Ledger!NoDoubleSpend, LP!TreeIsUnspent, Ledger!TreeIsUnspent
<1> QED BY <1>1, <1>2, <1>3, <1>4, Zenon

(***************************************************************************)
(* No two transactions in the stored blocks spend the same output or use   *)
(* the same nonce, and the state replayed from them holds outputs that one *)
(* of them created and none of them spent: across crashes, failed writes   *)
(* and retries.                                                            *)
(***************************************************************************)
THEOREM NodeNoDoubleSpend ==
  ASSUME ~TxsInFirstBlock, SingleSource
  PROVE  Spec => [](Ledger!NoDoubleSpend /\ Ledger!TreeIsUnspent)
<1>1. LP!Spec => []LP!NoDoubleSpend /\ []LP!TreeIsUnspent
  <2>1. /\ Timestamp \subseteq Nat
        /\ MaxHeight \in Nat
        /\ MaxBlockTxs \in Nat
        /\ None \notin [ts : Nat, snap : LP!SnapshotType, txs : Seq(Tx)]
    BY NodeAssumption, NodeLedgerAssumption, Zenon DEF LP!SnapshotType, SnapshotType
  <2>2. Expiry \in [Nonce -> Nat] /\ Tx \subseteq LP!Transaction
    BY TxAssumption, Zenon DEF LP!Transaction, Transaction
  <2> QED BY <2>1, <2>2, EntryAssumption, LP!LedgerNoDoubleSpend, LP!LedgerTreeIsUnspent, PTL
<1> QED BY <1>1, SameSpec, NodeIsLedger, PTL DEF LP!Spec, Ledger!Spec
=============================================================================
