-------------------------------- MODULE Node --------------------------------
(***************************************************************************)
(* One Chainmint process: Tendermint drives the ABCI application of app/,  *)
(* whose Commit runs Generator.MakeBlock on the Chain, while HTTP clients  *)
(* and DeliverTx submit transactions to the generator's pool.  The process *)
(* may end between any two steps and start again from its database.        *)
(***************************************************************************)
EXTENDS Chain

CONSTANTS Timestamp,        \* header times Tendermint may send, in any order
          MaxHeight,        \* no block is generated above this height
          MaxBlockTxs,      \* maxBlockTxs
          MaxPool,          \* bound on the length of the pool
          MaxCrash,         \* bound on the crashes
          Recovers,         \* whether the start-up calls Chain.Recover (chain/run.go does not)
          TxsInFirstBlock   \* transactions may arrive before the initial block exists

ASSUME NodeAssumption ==
  /\ Timestamp \subseteq Nat
  /\ MaxHeight \in Nat /\ MaxBlockTxs \in Nat /\ MaxPool \in Nat /\ MaxCrash \in Nat
  /\ Recovers \subseteq BOOLEAN /\ TxsInFirstBlock \in BOOLEAN

VARIABLES pending,    \* table generator_pending_block: one row or None
          pool,       \* Generator.pool; poolHashes holds the same transactions
          call,       \* where the ABCI connection is: [pc, time, b, s, prev, todo],
                      \* time being ChainmintApplication.BlockTime
          crashes

nodeVars == <<pending, pool, call, crashes>>
vars == <<chainVars, nodeVars>>

At(pc) == [pc |-> pc, time |-> 0, b |-> None, s |-> None, prev |-> None, todo |-> <<>>]
Goto(pc) == call' = At(pc)

Init ==
  /\ ChainInit
  /\ pending = None
  /\ pool = <<>>
  /\ call = At("down")
  /\ crashes = 0

-----------------------------------------------------------------------------
(* The process: start, recovery, crash.                                    *)

\* launchConfiguredCore: NewChain, and Recover where the start-up calls it.
Start ==
  /\ call.pc = "down"
  /\ NewChain
  /\ \E r \in Recovers : Goto(IF r THEN "start" ELSE "idle")
  /\ UNCHANGED <<pending, pool, crashes>>

RecoverChain ==
  /\ call.pc = "start"
  /\ IF StoreHeight = 0
     THEN Goto("idle") /\ UNCHANGED chainVars
     ELSE Recover /\ Goto("recover")
  /\ UNCHANGED <<pending, pool, crashes>>

Stop ==
  /\ LoseMemory
  /\ pool' = <<>>
  /\ Goto("down")
  /\ UNCHANGED <<pending, fails>>

Crash ==
  /\ call.pc # "down"
  /\ crashes < MaxCrash
  /\ crashes' = crashes + 1
  /\ Stop

\* CommitAppliedBlock returns to Recover; an error there ends the process.
RecoverReturns ==
  /\ call.pc = "recover"
  /\ \/ /\ commit.pc = "done"
        /\ commit' = None
        /\ Goto("idle")
        /\ UNCHANGED <<blocks, snapshots, chain, lastQueued, queue, saving, notes, fails>>
        /\ UNCHANGED <<pending, pool>>
     \/ /\ commit.pc = "error"
        /\ Stop
  /\ UNCHANGED crashes

-----------------------------------------------------------------------------
(* The ABCI calls and the submission of transactions.                      *)

BeginBlock(ts) ==
  /\ call.pc = "idle"
  /\ call' = [At("block") EXCEPT !.time = ts]
  /\ UNCHANGED <<chainVars, pending, pool, crashes>>

\* Generator.Submit, from DeliverTx and from the HTTP handlers, at any time.
Submit(tx) ==
  /\ call.pc # "down"
  /\ chain.block = None => TxsInFirstBlock
  /\ Len(pool) < MaxPool
  /\ \A i \in DOMAIN pool : pool[i] # tx
  /\ pool' = Append(pool, tx)
  /\ UNCHANGED <<chainVars, pending, call, crashes>>

\* Mutant: the pending row is looked for at the height of the chain.
HavePendingCurrent ==
  /\ pending # None
  /\ chain.block # None => pending.height = chain.block.height

\* MakeBlock finds a pending block that the chain does not have yet.
HavePending ==
  /\ pending # None
  /\ chain.block # None => pending.height = chain.block.height + 1

\* MakeBlock, when getPendingBlock fails.
MakeBlockError ==
  /\ call.pc = "block"
  /\ DbError
  /\ Goto("idle")
  /\ UNCHANGED <<blocks, snapshots, chain, lastQueued, queue, saving, notes, commit>>
  /\ UNCHANGED <<pending, pool, crashes>>

\* MakeBlock, when it finds a pending block: without a snapshot state.Copy
\* dereferences nil, and a block that does not apply is fatal.
MakeBlockPending ==
  /\ call.pc = "block"
  /\ HavePending
  /\ IF chain.snap # None /\ ApplyBlock(chain.snap, pending).ok
     THEN /\ commit' = CommitAppliedBlock(pending, ApplyBlock(chain.snap, pending).snap)
          /\ Goto("commit")
          /\ UNCHANGED <<blocks, snapshots, chain, lastQueued, queue, saving, notes, fails>>
          /\ UNCHANGED <<pending, pool>>
     ELSE Stop
  /\ UNCHANGED crashes

\* MakeBlock, when there is nothing pending: it empties the pool, and
\* GenerateBlock either commits an initial block first ...
MakeBlockInitial ==
  /\ call.pc = "block"
  /\ ~HavePending
  /\ chain.block = None
  /\ pool' = <<>>
  /\ LET b == InitialBlock(call.time) IN
     /\ commit' = CommitAppliedBlock(b, Empty)
     /\ call' = [At("initial") EXCEPT !.b = b, !.todo = pool]
  /\ UNCHANGED <<blocks, snapshots, chain, lastQueued, queue, saving, notes, fails>>
  /\ UNCHANGED <<pending, crashes>>

\* Mutant: a time earlier than the previous block's is accepted.
MakeBlockNextAnyTime ==
  /\ call.pc = "block"
  /\ ~HavePending
  /\ chain.block # None
  /\ chain.block.height < MaxHeight
  /\ pool' = <<>>
  /\ call' = [pc   |-> "generate", time |-> 0, b |-> EmptyBlock(chain.block, call.time),
              s    |-> PruneNonces(chain.snap, call.time),
              prev |-> chain.block, todo |-> pool]
  /\ UNCHANGED <<chainVars, pending, crashes>>

\* ... or refuses a time earlier than the previous block's (the pool is lost),
\* or starts the next block on a copy of the snapshot.
MakeBlockNext ==
  /\ call.pc = "block"
  /\ ~HavePending
  /\ chain.block # None
  /\ chain.block.height < MaxHeight
  /\ pool' = <<>>
  /\ IF call.time < chain.block.ts
     THEN Goto("idle")
     ELSE call' = [pc   |-> "generate", time |-> 0, b |-> EmptyBlock(chain.block, call.time),
                   s    |-> PruneNonces(chain.snap, call.time),
                   prev |-> chain.block, todo |-> pool]
  /\ UNCHANGED <<chainVars, pending, crashes>>

\* The initial block is committed, or not, and GenerateBlock goes on.
InitialReturns ==
  /\ call.pc = "initial"
  /\ \/ /\ commit.pc = "done"
        /\ call' = [call EXCEPT !.pc = "generate", !.s = PruneNonces(chain.snap, call.b.ts)]
     \/ /\ commit.pc = "error"
        /\ Goto("idle")
  /\ commit' = None
  /\ UNCHANGED <<blocks, snapshots, chain, lastQueued, queue, saving, notes, fails>>
  /\ UNCHANGED <<pending, pool, crashes>>

-----------------------------------------------------------------------------
(* GenerateBlock's loop over the transactions, and the rest of MakeBlock.  *)

\* One iteration of the loop.  A transaction that fails to apply is left out
\* of the block; what ApplyTx did before it failed stays in the snapshot.
GenerateTx ==
  /\ call.pc = "generate"
  /\ call.todo # <<>>
  /\ Len(call.b.txs) < MaxBlockTxs
  /\ LET tx == Head(call.todo) IN
     IF tx.valid /\ Timely(tx, call.b.ts)
     THEN IF CanApply(call.s, tx)
          THEN call' = [call EXCEPT !.todo = Tail(@), !.s = Applied(@, tx),
                                    !.b.txs = Append(@, tx)]
          ELSE \E s \in FailedApply(call.s, tx) :
                 call' = [call EXCEPT !.todo = Tail(@), !.s = s]
     ELSE call' = [call EXCEPT !.todo = Tail(@)]
  /\ UNCHANGED <<chainVars, pending, pool, crashes>>

\* The loop ends and the roots are set.  An empty block is not saved.  The
\* initial block is the one the chain's state points to: it changes there too.
GenerateDone ==
  /\ call.pc = "generate"
  /\ call.todo = <<>> \/ Len(call.b.txs) >= MaxBlockTxs
  /\ LET b == [call.b EXCEPT !.root = call.s.tree] IN
     /\ IF call.prev = None
        THEN chain' = [chain EXCEPT !.block = b]
        ELSE UNCHANGED chain
     /\ IF b.txs = <<>>
        THEN Goto("idle")
        ELSE call' = [call EXCEPT !.pc = "pending", !.b = b, !.todo = <<>>]
  /\ UNCHANGED <<blocks, snapshots, lastQueued, queue, saving, notes, commit, fails>>
  /\ UNCHANGED <<pending, pool, crashes>>

\* savePendingBlock replaces the row only by a block of a greater height.
SavePending ==
  /\ call.pc = "pending"
  /\ LET newer == pending # None => pending.height < call.b.height
         ok    == CommitAppliedBlock(call.b, call.s)
     IN \/ /\ DbOK
           /\ IF newer
              THEN pending' = call.b /\ commit' = ok /\ Goto("commit")
              ELSE Goto("idle") /\ UNCHANGED <<pending, commit>>
        \/ /\ DbError
           /\ pending' \in {pending, IF newer THEN call.b ELSE pending}
           /\ Goto("idle")
           /\ UNCHANGED commit
  /\ UNCHANGED <<blocks, snapshots, chain, lastQueued, queue, saving, notes>>
  /\ UNCHANGED <<pool, crashes>>

\* CommitAppliedBlock returns to MakeBlock, and Commit to Tendermint.
CommitReturns ==
  /\ call.pc = "commit"
  /\ commit.pc \in {"done", "error"}
  /\ commit' = None
  /\ Goto("idle")
  /\ UNCHANGED <<blocks, snapshots, chain, lastQueued, queue, saving, notes, fails>>
  /\ UNCHANGED <<pending, pool, crashes>>

-----------------------------------------------------------------------------
MakeBlock == MakeBlockError \/ MakeBlockPending \/ MakeBlockInitial \/ MakeBlockNext
Generate == GenerateTx \/ GenerateDone \/ SavePending
Returns == RecoverReturns \/ InitialReturns \/ CommitReturns
Commit == SaveBlock \/ FinalizeBlock \/ SetState

\* The steps the process takes by itself once it runs and is driven.
Work ==
  \/ Start
  \/ RecoverChain
  \/ \E ts \in Timestamp : BeginBlock(ts)
  \/ MakeBlock
  \/ Generate
  \/ Returns
  \/ Commit /\ UNCHANGED nodeVars

Next ==
  \/ Work
  \/ Background /\ UNCHANGED nodeVars
  \/ \E tx \in Tx : Submit(tx)
  \/ Crash

Spec == Init /\ [][Next]_vars

(***************************************************************************)
(* Tendermint keeps making blocks and the process is restarted when it     *)
(* ends, so some step of the ABCI thread is always taken in the end.       *)
(***************************************************************************)
FairSpec == Spec /\ WF_vars(Work)

-----------------------------------------------------------------------------
Where == {"down", "start", "recover", "idle", "block", "initial", "generate", "pending", "commit"}

TypeOK ==
  /\ \A h \in DOMAIN blocks : h \in Nat /\ blocks[h] \in Block
  /\ \A h \in DOMAIN snapshots : h \in Nat /\ snapshots[h] \in SnapshotType
  /\ chain.block \in Block \cup {None} /\ chain.snap \in SnapshotType \cup {None}
  /\ chain.height \in Nat /\ lastQueued \in Int /\ notes \subseteq Nat
  /\ queue # None => queue.snap \in SnapshotType
  /\ commit # None => commit.b \in Block /\ commit.s \in SnapshotType
  /\ pending \in Block \cup {None} /\ pool \in Seq(Tx) /\ call.time \in Nat
  /\ call.pc \in Where /\ call.todo \in Seq(Tx)
  /\ fails \in 0 .. MaxFail /\ crashes \in 0 .. MaxCrash

(***************************************************************************)
(* The stored blocks form one chain: heights without a gap, each block     *)
(* naming the hash of the one below, times that do not go back.            *)
(***************************************************************************)
ChainLinked ==
  /\ DOMAIN blocks = 1 .. StoreHeight
  /\ \A h \in 2 .. StoreHeight : /\ blocks[h].prev = Hash(blocks[h - 1])
                                 /\ blocks[h].ts >= blocks[h - 1].ts

(***************************************************************************)
(* Whatever has been stored when the process ends, Recover succeeds, and   *)
(* from whichever snapshot row is the latest it rebuilds the state that    *)
(* the blocks determine.                                                   *)
(***************************************************************************)
RecoverOK ==
  /\ Recovered.ok
  /\ Recovered.snap = Replay(blocks, StoreHeight).snap

(***************************************************************************)
(* The state in memory is the state of a stored block: the last one, or    *)
(* the one below while the last is being committed (or failed to be).      *)
(***************************************************************************)
StateIsStored ==
  chain.block # None =>
    /\ chain.block.height \in {StoreHeight - 1, StoreHeight}
    /\ chain.block = blocks[chain.block.height]
    /\ chain.snap = Replay(blocks, chain.block.height).snap

(***************************************************************************)
(* The height BlockWaiter wakes its callers for never runs ahead of the    *)
(* blocks they then read from the store.                                   *)
(***************************************************************************)
WaiterFindsBlock == chain.height <= StoreHeight

(***************************************************************************)
(* The generator commits no block but the pending one: the pending row is  *)
(* the block stored at its height, or the next one and then it applies.    *)
(***************************************************************************)
PendingIsNext ==
  pending # None =>
    \/ pending.height \in DOMAIN blocks /\ pending = blocks[pending.height]
    \/ /\ pending.height = StoreHeight + 1
       /\ pending.prev = Hash(blocks[StoreHeight])
       /\ ApplyBlock(Replay(blocks, StoreHeight).snap, pending).ok

(***************************************************************************)
(* What the process goes on from fits what the tables hold, whichever call *)
(* failed or was cut off: its state, the height it wakes waiters for, and  *)
(* the pending block.                                                      *)
(***************************************************************************)
MemoryFitsTables == StateIsStored /\ WaiterFindsBlock /\ PendingIsNext

(***************************************************************************)
(* GenerateBlock "returns the new block and a snapshot of what the state   *)
(* snapshot is if the block is applied".                                   *)
(***************************************************************************)
SnapshotIsApplied ==
  call.pc = "pending" /\ call.prev # None =>
    ApplyBlock(chain.snap, call.b) = [ok |-> TRUE, snap |-> call.s]

(***************************************************************************)
(* A pending block is committed in the end: MakeBlock finds it again       *)
(* after an error or a restart.                                            *)
(***************************************************************************)
PendingCommitted ==
  \A h \in 1 .. MaxHeight :
    (pending # None /\ pending.height = h) ~> (h \in DOMAIN blocks)

Applies(h) == chain.block # None /\ chain.block.height >= h

(***************************************************************************)
(* "Once the block is committed to persistent storage, the block has been  *)
(* applied": the process gets to the state of every stored block, although *)
(* FinalizeBlock may fail and the process may restart.                     *)
(***************************************************************************)
StoredIsApplied ==
  \A h \in 2 .. MaxHeight : (h \in DOMAIN blocks) ~> Applies(h)

(***************************************************************************)
(* Both: what MakeBlock has begun is finished by a later call, at the      *)
(* latest after a restart.                                                 *)
(***************************************************************************)
BegunIsFinished == PendingCommitted /\ StoredIsApplied

(***************************************************************************)
(* The same of the initial block, which has no pending row: the            *)
(* next MakeBlock makes another one, with the time of the next header.     *)
(***************************************************************************)
InitialIsApplied == (1 \in DOMAIN blocks) ~> Applies(1)
=============================================================================
