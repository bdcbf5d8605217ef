------------------------------- MODULE Chain --------------------------------
(***************************************************************************)
(* protocol.Chain on top of txdb.Store: committing an applied block, the   *)
(* goroutine that saves snapshots, the one that hears of new heights from  *)
(* PostgreSQL, and crash recovery.  The table rows survive a crash; the    *)
(* rest is the memory of one process.                                      *)
(***************************************************************************)
EXTENDS Blocks, Integers, FiniteSets

CONSTANTS None,
          Freq,     \* saveSnapshotFrequency
          MaxFail   \* how many database calls may fail

ASSUME ChainAssumption == Freq \in Nat /\ MaxFail \in Nat /\ None \notin Block

VARIABLES blocks,      \* table blocks: height -> block
          snapshots,   \* table snapshots: height -> snapshot
          chain,       \* Chain.state: [block, snap, height]
          lastQueued,  \* Chain.lastQueuedSnapshot
          queue,       \* Chain.pendingSnapshots, a channel of capacity 1
          saving,      \* the snapshot the saver goroutine is storing
          notes,       \* NOTIFY newblock messages on their way to the listener
          commit,      \* the CommitAppliedBlock in progress: [pc, b, s]
          fails        \* database calls that have failed so far

chainVars == <<blocks, snapshots, chain, lastQueued, queue, saving, notes, commit, fails>>

Max(S) == CHOOSE x \in S : \A y \in S : y <= x

NeverQueued == -(Freq + 1)    \* the zero time.Time: long before any block
NoState == [block |-> None, snap |-> None, height |-> 0]

\* Store.Height, and the latest of the snapshot rows.
StoreHeight == Max(DOMAIN blocks \cup {0})
SnapshotHeight == Max(DOMAIN snapshots \cup {0})

ChainInit ==
  /\ blocks = [h \in {} |-> None]
  /\ snapshots = [h \in {} |-> None]
  /\ chain = NoState
  /\ lastQueued = NeverQueued
  /\ queue = None
  /\ saving = None
  /\ notes = {}
  /\ commit = None
  /\ fails = 0

\* A database call reports an error (the statement may have run all the same).
DbError == fails < MaxFail /\ fails' = fails + 1
DbOK == UNCHANGED fails

CommitAppliedBlock(b, s) == [pc |-> "save", b |-> b, s |-> s]
CommitTo(pc) == commit' = [commit EXCEPT !.pc = pc]

-----------------------------------------------------------------------------
\* Mutant: a conflict on the height is ignored too.
ConflictIgnored(b) == FALSE

\* Table blocks has a unique height and, as its primary key, a unique hash;
\* the insert ignores a conflict on the hash only.
Conflict(b) == b.height \in DOMAIN blocks /\ Hash(blocks[b.height]) # Hash(b)
Inserted(b) == [h \in DOMAIN blocks \cup {b.height} |->
                  IF h \in DOMAIN blocks THEN blocks[h] ELSE b]

\* Mutant: the snapshot is filed under the height below.
QueueSnapshotBelow(b, s) ==
  IF b.ts > lastQueued + Freq /\ queue = None
  THEN /\ queue' = [height |-> b.height - 1, snap |-> s]
       /\ lastQueued' = b.ts
  ELSE UNCHANGED <<queue, lastQueued>>

\* A snapshot is due when one was not queued for Freq; a full channel skips it.
QueueSnapshot(b, s) ==
  IF b.ts > lastQueued + Freq /\ queue = None
  THEN /\ queue' = [height |-> b.height, snap |-> s]
       /\ lastQueued' = b.ts
  ELSE UNCHANGED <<queue, lastQueued>>

SaveBlock ==
  /\ commit # None
  /\ commit.pc = "save"
  /\ \/ /\ ~Conflict(commit.b)
        /\ DbOK
        /\ blocks' = Inserted(commit.b)
        /\ QueueSnapshot(commit.b, commit.s)
        /\ CommitTo("finalize")
     \/ /\ Conflict(commit.b)
        /\ DbOK
        /\ CommitTo("error")
        /\ UNCHANGED <<blocks, queue, lastQueued>>
     \/ /\ DbError
        /\ blocks' \in {blocks, Inserted(commit.b)}
        /\ CommitTo("error")
        /\ UNCHANGED <<queue, lastQueued>>
  /\ UNCHANGED <<snapshots, chain, saving, notes>>

FinalizeBlock ==
  /\ commit # None
  /\ commit.pc = "finalize"
  /\ LET sent == notes \cup {commit.b.height} IN
     \/ DbOK /\ notes' = sent /\ CommitTo("set")
     \/ DbError /\ notes' \in {notes, sent} /\ CommitTo("error")
  /\ UNCHANGED <<blocks, snapshots, chain, lastQueued, queue, saving>>

\* Mutant: the block moves and the snapshot does not.
SetStateBlockOnly ==
  /\ commit # None
  /\ commit.pc = "set"
  /\ chain' = [chain EXCEPT !.block = commit.b,
                            !.height = Max({chain.height, commit.b.height})]
  /\ CommitTo("done")
  /\ UNCHANGED <<blocks, snapshots, lastQueued, queue, saving, notes, fails>>

SetState ==
  /\ commit # None
  /\ commit.pc = "set"
  /\ chain' = [block |-> commit.b, snap |-> commit.s,
               height |-> Max({chain.height, commit.b.height})]
  /\ CommitTo("done")
  /\ UNCHANGED <<blocks, snapshots, lastQueued, queue, saving, notes, fails>>

\* The listener goroutine of NewChain; setHeight drops heights of the past.
SetHeight(h) ==
  /\ h \in notes
  /\ notes' = notes \ {h}
  /\ chain' = [chain EXCEPT !.height = Max({h, @})]
  /\ UNCHANGED <<blocks, snapshots, lastQueued, queue, saving, commit, fails>>

\* The connection LISTENs on was reopened.
LoseNotes ==
  /\ notes # {}
  /\ notes' = {}
  /\ UNCHANGED <<blocks, snapshots, chain, lastQueued, queue, saving, commit, fails>>

\* The saver goroutine of NewChain takes a snapshot off the channel ...
TakeSnapshot ==
  /\ queue # None
  /\ saving = None
  /\ saving' = queue
  /\ queue' = None
  /\ UNCHANGED <<blocks, snapshots, chain, lastQueued, notes, commit, fails>>

\* ... and stores it; rows more than a day old, any of the others, are deleted.
SaveSnapshot ==
  /\ saving # None
  /\ \/ /\ DbOK
        /\ \E kept \in SUBSET (DOMAIN snapshots \ {saving.height}) :
             snapshots' = [h \in kept \cup {saving.height} |->
                             IF h = saving.height THEN saving.snap ELSE snapshots[h]]
     \/ DbError /\ UNCHANGED snapshots
  /\ saving' = None
  /\ UNCHANGED <<blocks, chain, lastQueued, queue, notes, commit>>

-----------------------------------------------------------------------------
\* What Recover computes from the tables before it commits the last block.
Recovered ==
  LET s == IF SnapshotHeight = 0 THEN Empty ELSE snapshots[SnapshotHeight]
      r == ReplayFrom(blocks, s, SnapshotHeight, StoreHeight)
  IN  [ok |-> r.ok /\ (SnapshotHeight > 0 => SnapshotHeight \in DOMAIN blocks), snap |-> r.snap]

\* NewChain reads the height; the process has no state yet.
NewChain ==
  /\ chain' = [NoState EXCEPT !.height = StoreHeight]
  /\ UNCHANGED <<blocks, snapshots, lastQueued, queue, saving, notes, commit, fails>>

\* Recover, up to its CommitAppliedBlock of the last block.
Recover ==
  /\ Recovered.ok
  /\ lastQueued' = IF SnapshotHeight > 0 THEN blocks[SnapshotHeight].ts ELSE lastQueued
  /\ commit' = CommitAppliedBlock(blocks[StoreHeight], Recovered.snap)
  /\ UNCHANGED <<blocks, snapshots, chain, queue, saving, notes, fails>>

\* The process ends: its memory is lost, and so are its notifications.
LoseMemory ==
  /\ chain' = NoState
  /\ lastQueued' = NeverQueued
  /\ queue' = None
  /\ saving' = None
  /\ notes' = {}
  /\ commit' = None
  /\ UNCHANGED <<blocks, snapshots>>

Background == TakeSnapshot \/ SaveSnapshot \/ LoseNotes \/ \E h \in notes : SetHeight(h)
=============================================================================
