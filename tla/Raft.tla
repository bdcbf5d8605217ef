-------------------------------- MODULE Raft --------------------------------
(***************************************************************************)
(* database/raft: a key-value store replicated by etcd's raft library.     *)
(*                                                                         *)
(* The library is external and modelled by what the code relies on: one    *)
(* log of committed entries, an entry being committed when a quorum has    *)
(* saved it in their write-ahead logs; members that are behind get the     *)
(* entries they miss, or a snapshot when the sender has compacted them.    *)
(* A member applies committed entries in order, on top of its snapshot     *)
(* after a restart.                                                        *)
(*                                                                         *)
(* The code is modelled from the start of a process (recover, join) over   *)
(* the goroutine runUpdates and the snapshots it writes to the calls of    *)
(* clients and of processes that join.  A crash can come between any two   *)
(* writes to the disk.                                                     *)
(***************************************************************************)
EXTENDS Integers, Sequences, FiniteSets

CONSTANTS
  Procs, Boot,       \* processes; Boot is the first member
  Allowed,           \* processes that may join
  Calls, Script,     \* calls of clients: Script[c] = [at, op, key]
  snapCount,         \* entries between two snapshots (10000 in the code)
  nSnapCatchupEntries, \* entries kept behind a snapshot (10000)
  MaxLog, MaxFaults, MaxTries, \* bounds: the log, crashes and failed writes, tries to join
  None

VARIABLES
  log,       \* the committed entries
  proposed,  \* entries given to the library, neither committed nor lost
  proc,      \* the memory of each process
  disk,      \* its files: id, snap and the directory wal
  call,      \* the calls in progress: of clients and of processes that join
  acked,     \* the last log index whose write was reported done to a caller
  faults     \* crashes and failed writes so far

raftVars == <<log, proposed, proc, disk, call, acked, faults>>

Joiners == Procs \ {Boot}
Callers == Calls \cup Joiners
Keys == {Script[c].key : c \in Calls}
nextNodeID == "raft/nextNodeID"
AllKeys == Keys \cup Joiners \cup {nextNodeID}  \* "/raft/allowed/j" is j

\* Clients leave the keys of the service itself alone.
ASSUME RaftAssumption ==
  /\ Boot \in Procs /\ Allowed \subseteq Joiners /\ Cardinality(Allowed) \in Nat
  /\ Calls \cap Procs = {} /\ \A c \in Calls : Script[c].at \in Procs
  /\ Keys \cap Joiners = {} /\ nextNodeID \notin Keys \cup Joiners
  /\ nSnapCatchupEntries \in Nat /\ None \notin {"ok", "unsatisfied"}
-----------------------------------------------------------------------------
(* state/state.go                                                          *)

New ==
  [kv |-> [k \in AllKeys |-> IF k = nextNodeID THEN 2 ELSE None],
   version |-> [k \in AllKeys |-> 0], peers |-> {}, applied |-> 0]

\* An instruction: a condition on a key, then an operation on it.  The
\* condition is none, that the key is absent, or that it has a version.
NoCond == -1
NotKeyExists == -2
Instr(cond, op, key, val) == [cond |-> cond, op |-> op, key |-> key, val |-> val]
Set(key, val) == Instr(NoCond, "set", key, val)
Insert(key, val) == Instr(NotKeyExists, "set", key, val)
Delete(key) == Instr(NoCond, "delete", key, None)
AddAllowedMember(addr) == Set(addr, addr)
IncrementNextNodeID(oldID, index) == Instr(index, "set", nextNodeID, oldID + 1)

Satisfied(s, i) ==
  CASE i.cond = NoCond -> TRUE
    [] i.cond = NotKeyExists -> s.kv[i.key] = None
    [] OTHER -> s.version[i.key] = i.cond

\* The applied index moves whether or not the condition holds.
Apply(s, i, index) ==
  IF ~Satisfied(s, i) THEN [s EXCEPT !.applied = index]
  ELSE [s EXCEPT !.applied = index,
                 !.kv[i.key] = i.val,
                 !.version[i.key] = IF i.op = "delete" THEN 0 ELSE index]

\* A snapshot holds the values and the peers but not the versions; those in
\* memory stay as they are.
Snapshot(s, whole) == [index |-> s.applied, kv |-> s.kv, peers |-> s.peers, whole |-> whole]
\* Mutant: the values are not restored.
RestoreSnapshotIndex(s, snap) == [s EXCEPT !.peers = snap.peers, !.applied = snap.index]
RestoreSnapshot(s, snap) ==
  [s EXCEPT !.kv = snap.kv, !.peers = snap.peers, !.applied = snap.index]
NoSnapshot == Snapshot(New, TRUE)
-----------------------------------------------------------------------------
(* Entries of the log.                                                     *)

Normal(caller, instr) == [type |-> "normal", wctx |-> caller, instr |-> instr]
AddNode(id, addr) == [type |-> "conf", id |-> id, addr |-> addr]
Empty == [type |-> "empty"]  \* what the library commits after an election
Dummy(c) == [type |-> "dummy", wctx |-> c]  \* the write of "/dummyWrite" during a get

ApplyEntry(s, e, index) ==
  CASE e.type = "normal" -> Apply(s, e.instr, index)
    [] e.type = "conf" -> [s EXCEPT !.applied = index, !.peers = @ \cup {[id |-> e.id, addr |-> e.addr]}]
    [] OTHER -> [s EXCEPT !.applied = index]

\* What the entries of a log make of a new state.
ReplayOf(l) ==
  LET r[n \in 0 .. Len(l)] == IF n = 0 THEN New ELSE ApplyEntry(r[n - 1], l[n], n) IN r[Len(l)]
Replay(n) == ReplayOf(SubSeq(log, 1, n))
Members(n) == {log[i].id : i \in {j \in 1 .. n : log[j].type = "conf"}}
-----------------------------------------------------------------------------
Up(p) == proc[p].up = "up"

NoWal == [exists |-> FALSE, saved |-> 0, snaps |-> {}]
NewWal == [exists |-> TRUE, saved |-> 0, snaps |-> {0}]
NewDisk == [id |-> 0, snap |-> NoSnapshot, wal |-> NoWal]

\* The memory of a process after Start, with state s and the library started
\* on the snapshot snap.
Started(id, s, snap) ==
  [up |-> "up", pc |-> "ready", id |-> id, st |-> s, next |-> snap.index, snapIndex |-> snap.index,
   stored |-> snap, taken |-> NoSnapshot, first |-> snap.index + 1, writers |-> {},
   missed |-> ~snap.whole]
Down == [Started(0, New, NoSnapshot) EXCEPT !.up = "down"]

NoCall == [phase |-> "idle", at |-> None, try |-> 0, instr |-> None, id |-> 0, snap |-> NoSnapshot,
           floor |-> 0, index |-> 0, dummy |-> FALSE, missed |-> FALSE, result |-> None]

\* The first member has been started, has elected itself, and has been told
\* which addresses may join, in some order.
Orders ==
  {f \in [1 .. Cardinality(Allowed) -> Allowed] : \A x, y \in DOMAIN f : f[x] = f[y] => x = y}
BootLog(f) ==
  <<AddNode(1, Boot), Empty>>
  \o [i \in 1 .. Cardinality(Allowed) |-> Normal(<<f[i], 0>>, AddAllowedMember(f[i]))]
InitWith(calls, n) ==
  /\ \E f \in Orders : log = BootLog(f)
  /\ proposed = {}
  /\ proc = [p \in Procs |->
               IF p # Boot THEN Down
               ELSE [Started(1, ReplayOf(log), NoSnapshot) EXCEPT !.next = Len(log)]]
  /\ disk = [p \in Procs |->
               IF p # Boot THEN NewDisk ELSE [NewDisk EXCEPT !.id = 1, !.wal = [NewWal EXCEPT !.saved = Len(log)]]]
  /\ call = calls
  /\ acked = 0
  /\ faults = n
RaftInit == InitWith([c \in Callers |-> NoCall], 0)
-----------------------------------------------------------------------------
(* The library (external).                                                 *)

\* Members that are up, have all that is committed and wait for more.
Following == {p \in Procs : Up(p) /\ proc[p].pc = "ready" /\ proc[p].id \in Members(Len(log))
                            /\ disk[p].wal.saved = Len(log)}

\* A quorum saves an entry, which commits it.
Append1(e) ==
  /\ Len(log) < MaxLog
  /\ \E Q \in SUBSET Following :
       /\ 2 * Cardinality(Q) > Cardinality(Members(Len(log)))
       /\ disk' = [p \in Procs |-> IF p \in Q THEN [disk[p] EXCEPT !.wal.saved = @ + 1] ELSE disk[p]]
  /\ log' = Append(log, e)
Commit ==
  /\ \E e \in proposed : Append1(e) /\ proposed' = proposed \ {e}
  /\ UNCHANGED <<proc, call, acked, faults>>
Elect ==
  /\ log[Len(log)].type # "empty"
  /\ Append1(Empty)
  /\ UNCHANGED <<proposed, proc, call, acked, faults>>
Lose ==
  /\ \E e \in proposed : proposed' = proposed \ {e}
  /\ UNCHANGED <<log, proc, disk, call, acked, faults>>
-----------------------------------------------------------------------------
(* runUpdates                                                              *)

\* wal.Save: entries that another member still has.
SaveEntries(p) ==
  /\ Up(p) /\ proc[p].pc = "ready"
  /\ \E q \in Procs :
       /\ Up(q) /\ disk[q].wal.saved > disk[p].wal.saved
       /\ proc[q].first <= disk[p].wal.saved + 1
       /\ disk' = [disk EXCEPT ![p].wal.saved = disk[q].wal.saved]
  /\ UNCHANGED <<log, proposed, proc, call, acked, faults>>

\* Broadcast wakes the callers that sleep in wait or in waitForNode at p.
Woken(cs, p) ==
  [c \in Callers |-> IF cs[c].at = p /\ cs[c].phase = "asleep" THEN [cs[c] EXCEPT !.phase = "awake"] ELSE cs[c]]

\* applyEntry for the next committed entry.  Its caller, if it called here, is
\* told the outcome.  An empty entry is applied without a broadcast.
Told(cs, p, e, sat) ==
  IF e.type = "normal" /\ e.wctx \in proc[p].writers
  THEN [cs EXCEPT ![e.wctx[1]] =
          IF @.phase = "waiting" /\ @.try = e.wctx[2]
          THEN [@ EXCEPT !.phase = "told", !.result = IF sat THEN "ok" ELSE "unsatisfied",
                         !.missed = proc[p].missed] ELSE @]
  ELSE cs

\* After the last entry a snapshot is due every snapCount entries.
RunUpdatesReady(p) ==
  /\ Up(p) /\ proc[p].pc = "ready"
  /\ proc[p].next < disk[p].wal.saved
  /\ LET i == proc[p].next + 1
         e == log[i]
         s == ApplyEntry(proc[p].st, e, i)
         sat == e.type = "normal" => Satisfied(proc[p].st, e.instr)
     IN /\ proc' = [proc EXCEPT ![p].st = s, ![p].next = i,
                                ![p].writers = IF e.type = "normal" THEN @ \ {e.wctx} ELSE @,
                                ![p].pc = IF i > proc[p].snapIndex + snapCount THEN "snapshot" ELSE "ready"]
        /\ call' = IF e.type = "empty" THEN call ELSE Woken(Told(call, p, e, sat), p)
        /\ acked' = IF Told(call, p, e, sat) # call /\ sat /\ i > acked THEN i ELSE acked
  /\ UNCHANGED <<log, proposed, disk, faults>>

\* getSnapshot: the library refuses a snapshot that is not newer than the one
\* it has; in runUpdates that panic ends the goroutine and the service.
CanSnapshot(p) == proc[p].st.applied > proc[p].stored.index

\* The calls at p are answered, but not those of cs in waitForNode.
Answered(p, cs) ==
  [c \in Callers |->
     IF /\ call[c].at = p /\ call[c].phase \notin {"idle", "done"}
        /\ c \in cs => call[c].phase \notin {"awake", "asleep", "snapshot"}
     THEN [call[c] EXCEPT !.phase = "done", !.result = "shutdown"] ELSE call[c]]

\* Calls end when the service does, except those in waitForNode.
Exited(p) == Answered(p, Joiners)

GetSnapshot(p) ==
  /\ Up(p) /\ proc[p].pc = "snapshot"
  /\ IF CanSnapshot(p)
     THEN LET snap == Snapshot(proc[p].st, ~proc[p].missed)
          IN /\ proc' = [proc EXCEPT ![p].stored = snap, ![p].taken = snap, ![p].pc = "savePosition"]
             /\ UNCHANGED call
     ELSE /\ proc' = [proc EXCEPT ![p].up = "exited"]
          /\ call' = Exited(p)
  /\ UNCHANGED <<log, proposed, disk, acked, faults>>

\* A snapshot of another member for one that is too far behind.  The new
\* state goes to the files and to the library; the state in memory stays.
ReceiveSnapshot(p) ==
  /\ Up(p) /\ proc[p].pc = "ready"
  /\ \E q \in Procs :
       /\ Up(q) /\ proc[q].first > disk[p].wal.saved + 1
       /\ proc[q].stored.index > disk[p].wal.saved
       /\ proc' = [proc EXCEPT ![p].taken = proc[q].stored, ![p].pc = "receivePosition"]
  /\ UNCHANGED <<log, proposed, disk, call, acked, faults>>

\* The position of the snapshot goes to the log before the snapshot goes to
\* its file (triggerSnapshot and runUpdatesReady).
SavePosition(p) ==
  /\ Up(p) /\ proc[p].pc \in {"savePosition", "receivePosition"}
  /\ disk' = [disk EXCEPT ![p].wal.snaps = @ \cup {proc[p].taken.index},
                          ![p].wal.saved = IF @ < proc[p].taken.index THEN proc[p].taken.index ELSE @]
  /\ proc' = [proc EXCEPT ![p].pc = IF @ = "savePosition" THEN "saveFile" ELSE "receiveFile"]
  /\ UNCHANGED <<log, proposed, call, acked, faults>>

Compacted(index) == IF index > nSnapCatchupEntries THEN index - nSnapCatchupEntries ELSE 1
SaveFile(p) ==
  /\ Up(p) /\ proc[p].pc = "saveFile"
  /\ disk' = [disk EXCEPT ![p].snap = proc[p].taken]
  /\ proc' = [proc EXCEPT ![p].pc = "ready", ![p].snapIndex = proc[p].taken.index,
                          ![p].first = Compacted(proc[p].taken.index) + 1, ![p].taken = NoSnapshot]
  /\ UNCHANGED <<log, proposed, call, acked, faults>>
ReceiveFile(p) ==
  /\ Up(p) /\ proc[p].pc = "receiveFile"
  /\ disk' = [disk EXCEPT ![p].snap = proc[p].taken]
  /\ LET snap == proc[p].taken
     IN proc' = [proc EXCEPT ![p].pc = "ready", ![p].snapIndex = snap.index, ![p].first = snap.index + 1,
                             ![p].next = snap.index, ![p].stored = snap, ![p].taken = NoSnapshot,
                             ![p].missed = TRUE]
  /\ UNCHANGED <<log, proposed, call, acked, faults>>
-----------------------------------------------------------------------------
(* exec: Set, Insert and Delete of clients, and the conditional increment  *)
(* of a process that joins.                                                *)

Wctx(c) == <<c, call[c].try>>
Instruction(c) ==
  CASE Script[c].op = "set" -> Set(Script[c].key, c)
    [] Script[c].op = "insert" -> Insert(Script[c].key, c)
    [] OTHER -> Delete(Script[c].key)

Put(c, x) == call' = [call EXCEPT ![c] = x]
Finish(c, result) == Put(c, [call[c] EXCEPT !.phase = "done", !.result = result])

Exec(c) ==
  /\ call[c].phase = "idle" /\ Script[c].op # "get" /\ Up(Script[c].at)
  /\ Put(c, [call[c] EXCEPT !.phase = "exec", !.at = Script[c].at, !.instr = Instruction(c)])
  /\ UNCHANGED <<log, proposed, proc, disk, acked, faults>>

\* runUpdates takes the request between two updates.
Register(c) ==
  /\ call[c].phase = "exec" /\ proc[call[c].at].pc = "ready"
  /\ proc' = [proc EXCEPT ![call[c].at].writers = @ \cup {Wctx(c)}]
  /\ Put(c, [call[c] EXCEPT !.phase = "propose"])
  /\ UNCHANGED <<log, proposed, disk, acked, faults>>
Propose(c) ==
  /\ call[c].phase = "propose"
  /\ proposed' = proposed \cup {Normal(Wctx(c), call[c].instr)}
  /\ Put(c, [call[c] EXCEPT !.phase = "waiting"])
  /\ UNCHANGED <<log, proc, disk, acked, faults>>

\* Propose fails: the request is withdrawn.
ProposeFails(c) ==
  /\ call[c].phase = "propose" /\ proc[call[c].at].pc = "ready"
  /\ proc' = [proc EXCEPT ![call[c].at].writers = @ \ {Wctx(c)}]
  /\ Finish(c, "failed")
  /\ UNCHANGED <<log, proposed, disk, acked, faults>>

\* The minute is over; the entry may still be committed.
ExecTimeout(c) ==
  /\ call[c].phase = "waiting"
  /\ Finish(c, "timeout")
  /\ UNCHANGED <<log, proposed, proc, disk, acked, faults>>
Return(c) ==
  /\ c \in Calls /\ call[c].phase = "told"
  /\ Put(c, [call[c] EXCEPT !.phase = "done"])
  /\ UNCHANGED <<log, proposed, proc, disk, acked, faults>>
-----------------------------------------------------------------------------
(* Get                                                                     *)

Get(c) ==
  /\ call[c].phase = "idle" /\ Script[c].op = "get"
  /\ Up(Script[c].at) /\ proc[Script[c].at].pc = "ready"
  /\ Put(c, [call[c] EXCEPT !.phase = "reading", !.at = Script[c].at, !.floor = acked])
  /\ UNCHANGED <<log, proposed, proc, disk, acked, faults>>

\* The library answers ReadIndex with what is committed (replyReadIndex).  A
\* get that times out before that starts again.
QuorumUp ==
  2 * Cardinality({p \in Procs : Up(p) /\ proc[p].id \in Members(Len(log))}) > Cardinality(Members(Len(log)))
ReplyReadIndex(c) ==
  /\ call[c].phase = "reading" /\ proc[call[c].at].pc = "ready" /\ QuorumUp
  /\ Put(c, [call[c] EXCEPT !.phase = "awake", !.index = Len(log)])
  /\ UNCHANGED <<log, proposed, proc, disk, acked, faults>>

\* A write that makes sure something is applied while a get waits.
DummyWrite(c) ==
  /\ call[c].phase \in {"reading", "awake", "asleep"} /\ c \in Calls /\ ~call[c].dummy
  /\ proposed' = proposed \cup {Dummy(c)}
  /\ Put(c, [call[c] EXCEPT !.dummy = TRUE])
  /\ UNCHANGED <<log, proc, disk, acked, faults>>

waitNot(c) ==
  /\ c \in Calls /\ call[c].phase = "awake"
  /\ Put(c, [call[c] EXCEPT !.phase = "read"])
  /\ UNCHANGED <<log, proposed, proc, disk, acked, faults>>
wait(c) ==
  /\ c \in Calls /\ call[c].phase = "awake"
  /\ Put(c, [call[c] EXCEPT !.phase = IF proc[call[c].at].st.applied < call[c].index THEN "asleep" ELSE "read"])
  /\ UNCHANGED <<log, proposed, proc, disk, acked, faults>>
StaleGet(c) ==
  /\ call[c].phase = "read"
  /\ LET s == proc[call[c].at].st
     IN Put(c, [call[c] EXCEPT !.phase = "done", !.index = s.applied, !.result = s.kv[Script[c].key],
                               !.missed = proc[call[c].at].missed])
  /\ UNCHANGED <<log, proposed, proc, disk, acked, faults>>
-----------------------------------------------------------------------------
(* join and, at the member it asks, serveJoin                              *)

\* Start finds no log and a URL to join; NextNodeID is read under the lock.
Alloc(j, p) ==
  LET s == proc[p].st
  IN [call[j] EXCEPT !.phase = "exec", !.at = p, !.try = @ + 1, !.id = s.kv[nextNodeID],
                     !.instr = IncrementNextNodeID(s.kv[nextNodeID], s.version[nextNodeID])]
Join(j, p) ==
  /\ call[j].phase \in {"idle", "done"} /\ call[j].try < MaxTries
  /\ proc[j].up = "down" /\ ~disk[j].wal.exists
  /\ Up(p)
  /\ Put(j, Alloc(j, p))
  /\ UNCHANGED <<log, proposed, proc, disk, acked, faults>>
AllocAgain(j) ==
  /\ call[j].phase = "told" /\ call[j].result = "unsatisfied" /\ call[j].try < MaxTries
  /\ Put(j, Alloc(j, call[j].at))
  /\ UNCHANGED <<log, proposed, proc, disk, acked, faults>>

\* isAllowedMember, a Get: it reads once all that was committed is applied.
IsAllowedMember(j) == proc[call[j].at].st.kv[j] # None
ServeJoin(j) ==
  /\ call[j].phase = "told" /\ call[j].result = "ok"
  /\ proc[call[j].at].st.applied = Len(log)
  /\ IF IsAllowedMember(j)
     THEN /\ proposed' = proposed \cup {AddNode(call[j].id, j)}
          /\ Put(j, [call[j] EXCEPT !.phase = "awake"])
     ELSE /\ Finish(j, "refused")
          /\ UNCHANGED proposed
  /\ UNCHANGED <<log, proc, disk, acked, faults>>
waitForNode(j) ==
  /\ j \in Joiners /\ call[j].phase = "awake"
  /\ LET known == \E peer \in proc[call[j].at].st.peers : peer.id = call[j].id
     IN Put(j, [call[j] EXCEPT !.phase = IF known THEN "snapshot" ELSE "asleep"])
  /\ UNCHANGED <<log, proposed, proc, disk, acked, faults>>

\* getSnapshot may panic here too; net/http then drops the connection.
JoinSnapshot(j) ==
  /\ call[j].phase = "snapshot"
  /\ LET p == call[j].at
         snap == Snapshot(proc[p].st, ~proc[p].missed)
     IN IF CanSnapshot(p)
        THEN /\ proc' = [proc EXCEPT ![p].stored = snap]
             /\ Put(j, [call[j] EXCEPT !.phase = "writeID", !.snap = snap])
        ELSE /\ Finish(j, "failed")
             /\ UNCHANGED proc
  /\ UNCHANGED <<log, proposed, disk, acked, faults>>

\* The process that joins writes its files one by one, then starts.
JoinStep(j, from, to, d) ==
  /\ call[j].phase = from
  /\ disk' = [disk EXCEPT ![j] = d]
  /\ Put(j, [call[j] EXCEPT !.phase = to, !.at = None])
  /\ UNCHANGED <<log, proposed, acked, faults>>
JoinWriteID(j) == JoinStep(j, "writeID", "createWal", [disk[j] EXCEPT !.id = call[j].id]) /\ UNCHANGED proc
JoinCreateWal(j) == JoinStep(j, "createWal", "position", [disk[j] EXCEPT !.wal = NewWal]) /\ UNCHANGED proc
JoinPosition(j) ==
  /\ JoinStep(j, "position", "file", [disk[j] EXCEPT !.wal.snaps = @ \cup {call[j].snap.index}])
  /\ UNCHANGED proc
JoinFile(j) ==
  /\ JoinStep(j, "file", "restore", [disk[j] EXCEPT !.snap = call[j].snap])
  /\ UNCHANGED proc
JoinRestore(j) ==
  /\ JoinStep(j, "restore", "done", [disk[j] EXCEPT !.wal.saved = call[j].snap.index])
  /\ proc' = [proc EXCEPT ![j] = Started(call[j].id, RestoreSnapshot(New, call[j].snap), call[j].snap)]
-----------------------------------------------------------------------------
(* Faults                                                                  *)

\* A process stops; calls at it are answered by nobody.  A process that
\* joins loses what it had not written.
Crash(p) ==
  /\ faults < MaxFaults
  /\ proc[p].up # "down" \/ (p \in Joiners /\ call[p].phase \notin {"idle", "done"})
  /\ proc' = [proc EXCEPT ![p] = Down]
  /\ LET cs == Answered(p, {})
     IN call' = IF p \in Joiners /\ cs[p].phase # "idle"
                THEN [cs EXCEPT ![p].phase = "done", ![p].result = "shutdown", ![p].at = None] ELSE cs
  /\ faults' = faults + 1
  /\ UNCHANGED <<log, proposed, disk, acked>>

\* A write of a snapshot's position or file fails once; redo runs
\* triggerSnapshot again from the start.
Redo(p) ==
  /\ faults < MaxFaults
  /\ Up(p) /\ proc[p].pc \in {"savePosition", "saveFile"}
  /\ proc' = [proc EXCEPT ![p].pc = "snapshot"]
  /\ faults' = faults + 1
  /\ UNCHANGED <<log, proposed, disk, call, acked>>

\* recover: the file snap, then the log opened at its position, which must
\* have been saved to the log.
Recover(p) ==
  /\ proc[p].up = "down" /\ disk[p].wal.exists
  /\ p \in Joiners => call[p].phase \in {"idle", "done"}
  /\ LET snap == disk[p].snap
     IN IF snap.index \in disk[p].wal.snaps
        THEN /\ proc' = [proc EXCEPT ![p] = Started(disk[p].id, RestoreSnapshot(New, snap), snap)]
             /\ disk' = [disk EXCEPT ![p].wal.saved = IF @ < snap.index THEN snap.index ELSE @]
        ELSE /\ proc' = [proc EXCEPT ![p].up = "unrecoverable"]
             /\ UNCHANGED disk
  /\ UNCHANGED <<log, proposed, call, acked, faults>>
-----------------------------------------------------------------------------
RaftNext ==
  \/ Commit \/ Elect \/ Lose
  \/ \E p \in Procs : \/ SaveEntries(p) \/ RunUpdatesReady(p) \/ GetSnapshot(p) \/ ReceiveSnapshot(p)
                      \/ SavePosition(p) \/ SaveFile(p) \/ ReceiveFile(p)
                      \/ Crash(p) \/ Redo(p) \/ Recover(p)
  \/ \E c \in Calls : \/ Exec(c) \/ Return(c) \/ Get(c) \/ ReplyReadIndex(c)
                      \/ DummyWrite(c) \/ wait(c) \/ StaleGet(c)
  \/ \E c \in Callers : Register(c) \/ Propose(c) \/ ProposeFails(c) \/ ExecTimeout(c)
  \/ \E j \in Joiners : \/ AllocAgain(j) \/ ServeJoin(j) \/ waitForNode(j) \/ JoinSnapshot(j)
                        \/ JoinWriteID(j) \/ JoinCreateWal(j) \/ JoinPosition(j) \/ JoinFile(j) \/ JoinRestore(j)
  \/ \E j \in Joiners, p \in Procs : Join(j, p)
RaftSpec == RaftInit /\ [][RaftNext]_raftVars
-----------------------------------------------------------------------------
(* Properties                                                              *)

RaftTypeOK ==
  /\ \A p \in Procs :
       /\ proc[p].up \in {"down", "up", "exited", "unrecoverable"}
       /\ proc[p].pc \in {"ready", "snapshot", "savePosition", "saveFile", "receivePosition", "receiveFile"}
       /\ proc[p].st.applied <= proc[p].next /\ proc[p].next <= disk[p].wal.saved
       /\ disk[p].wal.saved <= Len(log)
  /\ acked <= Len(log)

\* What a member that has received no snapshot over the wire holds for the keys
\* of clients is what the log up to its applied index says, through every
\* crash, recovery, join and snapshot (applyEntry, recover, join).
StateIsReplay ==
  \A p \in Procs : Up(p) /\ ~proc[p].missed =>
    /\ \A k \in Keys : proc[p].st.kv[k] = Replay(proc[p].st.applied).kv[k]
    /\ proc[p].st.peers = Replay(proc[p].st.applied).peers

\* Get sees every write that was reported done before it began, on a member
\* that received no snapshot over the wire (get, wait).
GetIsLinearizable ==
  \A c \in Calls : Script[c].op = "get" /\ call[c].phase = "done" /\ call[c].result # "shutdown" /\ ~call[c].missed =>
    /\ call[c].floor <= call[c].index
    /\ call[c].result = Replay(call[c].index).kv[Script[c].key]

\* A call that was told its condition held or failed was told what the log says
\* of its entry, on every path: apply order, restarts, late answers, unless the member
\* had received a snapshot over the wire (exec, applyEntry).
OutcomeIsLogged ==
  \A c \in Calls : Script[c].op # "get" /\ call[c].result \in {"ok", "unsatisfied"} =>
    \E i \in 1 .. Len(log) :
      /\ log[i] = Normal(Wctx(c), call[c].instr)
      /\ call[c].missed \/ (call[c].result = "ok") = Satisfied(Replay(i - 1), call[c].instr)

\* The log on disk can always be opened at the position of the snapshot on
\* disk: "This ensures we never try to open the WAL at an index that was not
\* saved to the WAL" (triggerSnapshot, runUpdatesReady, join).
WalOpensAtSnapshot ==
  \A p \in Procs : disk[p].wal.exists => disk[p].snap.index \in disk[p].wal.snaps

\* What is on a member's disk and in its memory is a state of the log, and the next
\* start can open it, wherever the last one ended (recover, triggerSnapshot, join).
RecoversTheLog == StateIsReplay /\ WalOpensAtSnapshot

\* What a call was told, a value or the outcome of a condition, is what the log says,
\* in spite of restarts, time-outs and repeated proposals (get, exec, applyEntry).
AnswersAreLogged == GetIsLinearizable /\ OutcomeIsLogged

\* No two members are given the same ID (allocNodeID, NextNodeID).
NodeIDsUnique ==
  \A i, j \in 1 .. Len(log) : log[i].type = "conf" /\ log[j].type = "conf" /\ i # j => log[i].id # log[j].id
=============================================================================
