--------------------------- MODULE PinRaftProofs ----------------------------
(***************************************************************************)
(* Two services that the node is built on, for every value of their        *)
(* constants: the pins of block processors, and the processes of the raft  *)
(* service.  Neither uses facts of the other.  RaftProofs goes on with the *)
(* calls of the raft service and has its theorems.                         *)
(***************************************************************************)
EXTENDS Pin, Raft, WellFoundedInduction, TLAPS

-----------------------------------------------------------------------------
(***************************************************************************)
(* A pin covers only handled blocks, and callbacks run after what they     *)
(* wait for, for any pins, waits between them, number of workers and       *)
(* length of the chain.                                                    *)
(***************************************************************************)

\* Every block from 1 to h is in S.
Covered(S, h) == \A k \in Nat : 1 <= k /\ k <= h => k \in S

(***************************************************************************)
(* Everything complete reads (the goroutines about to run it, the heights  *)
(* it keeps) and everything it writes (the pin, its row, the messages to   *)
(* the listeners) is covered by what the callbacks have handled.           *)
(***************************************************************************)
PinInv ==
  /\ TypeOK
  /\ \A p \in Name : completed[p] \subseteq processed[p] /\ ran[p] \subseteq processed[p]
  /\ \A p \in Name : Covered(processed[p], height[p]) /\ Covered(processed[p], row[p])
  /\ \A p \in Name : \A h \in notes[p] : Covered(processed[p], h)

NeedsInv ==
  \A n \in Needs : \A h \in processed[n[1]] : Covered(processed[n[2]], h - n[3])

LEMMA InitInv == Init => PinInv /\ NeedsInv
BY PinAssumption DEF Init, PinInv, NeedsInv, TypeOK, Covered, Height, Absent

-----------------------------------------------------------------------------
LEMMA TypeStep == TypeOK /\ [Next]_vars => TypeOK'
<1> SUFFICES ASSUME TypeOK, [Next]_vars PROVE TypeOK'
  BY Zenon
<1> USE DEF TypeOK, Height, Absent
<1>1. CASE NewBlock
  BY <1>1 DEF NewBlock
<1>2. ASSUME NEW p \in Name, CreatePin(p) PROVE TypeOK'
  BY <1>2, Zenon DEF CreatePin
<1>3. ASSUME NEW p \in Name, ProcessBlocks(p) PROVE TypeOK'
  BY <1>3, Zenon DEF ProcessBlocks
<1>4. ASSUME NEW p \in Name, Spawn(p) PROVE TypeOK'
  <2>1. next[p] + 1 \in Nat
    BY <1>4 DEF Spawn
  <2> QED BY <1>4, <2>1, Zenon DEF Spawn
<1>5. ASSUME NEW p \in Name, NEW h \in running[p], Callback(p, h) PROVE TypeOK'
  BY <1>5, Zenon DEF Callback
<1>6. ASSUME NEW p \in Name, NEW h \in ran[p], Complete(p, h) PROVE TypeOK'
  <2> DEFINE C == completed[p] \cup {h}
  <2>1. PICK max \in height[p] .. tip :
          /\ Reached(C, height[p], max)
          /\ IF max = height[p]
             THEN /\ completed' = [completed EXCEPT ![p] = C]
                  /\ UNCHANGED <<row, height, notes, fails>>
             ELSE Advance(p, C, max)
    BY <1>6, Zenon DEF Complete
  <2>2. C \in SUBSET Nat /\ max \in Int
    OBVIOUS
  <2>3. UNCHANGED <<tip, next, running, processed, restarts>> /\ ran' = [ran EXCEPT ![p] = @ \ {h}]
    BY <1>6, Zenon DEF Complete
  <2>4. CASE max = height[p]
    BY <2>1, <2>2, <2>3, <2>4, Zenon
  <2>5. CASE max # height[p]
    <3>1. max \in Nat
      BY <2>2, <2>5 DEF Reached
    <3>2. Advance(p, C, max)
      BY <2>1, <2>5, Zenon
    <3> HIDE DEF C
    <3>3. row' \in [Name -> Height] /\ height' \in [Name -> Height]
      BY <3>1, <3>2 DEF Advance
    <3>4. notes' \in [Name -> SUBSET Nat]
      BY <3>1, <3>2 DEF Advance
    <3>5. completed' \in [Name -> SUBSET Nat] /\ fails' \in Nat
      <4>1. {k \in C : k > max} \in SUBSET Nat
        BY <2>2, Zenon
      <4>2. fails' \in Nat
        BY <3>2 DEF Advance
      <4>3. \E D \in SUBSET Nat : completed' = [completed EXCEPT ![p] = D]
        BY <2>2, <3>2, <4>1, Zenon DEF Advance
      <4> QED BY <4>2, <4>3, Zenon
    <3> QED BY <2>3, <3>3, <3>4, <3>5, Zenon
  <2> QED BY <2>4, <2>5, Zenon
<1>7. ASSUME NEW p \in Name, NEW h \in notes[p], Listen(p, h) PROVE TypeOK'
  BY <1>7, Zenon DEF Listen
<1>8. CASE Restart
  BY <1>8 DEF Restart
<1>9. CASE UNCHANGED vars
  BY <1>9, Zenon DEF vars
<1> QED BY <1>1, <1>2, <1>3, <1>4, <1>5, <1>6, <1>7, <1>8, <1>9, Zenon DEF Next, Process

-----------------------------------------------------------------------------
\* What is handled stays handled, so what is covered stays covered.
LEMMA ProcessedGrows ==
  ASSUME TypeOK, [Next]_vars
  PROVE  \A p \in Name : processed[p] \subseteq processed'[p]
<1> USE DEF TypeOK
<1>1. ASSUME NEW q \in Name, NEW h, Callback(q, h) PROVE \A p \in Name : processed[p] \subseteq processed'[p]
  BY <1>1, Zenon DEF Callback
<1>2. CASE UNCHANGED processed
  BY <1>2, Zenon
<1> QED
  BY <1>1, <1>2, Zenon DEF Next, vars, NewBlock, Process, CreatePin, ProcessBlocks, Spawn,
                    Complete, Listen, Restart

LEMMA CompleteInv ==
  ASSUME PinInv, NEW p \in Name, NEW h \in ran[p], Complete(p, h), TypeOK'
  PROVE  PinInv'
<1> USE DEF PinInv, TypeOK, Height, Absent
<1> DEFINE C == completed[p] \cup {h}
<1>1. PICK max \in height[p] .. tip :
        /\ Reached(C, height[p], max)
        /\ IF max = height[p]
           THEN /\ completed' = [completed EXCEPT ![p] = C]
                /\ UNCHANGED <<row, height, notes, fails>>
           ELSE Advance(p, C, max)
  BY Zenon DEF Complete
<1>2. UNCHANGED processed /\ ran' = [ran EXCEPT ![p] = @ \ {h}]
  BY Zenon DEF Complete
<1>3. C \subseteq processed[p]
  BY Zenon
<1>4. \A q \in Name : processed'[q] = processed[q]
  BY <1>2, Zenon
<1>5. Covered(processed[p], max)
  <2> SUFFICES ASSUME NEW k \in Nat, 1 <= k, k <= max PROVE k \in processed[p]
    BY Zenon DEF Covered
  <2>1. CASE k <= height[p]
    BY <2>1, Zenon DEF Covered
  <2>2. CASE ~(k <= height[p])
    <3>1. k \in (height[p] + 1) .. max
      BY <2>2
    <3> QED BY <1>1, <1>3, <3>1, Zenon DEF Reached
  <2> QED BY <2>1, <2>2, Zenon
<1>6. CASE max = height[p]
  BY <1>1, <1>2, <1>3, <1>4, <1>6
<1>7. CASE max # height[p]
  <2>1. Advance(p, C, max)
    BY <1>1, <1>7, Zenon
  <2> HIDE DEF C
  <2>2. completed'[p] \subseteq C /\ \A q \in Name : q # p => completed'[q] = completed[q]
    BY <2>1 DEF Advance
  <2>3. \A q \in Name : height'[q] \in {height[q], max} /\ row'[q] \in {row[q], max}
                        /\ (q # p => height'[q] = height[q] /\ row'[q] = row[q])
    BY <2>1 DEF Advance
  <2>4. \A q \in Name : notes'[q] \subseteq notes[q] \cup {max} /\ (q # p => notes'[q] = notes[q])
    BY <2>1 DEF Advance
  <2>5. \A q \in Name : completed'[q] \subseteq processed'[q] /\ ran'[q] \subseteq processed'[q]
    BY <1>2, <1>3, <2>2, Zenon
  <2>6. \A q \in Name : Covered(processed'[q], height'[q]) /\ Covered(processed'[q], row'[q])
    BY <1>4, <1>5, <2>3
  <2>7. \A q \in Name : \A k \in notes'[q] : Covered(processed'[q], k)
    BY <1>4, <1>5, <2>4, Zenon
  <2> QED BY <2>5, <2>6, <2>7, Zenon
<1> QED BY <1>6, <1>7, Zenon

LEMMA NextInv == PinInv /\ [Next]_vars => PinInv'
<1> SUFFICES ASSUME PinInv, [Next]_vars PROVE PinInv'
  BY Zenon
<1>0. TypeOK'
  BY TypeStep, Zenon DEF PinInv
<1>1. \A p \in Name : processed[p] \subseteq processed'[p]
  BY ProcessedGrows, Zenon DEF PinInv
<1>2. \A p \in Name : \A k : Covered(processed[p], k) => Covered(processed'[p], k)
  BY <1>1, Zenon DEF Covered
<1>3. \A p \in Name : Covered(processed'[p], 0)
  BY DEF Covered
<1>4. ASSUME NEW p \in Name, CreatePin(p) PROVE PinInv'
  <2>1. \A q \in Name : height'[q] \in {height[q], 0} /\ row'[q] \in {row[q], 0}
    BY <1>4, Zenon DEF CreatePin, PinInv, TypeOK
  <2>2. UNCHANGED <<ran, completed, notes>>
    BY <1>4, Zenon DEF CreatePin
  <2> QED BY <1>0, <1>1, <1>2, <1>3, <2>1, <2>2, Zenon DEF PinInv
<1>5. ASSUME NEW p \in Name, NEW h \in running[p], Callback(p, h) PROVE PinInv'
  <2>1. \A q \in Name : ran'[q] \subseteq processed'[q]
    BY <1>5, Zenon DEF Callback, PinInv, TypeOK
  <2>2. UNCHANGED <<height, row, completed, notes>>
    BY <1>5, Zenon DEF Callback
  <2> QED BY <1>0, <1>1, <1>2, <2>1, <2>2, Zenon DEF PinInv
<1>6. ASSUME NEW p \in Name, NEW h \in ran[p], Complete(p, h) PROVE PinInv'
  BY <1>0, <1>6, CompleteInv, Zenon
<1>7. ASSUME NEW p \in Name, NEW h \in notes[p], Listen(p, h) PROVE PinInv'
  <2>1. \A q \in Name : height'[q] \in {height[q], h} /\ (q # p => height'[q] = height[q])
    BY <1>7, Zenon DEF Listen, PinInv, TypeOK
  <2>2. \A q \in Name : notes'[q] \subseteq notes[q]
    BY <1>7, Zenon DEF Listen, PinInv, TypeOK
  <2>3. UNCHANGED <<row, ran, completed>>
    BY <1>7, Zenon DEF Listen
  <2>4. Covered(processed[p], h)
    BY Zenon DEF PinInv
  <2>5. \A q \in Name : Covered(processed'[q], height'[q])
    BY <1>2, <2>1, <2>4, Zenon DEF PinInv
  <2> QED BY <1>0, <1>1, <1>2, <2>2, <2>3, <2>5, Zenon DEF PinInv
<1>8. CASE Restart
  BY <1>0, <1>1, <1>2, <1>8, Zenon DEF Restart, PinInv
<1>9. CASE UNCHANGED <<height, row, ran, completed, notes>>
  BY <1>0, <1>1, <1>2, <1>9, Zenon DEF PinInv
<1> QED
  BY <1>4, <1>5, <1>6, <1>7, <1>8, <1>9, Zenon DEF Next, vars, Process, NewBlock, ProcessBlocks, Spawn

\* The pin the callback waits for covers, from then on, the blocks it asked for.
LEMMA NeedsStep == PinInv /\ NeedsInv /\ [Next]_vars => NeedsInv'
<1> SUFFICES ASSUME PinInv, NeedsInv, [Next]_vars, NEW n \in Needs, NEW h \in processed'[n[1]]
             PROVE  Covered(processed'[n[2]], h - n[3])
  BY Zenon DEF NeedsInv
<1>1. n[1] \in Name /\ n[2] \in Name /\ n[3] \in Nat
  BY PinAssumption, Zenon
<1>2. processed[n[2]] \subseteq processed'[n[2]]
  BY <1>1, ProcessedGrows, Zenon DEF PinInv
<1>3. \A k : Covered(processed[n[2]], k) => Covered(processed'[n[2]], k)
  BY <1>2, Zenon DEF Covered
<1>4. CASE h \in processed[n[1]]
  BY <1>3, <1>4, Zenon DEF NeedsInv
<1>5. CASE h \notin processed[n[1]]
  <2>1. Callback(n[1], h)
    <3>1. PICK q \in Name : \E k \in running[q] : Callback(q, k)
      BY <1>5, Zenon DEF Next, vars, NewBlock, Process, CreatePin, ProcessBlocks, Spawn,
                  Complete, Listen, Restart
    <3>2. PICK k \in running[q] : Callback(q, k)
      BY <3>1, Zenon
    <3>3. processed' = [processed EXCEPT ![q] = @ \cup {k}]
      BY <3>2, Zenon DEF Callback
    <3>4. q = n[1] /\ k = h
      BY <1>1, <1>5, <3>3, Zenon DEF PinInv, TypeOK
    <3> QED BY <3>2, <3>4, Zenon
  <2>2. height[n[2]] >= h - n[3]
    BY <2>1, Zenon DEF Callback, Ready
  <2>3. h \in Nat
    BY <2>1, <1>1, Zenon DEF Callback, PinInv, TypeOK
  <2>4. Covered(processed[n[2]], height[n[2]]) /\ height[n[2]] \in Int
    BY <1>1 DEF PinInv, TypeOK, Height, Absent
  <2>5. Covered(processed[n[2]], h - n[3])
    BY <1>1, <2>2, <2>3, <2>4 DEF Covered
  <2> QED BY <1>3, <2>5, Zenon
<1> QED BY <1>4, <1>5, Zenon

-----------------------------------------------------------------------------
\* The variables keep their types in every reachable state of the pins.
THEOREM PinTypeOK == Spec => []TypeOK
BY InitInv, TypeStep, PTL DEF Spec, PinInv

\* No pin, in memory or in block_processors, stands above an unhandled block.
THEOREM PinNoGap == Spec => []NoGap
<1>1. PinInv => NoGap
  BY DEF PinInv, NoGap, Covered, TypeOK
<1> QED BY <1>1, InitInv, NextInv, PTL DEF Spec

\* A callback has handled a block only after the blocks it waits for.
THEOREM PinNeedsMet == Spec => []NeedsMet
<1>1. NeedsInv => NeedsMet
  BY DEF NeedsInv, NeedsMet, Covered
<1> QED BY <1>1, InitInv, NextInv, NeedsStep, PTL DEF Spec

-----------------------------------------------------------------------------
(***************************************************************************)
(* What a member of the raft service holds, and what its callers are told, *)
(* is what the log says, for any processes, calls, faults and bounds.      *)
(*                                                                         *)
(* The invariant is in three parts.  DataInv: every copy of the state (in  *)
(* memory, kept for the library, on disk, on its way to a process that     *)
(* joins) fits the log at its own index.  WalInv: the files of a process   *)
(* fit each other, whatever it has written so far.  AnswerInv: what a call *)
(* knows in each of its phases.                                            *)
(***************************************************************************)
Value == Calls \cup Joiners \cup Nat \cup {None}
KV == {f \in [AllKeys -> Value] : f[nextNodeID] \in Nat}
Peers == SUBSET [id : Nat, addr : Procs]
State == [kv : KV, version : [AllKeys -> Nat], peers : Peers, applied : Nat]
Snap == [index : Nat, kv : KV, peers : Peers, whole : BOOLEAN]

\* The conditions on the keys of clients are on their values.
Instrs ==
  {i \in [cond : Int, op : {"set", "delete"}, key : AllKeys, val : Value] :
     /\ i.key \in Keys => i.cond \in {NoCond, NotKeyExists}
     /\ i.key = nextNodeID => i.val \in Nat}
Entry ==
  [type : {"normal"}, wctx : Callers \X Nat, instr : Instrs]
  \cup [type : {"conf"}, id : Nat, addr : Procs]
  \cup [type : {"empty"}] \cup [type : {"dummy"}, wctx : Callers]

Proc ==
  [up : {"down", "up", "exited", "unrecoverable"},
   pc : {"ready", "snapshot", "savePosition", "saveFile", "receivePosition", "receiveFile"},
   id : Nat, st : State, next : Nat, snapIndex : Nat, stored : Snap, taken : Snap, first : Nat,
   writers : SUBSET (Callers \X Nat), missed : BOOLEAN]
Wal == [exists : BOOLEAN, saved : Nat, snaps : SUBSET Nat]
Disk == [id : Nat, snap : Snap, wal : Wal]

\* The phases of a call at a member, and those of a process that joins and has left it.
AtMember ==
  {"exec", "propose", "waiting", "told", "reading", "awake", "asleep", "read", "snapshot", "writeID"}
Writing == {"position", "file", "restore"}
Call ==
  [phase : {"idle", "done", "createWal"} \cup AtMember \cup Writing, at : Procs \cup {None}, try : Nat,
   instr : Instrs \cup {None}, id : Nat, snap : Snap, floor : Nat, index : Nat, dummy : BOOLEAN,
   missed : BOOLEAN, result : Value \cup {"ok", "unsatisfied", "failed", "timeout", "shutdown", "refused"}]

\* The state after the first n entries of l.
Prefix(l, n) == ReplayOf(SubSeq(l, 1, n))

\* Two states are the same to clients and for the peers.
Same(s, r) == (\A k \in Keys : s.kv[k] = r.kv[k]) /\ s.peers = r.peers

SnapOK(l, s) == s.index <= Len(l) /\ (s.whole => Same(s, Prefix(l, s.index)))
ProcOK(l, x) ==
  /\ x.st.applied <= Len(l)
  /\ SnapOK(l, x.stored) /\ SnapOK(l, x.taken)
  /\ ~x.missed => x.next = x.st.applied /\ Same(x.st, Prefix(l, x.st.applied))
DiskOK(l, d) == d.wal.saved <= Len(l) /\ SnapOK(l, d.snap)
CallOK(l, x) ==
  /\ SnapOK(l, x.snap)
  /\ x.phase \in AtMember => x.at \in Procs
  /\ x.phase \in {"exec", "propose"} => x.instr \in Instrs

DataInv ==
  /\ log \in Seq(Entry) /\ proposed \subseteq Entry /\ acked \in 0 .. Len(log)
  /\ proc \in [Procs -> Proc] /\ \A p \in Procs : ProcOK(log, proc[p])
  /\ disk \in [Procs -> Disk] /\ \A p \in Procs : DiskOK(log, disk[p])
  /\ call \in [Callers -> Call] /\ \A c \in Callers : CallOK(log, call[c])

\* A process that has a log on disk has saved to it the position of its snapshot, and of
\* the one it is about to write.  One that joins has no log before it creates it.
FilesOK(x, d) ==
  /\ IF d.wal.exists THEN d.snap.index \in d.wal.snaps ELSE d.snap.index = 0
  /\ IF x.up = "down" THEN x.pc = "ready" ELSE d.wal.exists
  /\ x.pc \in {"saveFile", "receiveFile"} => x.taken.index \in d.wal.snaps
JoinOK(x, d, y) ==
  y.phase \notin {"idle", "done"} =>
    /\ x.up = "down"
    /\ d.wal.exists <=> y.phase \in Writing
    /\ y.phase = "file" => y.snap.index \in d.wal.snaps
WalInv ==
  /\ \A p \in Procs : FilesOK(proc[p], disk[p])
  /\ \A j \in Joiners : JoinOK(proc[j], disk[j], call[j])

IsGet(c) == Script[c].op = "get"

\* What the log says of a call c in state x.
ReadOK(l, c, x) ==
  x.phase = "done" /\ x.result # "shutdown" /\ ~x.missed =>
    x.floor <= x.index /\ x.index <= Len(l) /\ x.result = Prefix(l, x.index).kv[Script[c].key]
ToldOK(l, c, x) ==
  x.result \in {"ok", "unsatisfied"} =>
    \E i \in 1 .. Len(l) :
      /\ l[i] = Normal(<<c, x.try>>, x.instr)
      /\ x.missed \/ (x.result = "ok") = Satisfied(Prefix(l, i - 1), x.instr)

\* A get in state x at a member in state m, with the last write reported done at index a.
Getting == {"reading", "awake", "asleep", "read"}
GetOK(l, c, x, m, a) ==
  /\ x.phase \in {"idle", "done"} \cup Getting
  /\ x.phase \in Getting => m.up = "up" /\ x.floor <= a
  /\ x.phase \in {"awake", "asleep", "read"} => x.floor <= x.index
  /\ x.phase = "read" /\ ~m.missed => x.index <= m.st.applied
  /\ ReadOK(l, c, x)
ExecOK(l, c, x) ==
  /\ x.phase \in {"idle", "exec", "propose", "waiting", "told", "done"}
  /\ x.phase # "idle" => x.instr = Instruction(c)
  /\ x.phase \notin {"told", "done"} => x.result \notin {"ok", "unsatisfied"}
  /\ ToldOK(l, c, x)

\* An entry of a client is the one that the client asks for.
EntryOK(e) == e.type = "normal" /\ e.wctx[1] \in Calls => e.instr = Instruction(e.wctx[1])
AnswerOK(c) ==
  IF IsGet(c) THEN GetOK(log, c, call[c], proc[call[c].at], acked) ELSE ExecOK(log, c, call[c])
AnswerInv ==
  /\ \A c \in Calls : AnswerOK(c)
  /\ \A e \in proposed : EntryOK(e)
  /\ \A i \in 1 .. Len(log) : EntryOK(log[i])

-----------------------------------------------------------------------------
(* What ReplayOf computes, by induction on the length of the log.          *)

\* Induction on the naturals, for a set instead of a predicate.
LEMMA Induct == ASSUME NEW S, 0 \in S, \A n \in Nat : n \in S => n + 1 \in S PROVE \A n \in Nat : n \in S
<1> DEFINE R == OpToRel(<, Nat)
           T == Nat \ S
<1> SUFFICES ASSUME T # {} PROVE FALSE BY Zenon
<1>1. IsWellFoundedOn(R, Nat)
  BY NatLessThanWellFounded, Zenon
<1>2. \A x, y \in Nat : <<x, y>> \in R <=> x < y
  BY Zenon DEF OpToRel
<1>3. T \subseteq Nat
  BY Zenon
<1> HIDE DEF R, T
<1>4. PICK m \in T : \A k \in T : ~(<<k, m>> \in R)
  BY <1>1, <1>3, WFMin, Zenon
<1>5. \A k \in T : ~(k < m)
  BY <1>2, <1>3, <1>4, Zenon
<1>6. m # 0 /\ m \in Nat /\ m \notin S
  BY Zenon DEF T
<1>7. m - 1 \in Nat /\ m - 1 < m /\ (m - 1) + 1 = m
  BY <1>6
<1> QED BY <1>5, <1>6, <1>7, Zenon DEF T

\* g[i] is what the first i entries make of a new state.
RunTo(g, l, n) ==
  g = [i \in 0 .. n |-> IF i = 0 THEN New ELSE ApplyEntry(g[i - 1], l[i], i)]

Run(l) == CHOOSE g : RunTo(g, l, Len(l))

LEMMA ReplayIs == ASSUME NEW l PROVE ReplayOf(l) = Run(l)[Len(l)]
BY Zenon DEF ReplayOf, Run, RunTo

LEMMA RunExists == ASSUME NEW l PROVE \A n \in Nat : \E g : RunTo(g, l, n)
<1> DEFINE S == {n \in Nat : \E g : RunTo(g, l, n)}
<1>1. 0 \in S
  <2> DEFINE g == [i \in 0 .. 0 |-> New]
  <2>1. RunTo(g, l, 0)
    BY DEF RunTo
  <2> QED BY <2>1, Zenon
<1>2. ASSUME NEW n \in Nat, n \in S PROVE n + 1 \in S
  <2>1. PICK g : RunTo(g, l, n)
    BY <1>2, Zenon
  <2> DEFINE h == [i \in 0 .. (n + 1) |-> IF i <= n THEN g[i] ELSE ApplyEntry(g[n], l[n + 1], n + 1)]
  <2>2. \A i \in 0 .. (n + 1) : h[i] = IF i <= n THEN g[i] ELSE ApplyEntry(g[n], l[n + 1], n + 1)
    BY Zenon
  <2>3. \A i \in 0 .. n : g[i] = IF i = 0 THEN New ELSE ApplyEntry(g[i - 1], l[i], i)
    BY <2>1, Zenon DEF RunTo
  <2>4. ASSUME NEW i \in 0 .. (n + 1)
        PROVE  h[i] = IF i = 0 THEN New ELSE ApplyEntry(h[i - 1], l[i], i)
    <3> HIDE DEF h
    <3>1. CASE i = 0
      BY <3>1, <2>2, <2>3
    <3>2. CASE i \in 1 .. n
      <4>1. i \in 0 .. n /\ i - 1 \in 0 .. (n + 1) /\ i - 1 <= n /\ i <= n /\ i # 0
        BY <3>2
      <4>2. h[i] = g[i] /\ h[i - 1] = g[i - 1]
        BY <4>1, <2>2, Zenon
      <4> QED BY <4>1, <4>2, <2>3, Zenon
    <3>3. CASE i = n + 1
      <4>1. i - 1 = n /\ n \in 0 .. (n + 1) /\ i # 0 /\ ~(i <= n) /\ n <= n
        BY <3>3
      <4>2. h[n] = g[n] /\ h[i] = ApplyEntry(g[n], l[n + 1], n + 1)
        BY <4>1, <2>2, Zenon
      <4> QED BY <4>1, <4>2, <3>3, Zenon
    <3> QED BY <3>1, <3>2, <3>3
  <2>5. RunTo(h, l, n + 1)
    <3>1. h = [i \in 0 .. (n + 1) |-> h[i]]
      BY Zenon
    <3> HIDE DEF h
    <3> QED BY <2>4, <3>1, Zenon DEF RunTo
  <2> QED BY <2>5
<1>3. \A n \in Nat : n \in S
  <2> HIDE DEF S
  <2> QED BY <1>1, <1>2, Induct, Zenon
<1> QED BY <1>3, Zenon

LEMMA RunIs ==
  ASSUME NEW l, Len(l) \in Nat
  PROVE  \A i \in 0 .. Len(l) : Run(l)[i] = IF i = 0 THEN New ELSE ApplyEntry(Run(l)[i - 1], l[i], i)
<1>1. \E g : RunTo(g, l, Len(l))
  BY RunExists, Zenon
<1>2. RunTo(Run(l), l, Len(l))
  BY <1>1, Zenon DEF Run
<1> HIDE DEF Run
<1> QED BY <1>2, Zenon DEF RunTo

\* No entry, and one more entry.
LEMMA ReplayNone == ReplayOf(<<>>) = New
<1>1. Len(<<>>) = 0 /\ 0 \in 0 .. 0
  OBVIOUS
<1> QED BY <1>1, RunIs, ReplayIs, Zenon

LEMMA ReplayMore ==
  ASSUME NEW E, NEW l \in Seq(E), NEW e \in E
  PROVE  ReplayOf(Append(l, e)) = ApplyEntry(ReplayOf(l), e, Len(l) + 1)
<1> DEFINE m == Append(l, e)
           n == Len(l)
           g == Run(l)
           h == Run(m)
<1>1. n \in Nat /\ Len(m) = n + 1 /\ m[n + 1] = e /\ \A i \in 1 .. n : l[i] = m[i]
  OBVIOUS
<1>2. Len(m) \in Nat /\ n + 1 \in 0 .. n + 1 /\ n + 1 # 0 /\ (n + 1) - 1 = n
  BY <1>1
<1> HIDE DEF m
<1>3. /\ \A i \in 0 .. n : g[i] = IF i = 0 THEN New ELSE ApplyEntry(g[i - 1], l[i], i)
      /\ \A i \in 0 .. (n + 1) : h[i] = IF i = 0 THEN New ELSE ApplyEntry(h[i - 1], m[i], i)
  BY <1>1, <1>2, RunIs, Zenon
<1> HIDE DEF g, h
<1>4. g[n] = h[n]
  <2> DEFINE S == {i \in Nat : i <= n => g[i] = h[i]}
  <2>1. 0 \in S
    BY <1>1, <1>3
  <2>2. ASSUME NEW i \in Nat, i \in S PROVE i + 1 \in S
    <3> SUFFICES ASSUME i + 1 <= n PROVE g[i + 1] = h[i + 1]
      OBVIOUS
    <3>1. /\ i + 1 \in 0 .. n /\ i + 1 \in 0 .. (n + 1) /\ i + 1 \in 1 .. n
          /\ i + 1 # 0 /\ (i + 1) - 1 = i /\ i <= n
      BY <1>1
    <3>2. g[i] = h[i] /\ l[i + 1] = m[i + 1]
      BY <1>1, <2>2, <3>1, Zenon
    <3>3. g[i + 1] = ApplyEntry(g[i], l[i + 1], i + 1) /\ h[i + 1] = ApplyEntry(h[i], m[i + 1], i + 1)
      BY <1>3, <3>1, Zenon
    <3> QED BY <3>2, <3>3, Zenon
  <2>3. \A i \in Nat : i \in S
    <3> HIDE DEF S
    <3> QED BY <2>1, <2>2, Induct, Zenon
  <2> QED BY <1>1, <2>3
<1>5. h[n + 1] = ApplyEntry(h[n], e, n + 1)
  BY <1>1, <1>2, <1>3, Zenon
<1>6. ReplayOf(l) = g[n] /\ ReplayOf(m) = h[n + 1]
  BY <1>1, ReplayIs, Zenon DEF g, h
<1> QED BY <1>4, <1>5, <1>6, Zenon DEF m

-----------------------------------------------------------------------------
(* Applying an entry.                                                      *)

LEMMA Disjoint ==
  /\ Calls \cap Joiners = {} /\ Keys \cap Joiners = {}
  /\ nextNodeID \in AllKeys /\ nextNodeID \notin Keys /\ nextNodeID \notin Joiners
  /\ \A c \in Calls : Script[c].key \in Keys /\ Script[c].at \in Procs
BY RaftAssumption, Zenon DEF Joiners, AllKeys, Keys

LEMMA NewType == New \in State /\ New.applied = 0 /\ NoSnapshot \in Snap /\ NoSnapshot.index = 0 /\ NoSnapshot.whole
BY Disjoint, Zenon DEF New, State, KV, Value, Peers, NoSnapshot, Snapshot, Snap

LEMMA SnapshotType ==
  ASSUME NEW s \in State, NEW w \in BOOLEAN
  PROVE  /\ Snapshot(s, w) \in Snap /\ Snapshot(s, w).index = s.applied /\ Snapshot(s, w).whole = w
         /\ Snapshot(s, w).kv = s.kv /\ Snapshot(s, w).peers = s.peers
BY Zenon DEF Snapshot, Snap, State

LEMMA RestoreType ==
  ASSUME NEW s \in Snap
  PROVE  /\ RestoreSnapshot(New, s) \in State /\ RestoreSnapshot(New, s).applied = s.index
         /\ RestoreSnapshot(New, s).kv = s.kv /\ RestoreSnapshot(New, s).peers = s.peers
BY NewType, Zenon DEF RestoreSnapshot, Snap, State

LEMMA ApplyType ==
  ASSUME NEW s \in State, NEW i \in Instrs, NEW n \in Nat
  PROVE  Apply(s, i, n) \in State /\ Apply(s, i, n).applied = n /\ Apply(s, i, n).peers = s.peers
<1>1. CASE ~Satisfied(s, i)
  BY <1>1, Zenon DEF Apply, State
<1>2. CASE Satisfied(s, i)
  <2> DEFINE v == IF i.op = "delete" THEN 0 ELSE n
             kv == [s.kv EXCEPT ![i.key] = i.val]
             version == [s.version EXCEPT ![i.key] = v]
  <2>1. v \in Nat /\ i.key \in AllKeys /\ i.val \in Value /\ (i.key = nextNodeID => i.val \in Nat)
    BY Zenon DEF Instrs
  <2>2. kv \in KV /\ version \in [AllKeys -> Nat]
    BY <2>1, Disjoint, Zenon DEF KV, State
  <2>3. Apply(s, i, n) = [s EXCEPT !.applied = n, !.kv = kv, !.version = version]
    BY <1>2, Zenon DEF Apply, State
  <2> HIDE DEF kv, version, v
  <2> QED BY <2>2, <2>3, Zenon DEF State
<1> QED BY <1>1, <1>2, Zenon

LEMMA EntryType ==
  ASSUME NEW s \in State, NEW e \in Entry, NEW n \in Nat
  PROVE  ApplyEntry(s, e, n) \in State /\ ApplyEntry(s, e, n).applied = n
<1>1. CASE e.type = "normal"
  <2>1. e.instr \in Instrs
    BY <1>1, Zenon DEF Entry
  <2> QED BY <1>1, <2>1, ApplyType, Zenon DEF ApplyEntry
<1>2. CASE e.type = "conf"
  <2>1. [id |-> e.id, addr |-> e.addr] \in [id : Nat, addr : Procs]
    BY <1>2, Zenon DEF Entry
  <2> QED BY <1>2, <2>1, Zenon DEF ApplyEntry, State, Peers
<1>3. CASE e.type \notin {"normal", "conf"}
  BY <1>3, Zenon DEF ApplyEntry, State
<1> QED BY <1>1, <1>2, <1>3, Zenon

\* The conditions of clients do not see versions.
LEMMA SatisfiedSame ==
  ASSUME NEW s, NEW r, NEW i \in Instrs, i.key \in Keys, s.kv[i.key] = r.kv[i.key]
  PROVE  Satisfied(s, i) <=> Satisfied(r, i)
BY DEF Satisfied, Instrs, NoCond, NotKeyExists

\* What is the same to clients stays the same, whatever is applied.
LEMMA EntrySame ==
  ASSUME NEW s \in State, NEW r \in State, Same(s, r), NEW e \in Entry, NEW n \in Nat
  PROVE  Same(ApplyEntry(s, e, n), ApplyEntry(r, e, n))
<1>1. CASE e.type = "normal"
  <2> DEFINE i == e.instr
  <2>1. i \in Instrs /\ i.key \in AllKeys
    BY <1>1, Zenon DEF Entry, Instrs
  <2>2. ApplyEntry(s, e, n) = Apply(s, i, n) /\ ApplyEntry(r, e, n) = Apply(r, i, n)
    BY <1>1, Zenon DEF ApplyEntry
  <2> HIDE DEF i
  <2>3. Apply(s, i, n).peers = Apply(r, i, n).peers
    BY <2>1, ApplyType, Zenon DEF Same
  <2>4. ASSUME NEW x \in State
        PROVE  Apply(x, i, n).kv = IF Satisfied(x, i) THEN [x.kv EXCEPT ![i.key] = i.val] ELSE x.kv
    BY Zenon DEF Apply, State
  <2>5. s.kv \in [AllKeys -> Value] /\ r.kv \in [AllKeys -> Value] /\ Keys \subseteq AllKeys
    BY Zenon DEF State, KV, AllKeys
  <2>6. ASSUME NEW k \in Keys PROVE Apply(s, i, n).kv[k] = Apply(r, i, n).kv[k]
    <3>1. CASE k = i.key
      <4>1. Satisfied(s, i) <=> Satisfied(r, i)
        BY <2>1, <3>1, SatisfiedSame, Zenon DEF Same
      <4> QED BY <2>4, <2>5, <3>1, <4>1, Zenon DEF Same
    <3>2. CASE k # i.key
      BY <2>4, <2>5, <3>2, Zenon DEF Same
    <3> QED BY <3>1, <3>2, Zenon
  <2> QED BY <2>2, <2>3, <2>6, Zenon DEF Same
<1>2. CASE e.type = "conf"
  BY <1>2, Zenon DEF ApplyEntry, State, Same
<1>3. CASE e.type \notin {"normal", "conf"}
  BY <1>3, Zenon DEF ApplyEntry, State, Same
<1> QED BY <1>1, <1>2, <1>3, Zenon

\* The applied index of a replayed state is the number of entries.
LEMMA ReplayType ==
  ASSUME NEW l \in Seq(Entry)
  PROVE  ReplayOf(l) \in State /\ ReplayOf(l).applied = Len(l)
<1> DEFINE S == {n \in Nat : \A m \in Seq(Entry) : Len(m) = n => ReplayOf(m) \in State /\ ReplayOf(m).applied = n}
<1>1. 0 \in S
  <2>1. \A m \in Seq(Entry) : Len(m) = 0 => m = <<>>
    OBVIOUS
  <2> QED BY <2>1, ReplayNone, NewType, Zenon
<1>2. ASSUME NEW n \in Nat, n \in S PROVE n + 1 \in S
  <2> SUFFICES ASSUME NEW m \in Seq(Entry), Len(m) = n + 1
               PROVE  ReplayOf(m) \in State /\ ReplayOf(m).applied = n + 1
    OBVIOUS
  <2> DEFINE k == SubSeq(m, 1, n)
             e == m[n + 1]
  <2>1. k \in Seq(Entry) /\ Len(k) = n /\ e \in Entry /\ m = Append(k, e)
    OBVIOUS
  <2> HIDE DEF k, e
  <2>2. ReplayOf(k) \in State
    BY <1>2, <2>1, Zenon
  <2>3. ReplayOf(m) = ApplyEntry(ReplayOf(k), e, n + 1)
    BY <2>1, ReplayMore, Zenon
  <2> QED BY <2>1, <2>2, <2>3, EntryType
<1>3. \A n \in Nat : n \in S
  <2> HIDE DEF S
  <2> QED BY <1>1, <1>2, Induct, Zenon
<1> QED BY <1>3

\* The prefixes of a log, one more entry at a time, and in a longer log.
LEMMA PrefixType ==
  ASSUME NEW l \in Seq(Entry), NEW n \in Nat, n <= Len(l)
  PROVE  Prefix(l, n) \in State /\ Prefix(l, n).applied = n
<1>1. SubSeq(l, 1, n) \in Seq(Entry) /\ Len(SubSeq(l, 1, n)) = n
  OBVIOUS
<1> QED BY <1>1, ReplayType, Zenon DEF Prefix

LEMMA PrefixAll == ASSUME NEW l \in Seq(Entry) PROVE Prefix(l, Len(l)) = ReplayOf(l)
<1>1. SubSeq(l, 1, Len(l)) = l
  OBVIOUS
<1> QED BY <1>1, Zenon DEF Prefix

LEMMA PrefixNone == ASSUME NEW l \in Seq(Entry) PROVE Prefix(l, 0) = New
<1>1. SubSeq(l, 1, 0) = <<>>
  OBVIOUS
<1> QED BY <1>1, ReplayNone, Zenon DEF Prefix

LEMMA PrefixMore ==
  ASSUME NEW l \in Seq(Entry), NEW n \in Nat, n < Len(l)
  PROVE  Prefix(l, n + 1) = ApplyEntry(Prefix(l, n), l[n + 1], n + 1)
<1>1. /\ SubSeq(l, 1, n) \in Seq(Entry) /\ Len(SubSeq(l, 1, n)) = n /\ l[n + 1] \in Entry
      /\ SubSeq(l, 1, n + 1) = Append(SubSeq(l, 1, n), l[n + 1])
  OBVIOUS
<1> QED BY <1>1, ReplayMore, Zenon DEF Prefix

Longer(l, m) == m = l \/ \E e \in Entry : m = Append(l, e)

LEMMA PrefixKept ==
  ASSUME NEW l \in Seq(Entry), NEW m, Longer(l, m)
  PROVE  /\ m \in Seq(Entry) /\ Len(l) <= Len(m) /\ \A i \in 1 .. Len(l) : m[i] = l[i]
         /\ \A n \in Nat : n <= Len(l) => Prefix(m, n) = Prefix(l, n)
<1>1. CASE m = l
  BY <1>1
<1>2. CASE \E e \in Entry : m = Append(l, e)
  <2>1. PICK e \in Entry : m = Append(l, e)
    BY <1>2, Zenon
  <2>2. m \in Seq(Entry) /\ Len(l) <= Len(m) /\ \A i \in 1 .. Len(l) : m[i] = l[i]
    BY <2>1
  <2>3. \A n \in Nat : n <= Len(l) => SubSeq(m, 1, n) = SubSeq(l, 1, n)
    BY <2>2
  <2> QED BY <2>2, <2>3, Zenon DEF Prefix
<1> QED BY <1>1, <1>2, Zenon DEF Longer

-----------------------------------------------------------------------------
(* The initial state.                                                      *)

LEMMA BootLogIs ==
  ASSUME NEW f \in Orders
  PROVE  /\ BootLog(f) \in Seq(Entry)
         /\ \A i \in 1 .. Len(BootLog(f)) : BootLog(f)[i].type = "normal" => BootLog(f)[i].wctx[1] \in Joiners
<1> DEFINE n == Cardinality(Allowed)
           E == {e \in Entry : e.type = "normal" => e.wctx[1] \in Joiners}
           l == [i \in 1 .. n |-> Normal(<<f[i], 0>>, AddAllowedMember(f[i]))]
<1>1. n \in Nat /\ f \in [1 .. n -> Allowed]
  BY RaftAssumption, Zenon DEF Orders
<1>2. ASSUME NEW j \in Allowed PROVE Normal(<<j, 0>>, AddAllowedMember(j)) \in E
  <2>1. j \in Joiners /\ j \notin Keys /\ j # nextNodeID
    BY RaftAssumption, Disjoint, Zenon
  <2>2. AddAllowedMember(j) \in Instrs
    BY <2>1 DEF AddAllowedMember, Set, Instr, Instrs, NoCond, Value, AllKeys
  <2>3. <<j, 0>> \in Callers \X Nat
    BY <2>1, Zenon DEF Callers
  <2> QED BY <2>1, <2>2, <2>3, Zenon DEF Normal, Entry
<1>3. AddNode(1, Boot) \in E /\ Empty \in E
  BY RaftAssumption, Zenon DEF AddNode, Empty, Entry
<1>4. E \subseteq Entry /\ \A e \in E : e.type = "normal" => e.wctx[1] \in Joiners
  BY Zenon
<1> HIDE DEF E, n
<1>5. l \in Seq(E)
  BY <1>1, <1>2
<1>6. <<AddNode(1, Boot), Empty>> \in Seq(E)
  BY <1>3
<1>7. BootLog(f) = <<AddNode(1, Boot), Empty>> \o l
  BY Zenon DEF BootLog, n
<1> HIDE DEF l
<1>8. BootLog(f) \in Seq(E)
  BY <1>5, <1>6, <1>7
<1> QED BY <1>4, <1>8

LEMMA NoCallType == NoCall \in Call /\ \A l \in Seq(Entry) : SnapOK(l, NoSnapshot) /\ CallOK(l, NoCall)
<1>1. NoCall \in Call
  BY NewType, Zenon DEF NoCall, Call, Value
<1>2. ASSUME NEW l \in Seq(Entry) PROVE SnapOK(l, NoSnapshot)
  BY NewType, PrefixNone DEF SnapOK, Same, NoSnapshot, Snapshot
<1> QED BY <1>1, <1>2, Zenon DEF CallOK, NoCall, AtMember

\* A snapshot of the state of a process.
LEMMA SnapshotOK ==
  ASSUME NEW l, NEW x \in Proc, ProcOK(l, x), NEW s, s = Snapshot(x.st, ~x.missed)
  PROVE  s \in Snap /\ SnapOK(l, s)
<1>1. s \in Snap /\ s.index = x.st.applied /\ s.whole = ~x.missed /\ s.kv = x.st.kv /\ s.peers = x.st.peers
  BY SnapshotType, Zenon DEF Proc
<1>2. s.whole => ~x.missed
  BY <1>1, Zenon DEF Proc
<1> QED BY <1>1, <1>2, Zenon DEF SnapOK, ProcOK, Same

\* A process that starts with the state of its snapshot.
LEMMA StartedType ==
  ASSUME NEW l \in Seq(Entry), NEW id \in Nat, NEW s \in Snap, SnapOK(l, s),
         NEW st \in State, st.applied = s.index, st.kv = s.kv, st.peers = s.peers
  PROVE  Started(id, st, s) \in Proc /\ ProcOK(l, Started(id, st, s))
<1>1. Started(id, st, s) \in Proc
  BY NewType DEF Started, Proc, Snap
<1>2. SnapOK(l, NoSnapshot)
  BY NoCallType, Zenon
<1> DEFINE x == Started(id, st, s)
<1>3. x.stored = s /\ x.taken = NoSnapshot /\ x.st = st /\ x.next = s.index
  BY Zenon DEF Started
<1>4. x.missed = ~s.whole
  BY Zenon DEF Started
<1>5. s.whole => Same(st, Prefix(l, s.index))
  BY Zenon DEF SnapOK, Same
<1>6. ~x.missed => s.whole
  BY <1>4, Zenon DEF Snap
<1>7. s.index <= Len(l)
  BY Zenon DEF SnapOK
<1> HIDE DEF x
<1>8. ProcOK(l, x)
  BY <1>2, <1>3, <1>5, <1>6, <1>7, Zenon DEF ProcOK
<1> QED BY <1>1, <1>8, Zenon DEF x

LEMMA DownType ==
  /\ Down \in Proc /\ Down.up = "down" /\ Down.pc = "ready"
  /\ \A l \in Seq(Entry) : ProcOK(l, Down)
<1> DEFINE x == Started(0, New, NoSnapshot)
<1>1. New.applied = NoSnapshot.index /\ New.kv = NoSnapshot.kv /\ New.peers = NoSnapshot.peers
  BY Zenon DEF NoSnapshot, Snapshot
<1>2. x \in Proc /\ \A l \in Seq(Entry) : ProcOK(l, x)
  <2>1. Started(0, New, NoSnapshot) \in Proc
    BY NewType DEF Started, Proc
  <2> QED BY <1>1, <2>1, NewType, NoCallType, StartedType, Zenon
<1>3. x.pc = "ready"
  BY Zenon DEF Started
<1>4. Down = [x EXCEPT !.up = "down"]
  BY Zenon DEF Down
<1> HIDE DEF x
<1> QED BY <1>2, <1>3, <1>4, Zenon DEF Proc, ProcOK

LEMMA WalType == NoWal \in Wal /\ NewWal \in Wal /\ \A w \in Wal, n \in Nat : [w EXCEPT !.saved = n] \in Wal
<1>1. ASSUME NEW b \in BOOLEAN, NEW T \in SUBSET Nat PROVE [exists |-> b, saved |-> 0, snaps |-> T] \in Wal
  BY Zenon DEF Wal
<1>2. TRUE \in BOOLEAN /\ FALSE \in BOOLEAN /\ {} \in SUBSET Nat /\ {0} \in SUBSET Nat
  OBVIOUS
<1>3. NoWal \in Wal /\ NewWal \in Wal
  BY <1>1, <1>2, Zenon DEF NoWal, NewWal
<1> QED BY <1>3, Zenon DEF Wal

LEMMA InitData == RaftInit => DataInv
<1> SUFFICES ASSUME RaftInit PROVE DataInv
  BY Zenon
<1> DEFINE x == Started(1, ReplayOf(log), NoSnapshot)
           y == [x EXCEPT !.next = Len(log)]
           z == [NewDisk EXCEPT !.id = 1, !.wal = [NewWal EXCEPT !.saved = Len(log)]]
<1>0. /\ proposed = {} /\ acked = 0
      /\ proc = [p \in Procs |-> IF p # Boot THEN Down ELSE y]
      /\ disk = [p \in Procs |-> IF p # Boot THEN NewDisk ELSE z]
      /\ call = [c \in Callers |-> NoCall]
  BY Zenon DEF RaftInit, InitWith
<1>1. log \in Seq(Entry) /\ Len(log) \in Nat
  BY BootLogIs DEF RaftInit, InitWith
<1>2. ReplayOf(log) \in State /\ ReplayOf(log).applied = Len(log) /\ ReplayOf(log) = Prefix(log, Len(log))
  BY <1>0, <1>1, ReplayType, PrefixAll, Zenon
<1>3. SnapOK(log, NoSnapshot)
  BY <1>1, NoCallType, Zenon
<1>4. y \in Proc /\ ProcOK(log, y)
  <2>1. x \in Proc
    BY <1>2, NewType DEF Started, Proc
  <2>2. x.stored = NoSnapshot /\ x.taken = NoSnapshot /\ x.st = ReplayOf(log)
    BY Zenon DEF Started
  <2> HIDE DEF x
  <2>3. y \in Proc /\ y.next = Len(log) /\ y.stored = NoSnapshot /\ y.taken = NoSnapshot /\ y.st = ReplayOf(log)
    BY <1>0, <1>1, <2>1, <2>2, Zenon DEF Proc
  <2> HIDE DEF y
  <2> QED BY <1>1, <1>2, <1>3, <2>3 DEF ProcOK, Same
<1>5. NewDisk \in Disk /\ DiskOK(log, NewDisk) /\ z \in Disk /\ DiskOK(log, z)
  <2>1. NoWal \in Wal /\ [NewWal EXCEPT !.saved = Len(log)] \in Wal
    BY <1>0, <1>1, WalType, Zenon
  <2>2. [NewWal EXCEPT !.saved = Len(log)].saved = Len(log) /\ NoWal.saved = 0
    BY <1>0, Zenon DEF NoWal, NewWal
  <2>3. NewDisk \in Disk /\ NewDisk.snap = NoSnapshot /\ NewDisk.wal = NoWal
    BY <2>1, NewType, Zenon DEF NewDisk, Disk
  <2>4. z \in Disk /\ z.snap = NoSnapshot /\ z.wal = [NewWal EXCEPT !.saved = Len(log)]
    <3> DEFINE w == [NewWal EXCEPT !.saved = Len(log)]
    <3> HIDE DEF w
    <3>1. w \in Wal
      BY <2>1, Zenon DEF w
    <3>2. [NewDisk EXCEPT !.id = 1, !.wal = w] \in Disk
      BY <2>3, <3>1, Zenon DEF Disk
    <3>3. [NewDisk EXCEPT !.id = 1, !.wal = w].snap = NoSnapshot /\ [NewDisk EXCEPT !.id = 1, !.wal = w].wal = w
      BY <2>3, Zenon DEF Disk
    <3> QED BY <3>2, <3>3, Zenon DEF w
  <2> HIDE DEF z
  <2> QED BY <1>1, <1>3, <2>2, <2>3, <2>4 DEF DiskOK
<1> HIDE DEF y, z
<1>6. proc \in [Procs -> Proc] /\ \A p \in Procs : ProcOK(log, proc[p])
  BY <1>0, <1>1, <1>4, DownType, Zenon
<1>7. disk \in [Procs -> Disk] /\ \A p \in Procs : DiskOK(log, disk[p])
  BY <1>0, <1>5, Zenon
<1>8. call \in [Callers -> Call] /\ \A c \in Callers : CallOK(log, call[c])
  BY <1>0, <1>1, NoCallType, Zenon
<1> QED BY <1>0, <1>1, <1>6, <1>7, <1>8 DEF DataInv

-----------------------------------------------------------------------------
(* DataInv is kept.  A longer log keeps what fits the log.                 *)

LEMMA Kept ==
  ASSUME NEW l \in Seq(Entry), NEW m, Longer(l, m)
  PROVE  /\ \A s \in Snap : SnapOK(l, s) => SnapOK(m, s)
         /\ \A x \in Proc : ProcOK(l, x) => ProcOK(m, x)
         /\ \A d \in Disk : DiskOK(l, d) => DiskOK(m, d)
         /\ \A x \in Call : CallOK(l, x) => CallOK(m, x)
<1>1. /\ Len(l) \in Nat /\ Len(m) \in Nat /\ Len(l) <= Len(m)
      /\ \A n \in Nat : n <= Len(l) => Prefix(m, n) = Prefix(l, n)
  BY PrefixKept
<1>2. ASSUME NEW s \in Snap, SnapOK(l, s) PROVE SnapOK(m, s)
  <2>1. s.index \in Nat /\ s.index <= Len(l)
    BY <1>2, Zenon DEF Snap, SnapOK
  <2>2. Prefix(m, s.index) = Prefix(l, s.index) /\ s.index <= Len(m)
    BY <1>1, <2>1
  <2> QED BY <1>2, <2>2, Zenon DEF SnapOK
<1>3. ASSUME NEW x \in Proc, ProcOK(l, x) PROVE ProcOK(m, x)
  <2>1. x.st.applied \in Nat /\ x.stored \in Snap /\ x.taken \in Snap
    BY Zenon DEF Proc, State
  <2>2. /\ x.st.applied <= Len(l) /\ SnapOK(l, x.stored) /\ SnapOK(l, x.taken)
        /\ ~x.missed => x.next = x.st.applied /\ Same(x.st, Prefix(l, x.st.applied))
    BY <1>3, Zenon DEF ProcOK
  <2>3. Prefix(m, x.st.applied) = Prefix(l, x.st.applied) /\ x.st.applied <= Len(m)
    BY <1>1, <2>1, <2>2
  <2> QED BY <1>2, <2>1, <2>2, <2>3, Zenon DEF ProcOK
<1>4. ASSUME NEW d \in Disk, DiskOK(l, d) PROVE DiskOK(m, d)
  <2>1. d.wal.saved \in Nat /\ d.snap \in Snap
    BY Zenon DEF Disk, Wal
  <2>2. d.wal.saved <= Len(l) /\ SnapOK(l, d.snap)
    BY <1>4, Zenon DEF DiskOK
  <2> QED BY <1>1, <1>2, <2>1, <2>2 DEF DiskOK
<1>5. ASSUME NEW x \in Call, CallOK(l, x) PROVE CallOK(m, x)
  <2>1. x.snap \in Snap
    BY Zenon DEF Call
  <2> QED BY <1>2, <1>5, <2>1, Zenon DEF CallOK
<1> QED BY <1>2, <1>3, <1>4, <1>5, Zenon

LEMMA DataFrame ==
  ASSUME DataInv, Longer(log, log'), proposed' \subseteq Entry, acked' \in 0 .. Len(log'),
         proc' \in [Procs -> Proc], \A p \in Procs : proc'[p] = proc[p] \/ ProcOK(log', proc'[p]),
         disk' \in [Procs -> Disk], \A p \in Procs : disk'[p] = disk[p] \/ DiskOK(log', disk'[p]),
         call' \in [Callers -> Call], \A c \in Callers : call'[c] = call[c] \/ CallOK(log', call'[c])
  PROVE  DataInv'
<1>1. /\ log \in Seq(Entry)
      /\ proc \in [Procs -> Proc] /\ \A p \in Procs : ProcOK(log, proc[p])
      /\ disk \in [Procs -> Disk] /\ \A p \in Procs : DiskOK(log, disk[p])
      /\ call \in [Callers -> Call] /\ \A c \in Callers : CallOK(log, call[c])
  BY Zenon DEF DataInv
<1>2. log' \in Seq(Entry)
  BY <1>1, PrefixKept, Zenon
<1>3. ASSUME NEW p \in Procs PROVE ProcOK(log', proc'[p]) /\ DiskOK(log', disk'[p])
  BY <1>1, Kept, Zenon
<1>4. ASSUME NEW c \in Callers PROVE CallOK(log', call'[c])
  BY <1>1, Kept, Zenon
<1> QED BY <1>2, <1>3, <1>4, Zenon DEF DataInv

\* What DataInv says of one process and of one call.
LEMMA Known ==
  ASSUME DataInv
  PROVE  /\ log \in Seq(Entry) /\ Len(log) \in Nat /\ Longer(log, log) /\ proposed \subseteq Entry
         /\ acked \in 0 .. Len(log)
         /\ proc \in [Procs -> Proc] /\ disk \in [Procs -> Disk] /\ call \in [Callers -> Call]
         /\ \A p \in Procs : ProcOK(log, proc[p]) /\ DiskOK(log, disk[p])
         /\ \A c \in Callers : CallOK(log, call[c])
BY DEF DataInv, Longer

\* A step of one process.
LEMMA ProcData ==
  ASSUME DataInv, NEW p \in Procs, NEW x \in Proc, ProcOK(log, x), proc' = [proc EXCEPT ![p] = x],
         NEW d \in Disk, DiskOK(log, d), disk' = [disk EXCEPT ![p] = d],
         call' \in [Callers -> Call], \A c \in Callers : call'[c] = call[c] \/ CallOK(log, call'[c]),
         log' = log, proposed' = proposed, acked' \in 0 .. Len(log)
  PROVE  DataInv'
<1>1. /\ Longer(log, log') /\ proposed' \subseteq Entry /\ acked' \in 0 .. Len(log')
      /\ proc' \in [Procs -> Proc] /\ disk' \in [Procs -> Disk]
  BY Known, Zenon
<1>2. \A q \in Procs : proc'[q] = proc[q] \/ ProcOK(log', proc'[q])
  BY Known, Zenon
<1>3. \A q \in Procs : disk'[q] = disk[q] \/ DiskOK(log', disk'[q])
  BY Known, Zenon
<1> QED BY <1>1, <1>2, <1>3, DataFrame, Zenon

\* A step of one call.
LEMMA PutData ==
  ASSUME DataInv, NEW c \in Callers, NEW x \in Call, CallOK(log, x), Put(c, x),
         proposed' \subseteq Entry, UNCHANGED <<log, acked, disk>>,
         proc' \in [Procs -> Proc], \A p \in Procs : proc'[p] = proc[p] \/ ProcOK(log, proc'[p])
  PROVE  DataInv'
<1>1. call' = [call EXCEPT ![c] = x]
  BY Zenon DEF Put
<1>2. /\ Longer(log, log') /\ acked' \in 0 .. Len(log')
      /\ disk' \in [Procs -> Disk] /\ call' \in [Callers -> Call]
  BY <1>1, Known, Zenon
<1>3. \A d \in Callers : call'[d] = call[d] \/ CallOK(log', call'[d])
  BY <1>1, Known, Zenon
<1> QED BY <1>2, <1>3, DataFrame, Zenon

\* A quorum saves an entry.
LEMMA AppendData ==
  ASSUME DataInv, NEW e \in Entry, Append1(e), proposed' \subseteq proposed, UNCHANGED <<proc, call, acked>>
  PROVE  DataInv'
<1>1. PICK Q \in SUBSET Following :
        disk' = [p \in Procs |-> IF p \in Q THEN [disk[p] EXCEPT !.wal.saved = @ + 1] ELSE disk[p]]
  BY Zenon DEF Append1
<1>2. log' = Append(log, e)
  BY Zenon DEF Append1
<1>3. Longer(log, log') /\ Len(log') = Len(log) + 1 /\ acked' \in 0 .. Len(log') /\ proposed' \subseteq Entry
  BY <1>2, Known DEF Longer
<1>4. ASSUME NEW p \in Procs
      PROVE  disk'[p] \in Disk /\ (disk'[p] = disk[p] \/ DiskOK(log', disk'[p]))
  <2>1. disk[p] \in Disk /\ SnapOK(log, disk[p].snap)
    BY Known, Zenon DEF DiskOK
  <2>2. CASE p \notin Q
    BY <1>1, <2>1, <2>2, Zenon
  <2>3. CASE p \in Q
    <3> DEFINE n == disk[p].wal.saved + 1
               w == [disk[p].wal EXCEPT !.saved = n]
               d == [disk[p] EXCEPT !.wal = w]
    <3>1. disk[p].wal.saved = Len(log)
      BY <2>3, Zenon DEF Following
    <3>2. disk'[p] = d
      BY <1>1, <2>1, <2>3, Zenon DEF Disk
    <3>3. n = Len(log') /\ n \in Nat
      BY <1>3, <3>1, Known
    <3> HIDE DEF n
    <3>4. w \in Wal /\ w.saved = n
      BY <2>1, <3>3, WalType, Zenon DEF Disk, Wal
    <3> HIDE DEF w
    <3>5. d \in Disk /\ d.wal = w /\ d.snap = disk[p].snap
      BY <2>1, <3>4, Zenon DEF Disk
    <3> HIDE DEF d
    <3>6. SnapOK(log', d.snap)
      BY <1>3, <2>1, <3>5, Kept, Known, Zenon DEF Disk
    <3> QED BY <1>3, <3>2, <3>3, <3>4, <3>5, <3>6, Known DEF DiskOK
  <2> QED BY <2>2, <2>3, Zenon
<1>5. disk' \in [Procs -> Disk]
  BY <1>1, <1>4, Zenon
<1> QED BY <1>3, <1>4, <1>5, Known, DataFrame, Zenon

\* A process applies an entry.  What a caller hears of it: nothing, a broadcast, or the
\* outcome of its own entry.
Heard(x, p) == x.at = p /\ x.phase = "asleep"
Outcome(x, c, e) == x.phase = "waiting" /\ e.type = "normal" /\ e.wctx = <<c, x.try>>
TellTo(x, p, e) ==
  [x EXCEPT !.phase = "told",
            !.result = IF Satisfied(proc[p].st, e.instr) THEN "ok" ELSE "unsatisfied",
            !.missed = proc[p].missed]

LEMMA RunEffect ==
  ASSUME DataInv, NEW p \in Procs, RunUpdatesReady(p), NEW i, i = proc[p].next + 1, NEW e, e = log[i]
  PROVE  /\ Up(p) /\ i \in 1 .. Len(log) /\ e \in Entry
         /\ proc' = [proc EXCEPT ![p] = proc'[p]] /\ proc'[p] \in Proc
         /\ proc'[p].st = ApplyEntry(proc[p].st, e, i) /\ proc'[p].next = i
         /\ proc'[p].up = proc[p].up /\ proc'[p].pc \in {"ready", "snapshot"}
         /\ proc'[p].stored = proc[p].stored /\ proc'[p].taken = proc[p].taken
         /\ proc'[p].missed = proc[p].missed
         /\ UNCHANGED <<log, proposed, disk>>
         /\ acked' \in {acked, i} /\ acked' >= acked
<1> DEFINE s == ApplyEntry(proc[p].st, e, i)
           w == IF e.type = "normal" THEN proc[p].writers \ {e.wctx} ELSE proc[p].writers
           c == IF i > proc[p].snapIndex + snapCount THEN "snapshot" ELSE "ready"
<1>1. /\ Up(p) /\ proc[p].next < disk[p].wal.saved
      /\ proc' = [proc EXCEPT ![p].st = s, ![p].next = i, ![p].writers = w, ![p].pc = c]
      /\ UNCHANGED <<log, proposed, disk>>
  BY Zenon DEF RunUpdatesReady
<1>2. proc[p] \in Proc /\ disk[p] \in Disk /\ disk[p].wal.saved <= Len(log)
  BY Known, Zenon DEF DiskOK
<1>3. i \in 1 .. Len(log) /\ i \in Nat /\ proc[p].st \in State
  BY <1>1, <1>2, Known DEF Proc, Disk, Wal
<1>4. e \in Entry
  BY <1>3, Known
<1>5. s \in State /\ w \in SUBSET (Callers \X Nat) /\ c \in {"ready", "snapshot"}
  BY <1>2, <1>3, <1>4, EntryType, Zenon DEF Proc
<1>6. acked' \in {acked, i} /\ acked' >= acked
  <2>1. acked' = acked \/ (acked' = i /\ i > acked)
    BY Zenon DEF RunUpdatesReady
  <2> QED BY <1>3, <2>1, Known
<1> HIDE DEF s, w, c
<1>7. proc'[p] = [proc[p] EXCEPT !.st = s, !.next = i, !.writers = w, !.pc = c]
  BY <1>1, Known, Zenon
<1>8. proc' = [proc EXCEPT ![p] = proc'[p]]
  BY <1>1, <1>7, Known, Zenon
<1>9. proc'[p] \in Proc
  BY <1>2, <1>3, <1>5, <1>7, Zenon DEF Proc
<1>10. /\ proc'[p].st = s /\ proc'[p].next = i /\ proc'[p].pc = c /\ proc'[p].up = proc[p].up
       /\ proc'[p].stored = proc[p].stored /\ proc'[p].taken = proc[p].taken
       /\ proc'[p].missed = proc[p].missed
  BY <1>2, <1>7, Zenon DEF Proc
<1> QED BY <1>1, <1>3, <1>4, <1>5, <1>6, <1>8, <1>9, <1>10, Zenon DEF s

LEMMA RunCalls ==
  ASSUME DataInv, NEW p \in Procs, RunUpdatesReady(p), NEW e, e = log[proc[p].next + 1]
  PROVE  /\ call' \in [Callers -> Call]
         /\ \A c \in Callers : \/ call'[c] = call[c]
                               \/ Heard(call[c], p) /\ call'[c] = [call[c] EXCEPT !.phase = "awake"]
                               \/ Outcome(call[c], c, e) /\ call'[c] = TellTo(call[c], p, e)
<1> DEFINE sat == e.type = "normal" => Satisfied(proc[p].st, e.instr)
           t == Told(call, p, e, sat)
<1>0. e \in Entry /\ proc[p] \in Proc
  BY RunEffect, Known, Zenon
<1>1. call' = call \/ call' = Woken(t, p)
  BY Zenon DEF RunUpdatesReady
<1>2. /\ t \in [Callers -> Call]
      /\ \A c \in Callers : \/ t[c] = call[c]
                            \/ Outcome(call[c], c, e) /\ t[c] = TellTo(call[c], p, e) /\ t[c].phase = "told"
  <2>1. CASE ~(e.type = "normal" /\ e.wctx \in proc[p].writers)
    BY <2>1, Known, Zenon DEF Told
  <2>2. CASE e.type = "normal" /\ e.wctx \in proc[p].writers
    <3> DEFINE d == e.wctx[1]
               r == IF sat THEN "ok" ELSE "unsatisfied"
               y == [call[d] EXCEPT !.phase = "told", !.result = r, !.missed = proc[p].missed]
    <3>1. e.wctx \in Callers \X Nat /\ d \in Callers /\ e.wctx = <<d, e.wctx[2]>>
      BY <1>0, <2>2 DEF Proc
    <3>2. t = [call EXCEPT ![d] = IF @.phase = "waiting" /\ @.try = e.wctx[2] THEN
                 [@ EXCEPT !.phase = "told", !.result = r, !.missed = proc[p].missed] ELSE @]
      BY <2>2, Zenon DEF Told
    <3>3. sat <=> Satisfied(proc[p].st, e.instr)
      BY <2>2, Zenon
    <3>4. y = TellTo(call[d], p, e)
      BY <3>3, Zenon DEF TellTo
    <3>5. proc[p].missed \in BOOLEAN /\ call[d] \in Call /\ r \in {"ok", "unsatisfied"}
      BY <1>0, <3>1, Known, Zenon DEF Proc
    <3> HIDE DEF t, r, sat, d
    <3>6. y \in Call /\ y.phase = "told"
      BY <3>5, Zenon DEF Call, AtMember
    <3>7. t[d] = call[d] \/ (t[d] = y /\ call[d].phase = "waiting" /\ call[d].try = e.wctx[2])
      BY <3>1, <3>2, Known, Zenon
    <3>8. \A c \in Callers : c # d => t[c] = call[c]
      BY <3>2, Known, Zenon
    <3> HIDE DEF y
    <3>9. t \in [Callers -> Call]
      <4>1. DOMAIN t = Callers /\ t = [c \in Callers |-> t[c]]
        BY <3>2, Known, Zenon
      <4>2. \A c \in Callers : t[c] \in Call
        BY <3>6, <3>7, <3>8, Known, Zenon
      <4> QED BY <4>1, <4>2, Zenon
    <3>10. t[d] # call[d] => Outcome(call[d], d, e)
      BY <2>2, <3>1, <3>7, Zenon DEF Outcome
    <3> QED BY <3>4, <3>6, <3>7, <3>8, <3>9, <3>10, Zenon
  <2> QED BY <2>1, <2>2, Zenon
<1> HIDE DEF t
<1>3. CASE call' = call
  BY <1>3, Known, Zenon
<1>4. CASE call' = Woken(t, p)
  <2>1. ASSUME NEW c \in Callers
        PROVE  call'[c] \in Call /\ (call'[c] = t[c] \/ (Heard(t[c], p) /\ call'[c] = [t[c] EXCEPT !.phase = "awake"]))
    <3>1. call'[c] = IF Heard(t[c], p) THEN [t[c] EXCEPT !.phase = "awake"] ELSE t[c]
      BY <1>4, Zenon DEF Woken, Heard
    <3>2. t[c] \in Call
      BY <1>2, Zenon
    <3>3. [t[c] EXCEPT !.phase = "awake"] \in Call
      BY <3>2, Zenon DEF Call, AtMember
    <3> QED BY <3>1, <3>2, <3>3, Zenon
  <2>2. call' \in [Callers -> Call]
    BY <1>4, <2>1, Zenon DEF Woken
  <2>3. ASSUME NEW c \in Callers
        PROVE  \/ call'[c] = call[c]
               \/ Heard(call[c], p) /\ call'[c] = [call[c] EXCEPT !.phase = "awake"]
               \/ Outcome(call[c], c, e) /\ call'[c] = TellTo(call[c], p, e)
    <3>1. CASE t[c] = call[c]
      BY <2>1, <3>1, Zenon
    <3>2. CASE Outcome(call[c], c, e) /\ t[c] = TellTo(call[c], p, e) /\ t[c].phase = "told"
      BY <2>1, <3>2, Zenon DEF Heard
    <3> QED BY <1>2, <3>1, <3>2, Zenon
  <2> QED BY <2>2, <2>3, Zenon
<1> QED BY <1>1, <1>3, <1>4, Zenon

\* The fields of a call that hears something.
LEMMA HeardFields ==
  ASSUME NEW x \in Call, NEW p, NEW e
  PROVE  /\ [x EXCEPT !.phase = "awake"].phase = "awake" /\ TellTo(x, p, e).phase = "told"
         /\ \A y \in {[x EXCEPT !.phase = "awake"], TellTo(x, p, e)} :
              /\ y.at = x.at /\ y.try = x.try /\ y.instr = x.instr /\ y.id = x.id /\ y.snap = x.snap
              /\ y.floor = x.floor /\ y.index = x.index
BY DEF Call, TellTo

LEMMA RunData ==
  ASSUME DataInv, NEW p \in Procs, RunUpdatesReady(p)
  PROVE  DataInv'
<1> DEFINE i == proc[p].next + 1
           e == log[i]
           x == proc'[p]
<1>1. /\ i \in 1 .. Len(log) /\ e \in Entry
      /\ proc' = [proc EXCEPT ![p] = x] /\ x \in Proc
      /\ x.st = ApplyEntry(proc[p].st, e, i) /\ x.next = i
      /\ x.stored = proc[p].stored /\ x.taken = proc[p].taken /\ x.missed = proc[p].missed
      /\ UNCHANGED <<log, proposed, disk>>
      /\ acked' \in {acked, i}
  BY RunEffect
<1>2. /\ call' \in [Callers -> Call]
      /\ \A c \in Callers : \/ call'[c] = call[c]
                            \/ Heard(call[c], p) /\ call'[c] = [call[c] EXCEPT !.phase = "awake"]
                            \/ Outcome(call[c], c, e) /\ call'[c] = TellTo(call[c], p, e)
  BY RunCalls, Zenon
<1>3. i \in Nat /\ i - 1 = proc[p].next /\ i - 1 \in Nat /\ i - 1 < Len(log) /\ (i - 1) + 1 = i
      /\ proc[p] \in Proc /\ proc[p].st \in State /\ ProcOK(log, proc[p])
  BY <1>1, Known DEF Proc
<1> HIDE DEF i, e, x
<1>4. ProcOK(log, x)
  <2>1. x.st.applied = i
    BY <1>1, <1>3, EntryType
  <2>2. SnapOK(log, x.stored) /\ SnapOK(log, x.taken)
    BY <1>1, <1>3, Zenon DEF ProcOK
  <2>3. ASSUME ~x.missed PROVE Same(x.st, Prefix(log, i))
    <3>1. Same(proc[p].st, Prefix(log, i - 1))
      BY <1>1, <1>3, <2>3, Zenon DEF ProcOK
    <3>2. Prefix(log, i - 1) \in State
      BY <1>3, Known, PrefixType
    <3>3. Prefix(log, i) = ApplyEntry(Prefix(log, i - 1), e, i)
      BY <1>3, Known, PrefixMore, Zenon DEF e
    <3> QED BY <1>1, <1>3, <3>1, <3>2, <3>3, EntrySame, Zenon
  <2> QED BY <1>1, <2>1, <2>2, <2>3 DEF ProcOK
<1>5. ASSUME NEW c \in Callers PROVE call'[c] = call[c] \/ CallOK(log, call'[c])
  <2>1. call[c] \in Call /\ CallOK(log, call[c])
    BY Known, Zenon
  <2> SUFFICES ASSUME call'[c] # call[c] PROVE CallOK(log, call'[c])
    BY Zenon
  <2>2. /\ call'[c].phase \in {"awake", "told"} /\ call[c].phase \in AtMember
        /\ call'[c].at = call[c].at /\ call'[c].snap = call[c].snap
    <3>1. CASE Heard(call[c], p) /\ call'[c] = [call[c] EXCEPT !.phase = "awake"]
      BY <2>1, <3>1, HeardFields DEF Heard, AtMember
    <3>2. CASE Outcome(call[c], c, e) /\ call'[c] = TellTo(call[c], p, e)
      BY <2>1, <3>2, HeardFields DEF Outcome, AtMember
    <3> QED BY <1>2, <3>1, <3>2, Zenon
  <2> QED BY <2>1, <2>2, Zenon DEF CallOK
<1>6. disk[p] \in Disk /\ DiskOK(log, disk[p]) /\ disk' = [disk EXCEPT ![p] = disk[p]]
  BY <1>1, Known, Zenon
<1>7. acked' \in 0 .. Len(log)
  BY <1>1, Known
<1> QED BY <1>1, <1>2, <1>4, <1>5, <1>6, <1>7, ProcData, Zenon

\* The other steps of a process: what they do to its memory and its files.
OneProc(p) ==
  /\ proc' = [proc EXCEPT ![p] = proc'[p]] /\ proc'[p] \in Proc
  /\ disk' = [disk EXCEPT ![p] = disk'[p]] /\ disk'[p] \in Disk
  /\ UNCHANGED <<log, proposed, acked>>
SameState(p) ==
  /\ proc'[p].st = proc[p].st /\ proc'[p].next = proc[p].next /\ proc'[p].missed = proc[p].missed
SameFiles(p) ==
  /\ disk'[p].snap = disk[p].snap /\ disk'[p].wal.exists = disk[p].wal.exists
  /\ disk'[p].wal.snaps = disk[p].wal.snaps

LEMMA SaveEntriesEffect ==
  ASSUME DataInv, NEW p \in Procs, SaveEntries(p)
  PROVE  OneProc(p) /\ SameFiles(p) /\ disk'[p].wal.saved <= Len(log) /\ UNCHANGED <<proc, call>>
<1>1. PICK q \in Procs : disk' = [disk EXCEPT ![p].wal.saved = disk[q].wal.saved]
  BY Zenon DEF SaveEntries
<1>2. UNCHANGED <<log, proposed, proc, call, acked>>
  BY Zenon DEF SaveEntries
<1>3. disk[p] \in Disk /\ disk[q] \in Disk /\ disk[q].wal.saved <= Len(log)
  BY Known, Zenon DEF DiskOK
<1> DEFINE n == disk[q].wal.saved
           w == [disk[p].wal EXCEPT !.saved = n]
<1>4. n \in Nat /\ w \in Wal /\ w.saved = n /\ w.exists = disk[p].wal.exists /\ w.snaps = disk[p].wal.snaps
  BY <1>3, WalType, Zenon DEF Disk, Wal
<1>5. disk'[p] = [disk[p] EXCEPT !.wal = w] /\ disk' = [disk EXCEPT ![p] = disk'[p]]
  BY <1>1, Known, Zenon
<1> HIDE DEF w, n
<1>6. disk'[p] \in Disk /\ disk'[p].wal = w /\ disk'[p].snap = disk[p].snap
  BY <1>3, <1>4, <1>5, Zenon DEF Disk
<1>7. proc' = [proc EXCEPT ![p] = proc'[p]] /\ proc'[p] \in Proc
  BY <1>2, Known, Zenon
<1> QED BY <1>2, <1>3, <1>4, <1>5, <1>6, <1>7, Zenon DEF OneProc, SameFiles, n

\* Steps that leave the files alone.
LEMMA SameDisk ==
  ASSUME DataInv, NEW p \in Procs, disk' = disk
  PROVE  /\ disk' = [disk EXCEPT ![p] = disk'[p]] /\ disk'[p] \in Disk
         /\ SameFiles(p) /\ disk'[p].wal.saved <= Len(log)
BY Known, Zenon DEF SameFiles, DiskOK

EndCall(x) == [x EXCEPT !.phase = "done", !.result = "shutdown"]

\* Calls that end at a process, or with it.
Ended(x, y) ==
  /\ x.phase # "idle" /\ y \in Call /\ y.phase = "done" /\ y.result = "shutdown"
  /\ y.instr = x.instr /\ y.try = x.try /\ y.snap = x.snap
CallsEnd(p) ==
  /\ call' \in [Callers -> Call]
  /\ \A c \in Callers : call'[c] = call[c] \/ Ended(call[c], call'[c])
  /\ \A c \in Calls : call[c].at = p /\ call[c].phase \notin {"idle", "done"} => call'[c].phase = "done"

LEMMA EndCallEnds == ASSUME NEW x \in Call, x.phase # "idle" PROVE Ended(x, EndCall(x))
BY Zenon DEF Ended, EndCall, Call

LEMMA AnsweredCalls ==
  ASSUME DataInv, NEW p, NEW cs, cs \cap Calls = {}
  PROVE  /\ Answered(p, cs) \in [Callers -> Call]
         /\ \A c \in Callers : Answered(p, cs)[c] = call[c] \/ Ended(call[c], Answered(p, cs)[c])
         /\ \A c \in Calls : call[c].at = p /\ call[c].phase \notin {"idle", "done"} => Answered(p, cs)[c].phase = "done"
<1> DEFINE a == Answered(p, cs)
           ends(c) == /\ call[c].at = p /\ call[c].phase \notin {"idle", "done"}
                      /\ c \in cs => call[c].phase \notin {"awake", "asleep", "snapshot"}
<1>1. a = [c \in Callers |-> IF ends(c) THEN EndCall(call[c]) ELSE call[c]]
  BY Zenon DEF Answered, EndCall
<1>2. ASSUME NEW c \in Callers PROVE ends(c) => Ended(call[c], EndCall(call[c]))
  BY Known, EndCallEnds, Zenon
<1>3. \A c \in Calls : c \in Callers /\ c \notin cs
  BY Zenon DEF Callers
<1> HIDE DEF a
<1>4. ASSUME NEW c \in Callers PROVE a[c] \in Call /\ (a[c] = call[c] \/ Ended(call[c], a[c]))
  BY <1>1, <1>2, Known, Zenon DEF Ended
<1>5. a \in [Callers -> Call]
  BY <1>1, <1>4, Zenon
<1>6. ASSUME NEW c \in Calls, call[c].at = p, call[c].phase \notin {"idle", "done"} PROVE a[c].phase = "done"
  BY <1>1, <1>2, <1>3, <1>6, Zenon DEF Ended
<1> QED BY <1>4, <1>5, <1>6, Zenon DEF a

LEMMA GetSnapshotEffect ==
  ASSUME DataInv, NEW p \in Procs, GetSnapshot(p)
  PROVE  /\ OneProc(p) /\ SameState(p) /\ UNCHANGED disk /\ Up(p)
         /\ \/ /\ proc'[p].up = "up" /\ proc'[p].pc = "savePosition" /\ UNCHANGED call
               /\ proc'[p].stored = Snapshot(proc[p].st, ~proc[p].missed) /\ proc'[p].taken = proc'[p].stored
            \/ /\ proc'[p].up = "exited" /\ proc'[p].pc = "snapshot" /\ CallsEnd(p)
               /\ proc'[p].stored = proc[p].stored /\ proc'[p].taken = proc[p].taken
<1>1. Up(p) /\ proc[p].pc = "snapshot" /\ UNCHANGED <<log, proposed, disk, acked>>
  BY Zenon DEF GetSnapshot
<1>2. proc[p] \in Proc /\ proc[p].st \in State
  BY Known, Zenon DEF Proc
<1>3. disk' = [disk EXCEPT ![p] = disk'[p]] /\ disk'[p] \in Disk
  BY <1>1, SameDisk, Zenon
<1>4. CASE CanSnapshot(p)
  <2> DEFINE snap == Snapshot(proc[p].st, ~proc[p].missed)
  <2>1. snap \in Snap
    BY <1>2, SnapshotType, Zenon DEF Proc
  <2>2. proc' = [proc EXCEPT ![p].stored = snap, ![p].taken = snap, ![p].pc = "savePosition"] /\ UNCHANGED call
    BY <1>4, Zenon DEF GetSnapshot
  <2> HIDE DEF snap
  <2>3. /\ proc'[p] = [proc[p] EXCEPT !.stored = snap, !.taken = snap, !.pc = "savePosition"]
        /\ proc' = [proc EXCEPT ![p] = proc'[p]]
    BY <2>2, Known, Zenon
  <2>4. proc'[p] \in Proc
    BY <1>2, <2>1, <2>3, Zenon DEF Proc
  <2>5. /\ proc'[p].stored = snap /\ proc'[p].taken = snap /\ proc'[p].pc = "savePosition"
        /\ proc'[p].up = proc[p].up /\ SameState(p)
    BY <1>2, <2>3, Zenon DEF Proc, SameState
  <2> QED BY <1>1, <1>3, <2>2, <2>3, <2>4, <2>5, Zenon DEF OneProc, Up, snap
<1>5. CASE ~CanSnapshot(p)
  <2>1. proc' = [proc EXCEPT ![p].up = "exited"] /\ call' = Answered(p, Joiners)
    BY <1>5, Zenon DEF GetSnapshot, Exited
  <2>2. /\ proc'[p] = [proc[p] EXCEPT !.up = "exited"]
        /\ proc' = [proc EXCEPT ![p] = proc'[p]]
    BY <2>1, Known, Zenon
  <2>3. proc'[p] \in Proc
    BY <1>2, <2>2, Zenon DEF Proc
  <2>4. /\ proc'[p].stored = proc[p].stored /\ proc'[p].taken = proc[p].taken /\ proc'[p].pc = proc[p].pc
        /\ proc'[p].up = "exited" /\ SameState(p)
    BY <1>2, <2>2, Zenon DEF Proc, SameState
  <2>5. CallsEnd(p)
    BY <2>1, Disjoint, AnsweredCalls DEF CallsEnd
  <2> QED BY <1>1, <1>3, <2>2, <2>3, <2>4, <2>5, Zenon DEF OneProc
<1> QED BY <1>4, <1>5, Zenon

LEMMA ReceiveSnapshotEffect ==
  ASSUME DataInv, NEW p \in Procs, ReceiveSnapshot(p)
  PROVE  /\ OneProc(p) /\ SameState(p) /\ UNCHANGED <<disk, call>> /\ Up(p)
         /\ proc'[p].up = "up" /\ proc'[p].pc = "receivePosition" /\ proc'[p].stored = proc[p].stored
         /\ \E q \in Procs : proc'[p].taken = proc[q].stored
<1>1. PICK q \in Procs : proc' = [proc EXCEPT ![p].taken = proc[q].stored, ![p].pc = "receivePosition"]
  BY Zenon DEF ReceiveSnapshot
<1>2. Up(p) /\ UNCHANGED <<log, proposed, disk, call, acked>>
  BY Zenon DEF ReceiveSnapshot
<1>3. proc[p] \in Proc /\ proc[q].stored \in Snap
  BY Known, Zenon DEF Proc
<1>4. /\ proc'[p] = [proc[p] EXCEPT !.taken = proc[q].stored, !.pc = "receivePosition"]
      /\ proc' = [proc EXCEPT ![p] = proc'[p]]
  BY <1>1, Known, Zenon
<1>5. proc'[p] \in Proc
  BY <1>3, <1>4, Zenon DEF Proc
<1>6. /\ proc'[p].up = proc[p].up /\ proc'[p].pc = "receivePosition" /\ SameState(p)
      /\ proc'[p].stored = proc[p].stored /\ proc'[p].taken = proc[q].stored
  BY <1>3, <1>4, Zenon DEF Proc, SameState
<1>7. disk' = [disk EXCEPT ![p] = disk'[p]] /\ disk'[p] \in Disk
  BY <1>2, SameDisk, Zenon
<1> QED BY <1>2, <1>4, <1>5, <1>6, <1>7, Zenon DEF OneProc, Up

LEMMA SavePositionEffect ==
  ASSUME DataInv, NEW p \in Procs, SavePosition(p)
  PROVE  /\ OneProc(p) /\ SameState(p) /\ UNCHANGED call /\ Up(p)
         /\ proc'[p].up = "up" /\ proc'[p].stored = proc[p].stored /\ proc'[p].taken = proc[p].taken
         /\ disk'[p].snap = disk[p].snap /\ disk'[p].wal.exists = disk[p].wal.exists
         /\ disk'[p].wal.snaps = disk[p].wal.snaps \cup {proc[p].taken.index}
         /\ disk'[p].wal.saved \in {disk[p].wal.saved, proc[p].taken.index}
<1> DEFINE i == proc[p].taken.index
           c == IF proc[p].pc = "savePosition" THEN "saveFile" ELSE "receiveFile"
           n == IF disk[p].wal.saved < i THEN i ELSE disk[p].wal.saved
           s == disk[p].wal.snaps \cup {i}
           w == [disk[p].wal EXCEPT !.snaps = s, !.saved = n]
<1>1. /\ Up(p) /\ UNCHANGED <<log, proposed, call, acked>>
      /\ disk' = [disk EXCEPT ![p].wal.snaps = s, ![p].wal.saved = n]
      /\ proc' = [proc EXCEPT ![p].pc = c]
  BY Zenon DEF SavePosition
<1>2. proc[p] \in Proc /\ disk[p] \in Disk
  BY Known, Zenon
<1>3. i \in Nat /\ n \in {disk[p].wal.saved, i} /\ n \in Nat /\ s \in SUBSET Nat
  BY <1>2, Zenon DEF Proc, Snap, Disk, Wal
<1>4. c \in {"saveFile", "receiveFile"}
  BY Zenon
<1> HIDE DEF i, c, n, s
<1>5. w \in Wal /\ w.snaps = s /\ w.saved = n /\ w.exists = disk[p].wal.exists
  BY <1>2, <1>3, Zenon DEF Disk, Wal
<1>6. disk'[p] = [disk[p] EXCEPT !.wal = w] /\ disk' = [disk EXCEPT ![p] = disk'[p]]
  BY <1>1, <1>2, Known, Zenon DEF Disk
<1>7. proc'[p] = [proc[p] EXCEPT !.pc = c] /\ proc' = [proc EXCEPT ![p] = proc'[p]]
  BY <1>1, Known, Zenon
<1> HIDE DEF w
<1>8. disk'[p] \in Disk /\ disk'[p].wal = w /\ disk'[p].snap = disk[p].snap
  BY <1>2, <1>5, <1>6, Zenon DEF Disk
<1>9. proc'[p] \in Proc
  BY <1>2, <1>4, <1>7, Zenon DEF Proc
<1>10. /\ proc'[p].up = proc[p].up /\ SameState(p)
       /\ proc'[p].stored = proc[p].stored /\ proc'[p].taken = proc[p].taken
  BY <1>2, <1>7, Zenon DEF Proc, SameState
<1> QED BY <1>1, <1>3, <1>5, <1>6, <1>7, <1>8, <1>9, <1>10, Zenon DEF OneProc, Up, i, s

LEMMA SaveFileEffect ==
  ASSUME DataInv, NEW p \in Procs, SaveFile(p)
  PROVE  /\ OneProc(p) /\ SameState(p) /\ UNCHANGED call /\ Up(p) /\ proc[p].pc = "saveFile"
         /\ proc'[p].up = "up" /\ proc'[p].pc = "ready"
         /\ proc'[p].stored = proc[p].stored /\ proc'[p].taken = NoSnapshot
         /\ disk'[p].snap = proc[p].taken /\ disk'[p].wal = disk[p].wal
<1> DEFINE s == proc[p].taken
           f == Compacted(s.index) + 1
<1>1. /\ Up(p) /\ proc[p].pc = "saveFile" /\ UNCHANGED <<log, proposed, call, acked>>
      /\ disk' = [disk EXCEPT ![p].snap = s]
      /\ proc' = [proc EXCEPT ![p].pc = "ready", ![p].snapIndex = s.index, ![p].first = f, ![p].taken = NoSnapshot]
  BY Zenon DEF SaveFile
<1>2. proc[p] \in Proc /\ disk[p] \in Disk /\ s \in Snap /\ s.index \in Nat
  BY Known, Zenon DEF Proc, Snap
<1>3. f \in Nat /\ NoSnapshot \in Snap
  BY <1>2, RaftAssumption, NewType DEF Compacted
<1> HIDE DEF s, f
<1>4. disk'[p] = [disk[p] EXCEPT !.snap = s] /\ disk' = [disk EXCEPT ![p] = disk'[p]]
  BY <1>1, Known, Zenon
<1>5. /\ proc'[p] = [proc[p] EXCEPT !.pc = "ready", !.snapIndex = s.index, !.first = f, !.taken = NoSnapshot]
      /\ proc' = [proc EXCEPT ![p] = proc'[p]]
  BY <1>1, Known, Zenon
<1>6. disk'[p] \in Disk /\ disk'[p].wal = disk[p].wal /\ disk'[p].snap = s
  BY <1>2, <1>4, Zenon DEF Disk
<1>7. proc'[p] \in Proc
  BY <1>2, <1>3, <1>5, Zenon DEF Proc
<1>8. /\ proc'[p].up = proc[p].up /\ proc'[p].pc = "ready" /\ SameState(p)
      /\ proc'[p].stored = proc[p].stored /\ proc'[p].taken = NoSnapshot
  BY <1>2, <1>5, Zenon DEF Proc, SameState
<1> QED BY <1>1, <1>4, <1>5, <1>6, <1>7, <1>8, Zenon DEF OneProc, Up, s

LEMMA ReceiveFileEffect ==
  ASSUME DataInv, NEW p \in Procs, ReceiveFile(p)
  PROVE  /\ OneProc(p) /\ UNCHANGED call /\ Up(p) /\ proc[p].pc = "receiveFile"
         /\ proc'[p].up = "up" /\ proc'[p].pc = "ready" /\ proc'[p].st = proc[p].st /\ proc'[p].missed
         /\ proc'[p].stored = proc[p].taken /\ proc'[p].taken = NoSnapshot
         /\ disk'[p].snap = proc[p].taken /\ disk'[p].wal = disk[p].wal
<1> DEFINE s == proc[p].taken
           f == s.index + 1
<1>1. /\ Up(p) /\ proc[p].pc = "receiveFile" /\ UNCHANGED <<log, proposed, call, acked>>
      /\ disk' = [disk EXCEPT ![p].snap = s]
      /\ proc' = [proc EXCEPT ![p].pc = "ready", ![p].snapIndex = s.index, ![p].first = f, ![p].next = s.index,
                              ![p].stored = s, ![p].taken = NoSnapshot, ![p].missed = TRUE]
  BY Zenon DEF ReceiveFile
<1>2. proc[p] \in Proc /\ disk[p] \in Disk /\ s \in Snap /\ s.index \in Nat /\ f \in Nat
  BY Known DEF Proc, Snap
<1> HIDE DEF s, f
<1>4. disk'[p] = [disk[p] EXCEPT !.snap = s] /\ disk' = [disk EXCEPT ![p] = disk'[p]]
  BY <1>1, Known, Zenon
<1>5. /\ proc'[p] = [proc[p] EXCEPT !.pc = "ready", !.snapIndex = s.index, !.first = f, !.next = s.index,
                                    !.stored = s, !.taken = NoSnapshot, !.missed = TRUE]
      /\ proc' = [proc EXCEPT ![p] = proc'[p]]
  <2>1. ASSUME NEW b, proc' = [proc EXCEPT ![p].pc = "ready", ![p].snapIndex = s.index, ![p].first = f, ![p].next = s.index,
                                           ![p].stored = s, ![p].taken = NoSnapshot, ![p].missed = b]
        PROVE  /\ proc'[p] = [proc[p] EXCEPT !.pc = "ready", !.snapIndex = s.index, !.first = f, !.next = s.index,
                                             !.stored = s, !.taken = NoSnapshot, !.missed = b]
               /\ proc' = [proc EXCEPT ![p] = proc'[p]]
    BY <2>1, Known, Zenon
  <2> QED BY <1>1, <2>1, Zenon
<1>6. disk'[p] \in Disk /\ disk'[p].wal = disk[p].wal /\ disk'[p].snap = s
  BY <1>2, <1>4, Zenon DEF Disk
<1>7. ASSUME NEW x \in Proc, NEW b \in BOOLEAN, NEW y,
             y = [x EXCEPT !.pc = "ready", !.snapIndex = s.index, !.first = f, !.next = s.index,
                           !.stored = s, !.taken = NoSnapshot, !.missed = b]
      PROVE  /\ y \in Proc /\ y.up = x.up /\ y.pc = "ready" /\ y.st = x.st /\ y.missed = b
             /\ y.stored = s /\ y.taken = NoSnapshot
  BY <1>2, <1>7, NewType, Zenon DEF Proc
<1>8. TRUE \in BOOLEAN
  BY Zenon
<1>9. /\ proc'[p] \in Proc /\ proc'[p].up = proc[p].up /\ proc'[p].pc = "ready" /\ proc'[p].st = proc[p].st
      /\ proc'[p].missed = TRUE /\ proc'[p].stored = s /\ proc'[p].taken = NoSnapshot
  BY <1>2, <1>5, <1>7, <1>8, Zenon
<1> QED BY <1>1, <1>4, <1>5, <1>6, <1>9, Zenon DEF OneProc, Up, s

LEMMA RedoEffect ==
  ASSUME DataInv, NEW p \in Procs, Redo(p)
  PROVE  /\ OneProc(p) /\ SameState(p) /\ UNCHANGED <<disk, call>> /\ Up(p)
         /\ proc'[p].up = "up" /\ proc'[p].pc = "snapshot"
         /\ proc'[p].stored = proc[p].stored /\ proc'[p].taken = proc[p].taken
<1>1. Up(p) /\ proc' = [proc EXCEPT ![p].pc = "snapshot"] /\ UNCHANGED <<log, proposed, disk, call, acked>>
  BY Zenon DEF Redo
<1>2. proc[p] \in Proc
  BY Known, Zenon
<1>3. proc'[p] = [proc[p] EXCEPT !.pc = "snapshot"] /\ proc' = [proc EXCEPT ![p] = proc'[p]]
  BY <1>1, Known, Zenon
<1>4. proc'[p] \in Proc
  BY <1>2, <1>3, Zenon DEF Proc
<1>5. /\ proc'[p].up = proc[p].up /\ proc'[p].pc = "snapshot" /\ SameState(p)
      /\ proc'[p].stored = proc[p].stored /\ proc'[p].taken = proc[p].taken
  BY <1>2, <1>3, Zenon DEF Proc, SameState
<1>6. disk' = [disk EXCEPT ![p] = disk'[p]] /\ disk'[p] \in Disk
  BY <1>1, SameDisk, Zenon
<1> QED BY <1>1, <1>3, <1>4, <1>5, <1>6, Zenon DEF OneProc, Up

LEMMA CrashEffect ==
  ASSUME DataInv, NEW p \in Procs, Crash(p)
  PROVE  /\ OneProc(p) /\ proc'[p] = Down /\ UNCHANGED disk /\ CallsEnd(p)
         /\ p \in Joiners => call'[p].phase \in {"idle", "done"}
<1> DEFINE cs == Answered(p, {})
<1>1. proc' = [proc EXCEPT ![p] = Down] /\ UNCHANGED <<log, proposed, disk, acked>>
  BY Zenon DEF Crash
<1>2. call' = IF p \in Joiners /\ cs[p].phase # "idle"
              THEN [cs EXCEPT ![p].phase = "done", ![p].result = "shutdown", ![p].at = None] ELSE cs
  BY Zenon DEF Crash
<1>3. /\ cs \in [Callers -> Call]
      /\ \A c \in Callers : cs[c] = call[c] \/ Ended(call[c], cs[c])
      /\ \A c \in Calls : call[c].at = p /\ call[c].phase \notin {"idle", "done"} => cs[c].phase = "done"
  <2>1. {} \cap Calls = {}
    BY Zenon
  <2> QED BY <2>1, AnsweredCalls, Zenon
<1> HIDE DEF cs
<1>4. OneProc(p) /\ proc'[p] = Down
  BY <1>1, Known, DownType, SameDisk, Zenon DEF OneProc
<1>5. CASE ~(p \in Joiners /\ cs[p].phase # "idle")
  BY <1>1, <1>2, <1>3, <1>4, <1>5, Zenon DEF CallsEnd
<1>6. CASE p \in Joiners /\ cs[p].phase # "idle"
  <2> DEFINE y == [cs[p] EXCEPT !.phase = "done", !.result = "shutdown", !.at = None]
  <2>1. p \in Callers /\ p \notin Calls
    BY <1>6, Disjoint, Zenon DEF Callers
  <2>2. cs[p] \in Call
    BY <1>3, <2>1, Zenon
  <2>3. /\ y \in Call /\ y.phase = "done" /\ y.result = "shutdown"
        /\ y.instr = cs[p].instr /\ y.try = cs[p].try /\ y.snap = cs[p].snap
    BY <2>2, Zenon DEF Call
  <2>4. call' = [cs EXCEPT ![p] = y]
    BY <1>2, <1>3, <1>6, <2>1, Zenon
  <2> HIDE DEF y
  <2>5. Ended(call[p], y)
    BY <1>3, <1>6, <2>1, <2>3, Zenon DEF Ended
  <2>6. call' \in [Callers -> Call] /\ call'[p] = y /\ \A c \in Callers : c # p => call'[c] = cs[c]
    BY <1>3, <2>1, <2>3, <2>4, Zenon
  <2>7. \A c \in Calls : c \in Callers /\ c # p
    BY <2>1, Zenon DEF Callers
  <2> QED BY <1>1, <1>3, <1>4, <2>3, <2>5, <2>6, <2>7, Zenon DEF CallsEnd
<1> QED BY <1>5, <1>6, Zenon

LEMMA RecoverEffect ==
  ASSUME DataInv, NEW p \in Procs, Recover(p)
  PROVE  /\ OneProc(p) /\ UNCHANGED call /\ proc[p].up = "down" /\ disk[p].wal.exists /\ SameFiles(p)
         /\ disk'[p].wal.saved \in {disk[p].wal.saved, disk[p].snap.index}
         /\ \/ proc'[p] = Started(disk[p].id, RestoreSnapshot(New, disk[p].snap), disk[p].snap)
            \/ /\ disk[p].snap.index \notin disk[p].wal.snaps
               /\ proc'[p] = [proc[p] EXCEPT !.up = "unrecoverable"]
         /\ p \in Joiners => call[p].phase \in {"idle", "done"}
<1> DEFINE s == disk[p].snap
           x == Started(disk[p].id, RestoreSnapshot(New, s), s)
           n == IF disk[p].wal.saved < s.index THEN s.index ELSE disk[p].wal.saved
           w == [disk[p].wal EXCEPT !.saved = n]
<1>1. /\ proc[p].up = "down" /\ disk[p].wal.exists /\ UNCHANGED <<log, proposed, call, acked>>
      /\ p \in Joiners => call[p].phase \in {"idle", "done"}
      /\ \/ proc' = [proc EXCEPT ![p] = x] /\ disk' = [disk EXCEPT ![p].wal.saved = n]
         \/ /\ s.index \notin disk[p].wal.snaps
            /\ proc' = [proc EXCEPT ![p].up = "unrecoverable"] /\ disk' = disk
  BY Zenon DEF Recover
<1>2. proc[p] \in Proc /\ disk[p] \in Disk /\ s \in Snap /\ s.index \in Nat /\ SnapOK(log, s) /\ disk[p].id \in Nat
  BY Known, Zenon DEF Disk, Snap, DiskOK
<1>3. x \in Proc
  BY <1>2, RestoreType, StartedType, Known, Zenon
<1>4. n \in Nat /\ n \in {disk[p].wal.saved, s.index}
  BY <1>2, Zenon DEF Disk, Wal
<1> HIDE DEF x, s, n
<1>5. w \in Wal /\ w.saved = n /\ w.exists = disk[p].wal.exists /\ w.snaps = disk[p].wal.snaps
  BY <1>2, <1>4, WalType, Zenon DEF Disk, Wal
<1>6. CASE proc' = [proc EXCEPT ![p] = x] /\ disk' = [disk EXCEPT ![p].wal.saved = n]
  <2>1. disk'[p] = [disk[p] EXCEPT !.wal = w] /\ disk' = [disk EXCEPT ![p] = disk'[p]]
    BY <1>6, Known, Zenon
  <2> HIDE DEF w
  <2>2. disk'[p] \in Disk /\ disk'[p].wal = w /\ disk'[p].snap = disk[p].snap
    BY <1>2, <1>5, <2>1, Zenon DEF Disk
  <2>3. proc'[p] = x /\ proc' = [proc EXCEPT ![p] = proc'[p]]
    BY <1>6, Known, Zenon
  <2> QED BY <1>1, <1>3, <1>4, <1>5, <2>1, <2>2, <2>3, Zenon DEF OneProc, SameFiles, x, s
<1>7. CASE /\ s.index \notin disk[p].wal.snaps
           /\ proc' = [proc EXCEPT ![p].up = "unrecoverable"] /\ disk' = disk
  <2>1. proc'[p] = [proc[p] EXCEPT !.up = "unrecoverable"] /\ proc' = [proc EXCEPT ![p] = proc'[p]]
    BY <1>7, Known, Zenon
  <2>2. proc'[p] \in Proc
    BY <1>2, <2>1, Zenon DEF Proc
  <2>3. disk' = [disk EXCEPT ![p] = disk'[p]] /\ disk'[p] \in Disk /\ SameFiles(p)
    BY <1>7, SameDisk, Zenon
  <2> QED BY <1>1, <1>7, <2>1, <2>2, <2>3, Zenon DEF OneProc, s
<1> QED BY <1>1, <1>6, <1>7, Zenon

\* They keep DataInv.
ProcStep(p) ==
  \/ SaveEntries(p) \/ GetSnapshot(p) \/ ReceiveSnapshot(p) \/ SavePosition(p) \/ SaveFile(p)
  \/ ReceiveFile(p) \/ Crash(p) \/ Redo(p) \/ Recover(p)

LEMMA SameStateOK ==
  ASSUME DataInv, NEW p \in Procs, SameState(p), SnapOK(log, proc'[p].stored), SnapOK(log, proc'[p].taken)
  PROVE  ProcOK(log, proc'[p])
BY Known, Zenon DEF SameState, ProcOK

LEMMA ProcStepData ==
  ASSUME DataInv, NEW p \in Procs, ProcStep(p)
  PROVE  DataInv'
<1>1. /\ proc[p] \in Proc /\ disk[p] \in Disk /\ ProcOK(log, proc[p]) /\ DiskOK(log, disk[p])
      /\ SnapOK(log, NoSnapshot) /\ proc[p].st \in State /\ disk[p].snap \in Snap /\ disk[p].id \in Nat
  BY Known, NoCallType, Zenon DEF Proc, Disk
<1>2. /\ SnapOK(log, proc[p].stored) /\ SnapOK(log, proc[p].taken) /\ proc[p].taken.index <= Len(log)
      /\ SnapOK(log, disk[p].snap) /\ disk[p].snap.index <= Len(log) /\ disk[p].wal.saved <= Len(log)
  BY <1>1, Zenon DEF ProcOK, DiskOK, SnapOK
<1> SUFFICES /\ OneProc(p) /\ ProcOK(log, proc'[p]) /\ DiskOK(log, disk'[p])
             /\ UNCHANGED call \/ CallsEnd(p)
  <2>1. ASSUME CallsEnd(p)
        PROVE  /\ call' \in [Callers -> Call]
               /\ \A c \in Callers : call'[c] = call[c] \/ CallOK(log, call'[c])
    <3>1. ASSUME NEW c \in Callers, Ended(call[c], call'[c]) PROVE CallOK(log, call'[c])
      BY <3>1, Known, Zenon DEF CallOK, Ended, AtMember
    <3> QED BY <2>1, <3>1, Zenon DEF CallsEnd
  <2>2. acked \in 0 .. Len(log)
    BY Known, Zenon
  <2> QED BY <2>1, <2>2, Known, ProcData, Zenon DEF OneProc
<1>3. CASE SaveEntries(p)
  BY <1>1, <1>2, <1>3, SaveEntriesEffect, Zenon DEF SameFiles, DiskOK
<1>4. CASE GetSnapshot(p)
  <2> DEFINE s == Snapshot(proc[p].st, ~proc[p].missed)
  <2>1. SnapOK(log, s)
    BY <1>1, SnapshotOK, Zenon
  <2> HIDE DEF s
  <2>2. proc'[p].stored \in {s, proc[p].stored} /\ proc'[p].taken \in {s, proc[p].taken}
    BY <1>4, GetSnapshotEffect, Zenon DEF s
  <2>3. SnapOK(log, proc'[p].stored) /\ SnapOK(log, proc'[p].taken)
    BY <1>2, <2>1, <2>2, Zenon
  <2> QED BY <1>1, <1>4, <2>3, GetSnapshotEffect, SameStateOK, Zenon
<1>5. CASE ReceiveSnapshot(p)
  <2>1. \A q \in Procs : SnapOK(log, proc[q].stored)
    BY Known, Zenon DEF ProcOK
  <2>2. SnapOK(log, proc'[p].stored) /\ SnapOK(log, proc'[p].taken)
    BY <1>2, <1>5, <2>1, ReceiveSnapshotEffect, Zenon
  <2> QED BY <1>1, <1>5, <2>2, ReceiveSnapshotEffect, SameStateOK, Zenon
<1>6. CASE SavePosition(p)
  BY <1>1, <1>2, <1>6, SavePositionEffect, SameStateOK, Zenon DEF DiskOK
<1>7. CASE SaveFile(p)
  BY <1>1, <1>2, <1>7, SaveFileEffect, SameStateOK, Zenon DEF DiskOK
<1>8. CASE ReceiveFile(p)
  <2>1. ProcOK(log, proc'[p])
    BY <1>1, <1>2, <1>8, ReceiveFileEffect, Zenon DEF ProcOK
  <2> QED BY <1>1, <1>2, <1>8, <2>1, ReceiveFileEffect, Zenon DEF DiskOK
<1>9. CASE Crash(p)
  BY <1>1, <1>9, CrashEffect, DownType, Known, Zenon
<1>10. CASE Redo(p)
  BY <1>1, <1>2, <1>10, RedoEffect, SameStateOK, Zenon
<1>11. CASE Recover(p)
  <2>1. ProcOK(log, Started(disk[p].id, RestoreSnapshot(New, disk[p].snap), disk[p].snap))
    BY <1>1, <1>2, RestoreType, StartedType, Known, Zenon
  <2>2. ProcOK(log, [proc[p] EXCEPT !.up = "unrecoverable"])
    BY <1>1, Zenon DEF ProcOK, Proc
  <2>3. ProcOK(log, proc'[p])
    BY <1>11, <2>1, <2>2, RecoverEffect, Zenon
  <2> QED BY <1>1, <1>2, <1>11, <2>3, RecoverEffect, Zenon DEF DiskOK, SameFiles
<1> QED BY <1>3, <1>4, <1>5, <1>6, <1>7, <1>8, <1>9, <1>10, <1>11, Zenon DEF ProcStep
=============================================================================
