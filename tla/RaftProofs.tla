----------------------------- MODULE RaftProofs -----------------------------
(***************************************************************************)
(* The calls of the raft service, and what the service promises, for every *)
(* value of the constants.  The invariant is that of PinRaftProofs, which  *)
(* shows what the steps of the processes keep.                             *)
(***************************************************************************)
EXTENDS PinRaftProofs

-----------------------------------------------------------------------------
(* The steps of calls: what they do to the call.                           *)

OneCall(c) == call' = [call EXCEPT ![c] = call'[c]] /\ call'[c] \in Call
SameCall(c) ==
  /\ call'[c].at = call[c].at /\ call'[c].try = call[c].try /\ call'[c].instr = call[c].instr
  /\ call'[c].snap = call[c].snap
SameRead(c) ==
  call'[c].floor = call[c].floor /\ call'[c].index = call[c].index /\ call'[c].missed = call[c].missed

\* What the steps of calls leave alone in the processes.
SameMembers ==
  /\ proc' \in [Procs -> Proc]
  /\ \A p \in Procs :
       /\ proc'[p].up = proc[p].up /\ proc'[p].pc = proc[p].pc /\ proc'[p].taken = proc[p].taken
       /\ SameState(p)

LEMMA PutIs ==
  ASSUME DataInv, NEW c \in Callers, NEW x, Put(c, x), x \in Call
  PROVE  OneCall(c) /\ call'[c] = x
BY Known, Zenon DEF Put, OneCall

LEMMA SameMembersNow == ASSUME DataInv, UNCHANGED proc PROVE SameMembers
BY Known, Zenon DEF SameMembers, SameState

LEMMA WritersKept ==
  ASSUME DataInv, NEW p \in Procs, NEW w \in SUBSET (Callers \X Nat), proc' = [proc EXCEPT ![p].writers = w]
  PROVE  SameMembers /\ \A q \in Procs : proc'[q].stored = proc[q].stored
<1>1. ASSUME NEW x \in Proc
      PROVE  /\ [x EXCEPT !.writers = w] \in Proc
             /\ \A f \in {"up", "pc", "taken", "st", "next", "missed", "stored"} : [x EXCEPT !.writers = w][f] = x[f]
  BY Zenon DEF Proc
<1>2. ASSUME NEW q \in Procs
      PROVE  proc'[q] \in Proc /\ proc'[q].up = proc[q].up /\ proc'[q].pc = proc[q].pc /\ proc'[q].taken = proc[q].taken
             /\ SameState(q) /\ proc'[q].stored = proc[q].stored
  <2>1. proc[q] \in Proc /\ (proc'[q] = proc[q] \/ proc'[q] = [proc[q] EXCEPT !.writers = w])
    BY Known, Zenon
  <2> QED BY <1>1, <2>1, Zenon DEF SameState
<1>3. proc' \in [Procs -> Proc]
  BY <1>2, Known, Zenon
<1> QED BY <1>2, <1>3, Zenon DEF SameMembers

\* The phases in which a call is at a process.
LEMMA AtProc ==
  ASSUME DataInv, NEW c \in Callers, call[c].phase \in AtMember
  PROVE  call[c].at \in Procs
BY Known, Zenon DEF CallOK

LEMMA InstructionType ==
  ASSUME NEW c \in Calls PROVE Instruction(c) \in Instrs /\ Instruction(c).key = Script[c].key
<1>1. Script[c].key \in Keys /\ Script[c].key \in AllKeys /\ Script[c].key # nextNodeID
  BY Disjoint, Zenon DEF AllKeys
<1>2. c \in Value /\ None \in Value
  BY Zenon DEF Value
<1> QED BY <1>1, <1>2 DEF Instruction, Set, Insert, Delete, Instr, Instrs, NoCond, NotKeyExists

LEMMA ExecEffect ==
  ASSUME DataInv, NEW c \in Calls, Exec(c)
  PROVE  /\ OneCall(c) /\ UNCHANGED <<log, proposed, proc, disk, acked>>
         /\ call[c].phase = "idle" /\ ~IsGet(c)
         /\ call'[c].phase = "exec" /\ call'[c].at \in Procs /\ call'[c].instr = Instruction(c)
         /\ call'[c].snap = call[c].snap /\ call'[c].try = call[c].try /\ call'[c].result = call[c].result
<1> DEFINE i == Instruction(c)
           p == Script[c].at
<1>1. /\ call[c].phase = "idle" /\ Script[c].op # "get"
      /\ Put(c, [call[c] EXCEPT !.phase = "exec", !.at = p, !.instr = i])
      /\ UNCHANGED <<log, proposed, proc, disk, acked>>
  BY Zenon DEF Exec
<1>2. c \in Callers /\ call[c] \in Call /\ i \in Instrs /\ p \in Procs
  BY Known, InstructionType, Disjoint, Zenon DEF Callers
<1> HIDE DEF i, p
<1> DEFINE x == [call[c] EXCEPT !.phase = "exec", !.at = p, !.instr = i]
<1>3. /\ x \in Call /\ x.phase = "exec" /\ x.at = p /\ x.instr = i
      /\ x.snap = call[c].snap /\ x.try = call[c].try /\ x.result = call[c].result
  BY <1>2, Zenon DEF Call, AtMember
<1> HIDE DEF x
<1>4. OneCall(c) /\ call'[c] = x
  BY <1>1, <1>2, <1>3, PutIs, Zenon DEF x
<1> QED BY <1>1, <1>2, <1>3, <1>4, Zenon DEF IsGet, i

LEMMA RegisterEffect ==
  ASSUME DataInv, NEW c \in Callers, Register(c)
  PROVE  /\ OneCall(c) /\ SameCall(c) /\ UNCHANGED <<log, proposed, disk, acked>>
         /\ SameMembers /\ \A q \in Procs : proc'[q].stored = proc[q].stored
         /\ call[c].phase = "exec" /\ call'[c].phase = "propose" /\ call'[c].result = call[c].result
         /\ call'[c].missed = call[c].missed
<1> DEFINE p == call[c].at
           w == proc[p].writers \cup {Wctx(c)}
           x == [call[c] EXCEPT !.phase = "propose"]
<1>1. /\ call[c].phase = "exec" /\ proc' = [proc EXCEPT ![p].writers = w] /\ Put(c, x)
      /\ UNCHANGED <<log, proposed, disk, acked>>
  BY Zenon DEF Register
<1>2. call[c] \in Call /\ p \in Procs
  BY <1>1, Known, AtProc, Zenon DEF AtMember
<1>3. w \in SUBSET (Callers \X Nat)
  BY <1>2, Known DEF Proc, Wctx, Call
<1>4. /\ x \in Call /\ x.phase = "propose" /\ x.at = call[c].at /\ x.try = call[c].try /\ x.instr = call[c].instr
      /\ x.snap = call[c].snap /\ x.result = call[c].result /\ x.missed = call[c].missed
  BY <1>2, Zenon DEF Call, AtMember
<1> HIDE DEF x, w, p
<1>5. OneCall(c) /\ call'[c] = x
  BY <1>1, <1>4, PutIs, Zenon
<1>6. SameMembers /\ \A q \in Procs : proc'[q].stored = proc[q].stored
  BY <1>1, <1>2, <1>3, WritersKept, Zenon
<1> QED BY <1>1, <1>4, <1>5, <1>6, Zenon DEF SameCall

LEMMA ProposeEffect ==
  ASSUME DataInv, NEW c \in Callers, Propose(c)
  PROVE  /\ OneCall(c) /\ SameCall(c) /\ UNCHANGED <<log, proc, disk, acked>>
         /\ call[c].phase = "propose" /\ call'[c].phase = "waiting" /\ call'[c].result = call[c].result
         /\ call'[c].missed = call[c].missed
         /\ proposed' = proposed \cup {Normal(Wctx(c), call[c].instr)} /\ proposed' \subseteq Entry
<1> DEFINE x == [call[c] EXCEPT !.phase = "waiting"]
<1>1. /\ call[c].phase = "propose" /\ Put(c, x) /\ UNCHANGED <<log, proc, disk, acked>>
      /\ proposed' = proposed \cup {Normal(Wctx(c), call[c].instr)}
  BY Zenon DEF Propose
<1>2. call[c] \in Call /\ call[c].instr \in Instrs
  BY <1>1, Known, Zenon DEF CallOK
<1>3. Normal(Wctx(c), call[c].instr) \in Entry
  <2>1. Wctx(c) \in Callers \X Nat
    BY <1>2, Zenon DEF Wctx, Call
  <2> QED BY <1>2, <2>1, Zenon DEF Normal, Entry
<1>4. /\ x \in Call /\ x.phase = "waiting" /\ x.at = call[c].at /\ x.try = call[c].try /\ x.instr = call[c].instr
      /\ x.snap = call[c].snap /\ x.result = call[c].result /\ x.missed = call[c].missed
  BY <1>2, Zenon DEF Call, AtMember
<1> HIDE DEF x
<1>5. OneCall(c) /\ call'[c] = x
  BY <1>1, <1>4, PutIs, Zenon
<1> QED BY <1>1, <1>3, <1>4, <1>5, Known, Zenon DEF SameCall

LEMMA FinishIs ==
  ASSUME DataInv, NEW c \in Callers, NEW r \in {"failed", "timeout", "refused"}, Finish(c, r)
  PROVE  OneCall(c) /\ SameCall(c) /\ call'[c].phase = "done" /\ call'[c].result = r
<1> DEFINE x == [call[c] EXCEPT !.phase = "done", !.result = r]
<1>1. Put(c, x)
  BY Zenon DEF Finish
<1>2. call[c] \in Call
  BY Known, Zenon
<1>3. /\ x \in Call /\ x.phase = "done" /\ x.result = r
      /\ x.at = call[c].at /\ x.try = call[c].try /\ x.instr = call[c].instr /\ x.snap = call[c].snap
  BY <1>2, Zenon DEF Call
<1> HIDE DEF x
<1>4. OneCall(c) /\ call'[c] = x
  BY <1>1, <1>3, PutIs, Zenon
<1> QED BY <1>3, <1>4, Zenon DEF SameCall

LEMMA ProposeFailsEffect ==
  ASSUME DataInv, NEW c \in Callers, ProposeFails(c)
  PROVE  /\ OneCall(c) /\ SameCall(c) /\ UNCHANGED <<log, proposed, disk, acked>>
         /\ SameMembers /\ \A q \in Procs : proc'[q].stored = proc[q].stored
         /\ call[c].phase = "propose" /\ call'[c].phase = "done" /\ call'[c].result = "failed"
<1> DEFINE p == call[c].at
           w == proc[p].writers \ {Wctx(c)}
<1>1. /\ call[c].phase = "propose" /\ proc' = [proc EXCEPT ![p].writers = w] /\ Finish(c, "failed")
      /\ UNCHANGED <<log, proposed, disk, acked>>
  BY Zenon DEF ProposeFails
<1>2. p \in Procs
  BY <1>1, AtProc, Zenon DEF AtMember
<1>3. w \in SUBSET (Callers \X Nat)
  BY <1>2, Known, Zenon DEF Proc
<1> HIDE DEF w, p
<1>4. SameMembers /\ \A q \in Procs : proc'[q].stored = proc[q].stored
  BY <1>1, <1>2, <1>3, WritersKept, Zenon
<1> QED BY <1>1, <1>4, FinishIs, Zenon

LEMMA ReturnEffect ==
  ASSUME DataInv, NEW c \in Calls, Return(c)
  PROVE  /\ OneCall(c) /\ SameCall(c) /\ UNCHANGED <<log, proposed, proc, disk, acked>>
         /\ call[c].phase = "told" /\ call'[c].phase = "done" /\ call'[c].result = call[c].result
         /\ call'[c].missed = call[c].missed
<1> DEFINE x == [call[c] EXCEPT !.phase = "done"]
<1>1. call[c].phase = "told" /\ Put(c, x) /\ UNCHANGED <<log, proposed, proc, disk, acked>>
  BY Zenon DEF Return
<1>2. c \in Callers /\ call[c] \in Call
  BY Known, Zenon DEF Callers
<1>3. /\ x \in Call /\ x.phase = "done" /\ x.at = call[c].at /\ x.try = call[c].try /\ x.instr = call[c].instr
      /\ x.snap = call[c].snap /\ x.result = call[c].result /\ x.missed = call[c].missed
  BY <1>2, Zenon DEF Call
<1> HIDE DEF x
<1>4. OneCall(c) /\ call'[c] = x
  BY <1>1, <1>2, <1>3, PutIs, Zenon
<1> QED BY <1>1, <1>3, <1>4, Zenon DEF SameCall

LEMMA GetEffect ==
  ASSUME DataInv, NEW c \in Calls, Get(c)
  PROVE  /\ OneCall(c) /\ UNCHANGED <<log, proposed, proc, disk, acked>>
         /\ call[c].phase = "idle" /\ IsGet(c)
         /\ call'[c].phase = "reading" /\ call'[c].at \in Procs /\ Up(call'[c].at) /\ call'[c].floor = acked
         /\ call'[c].snap = call[c].snap
<1> DEFINE p == Script[c].at
           x == [call[c] EXCEPT !.phase = "reading", !.at = p, !.floor = acked]
<1>1. /\ call[c].phase = "idle" /\ Script[c].op = "get" /\ Up(p) /\ Put(c, x)
      /\ UNCHANGED <<log, proposed, proc, disk, acked>>
  BY Zenon DEF Get
<1>2. c \in Callers /\ call[c] \in Call /\ p \in Procs /\ acked \in Nat
  BY Known, Disjoint DEF Callers
<1> HIDE DEF p
<1>3. x \in Call /\ x.phase = "reading" /\ x.at = p /\ x.floor = acked /\ x.snap = call[c].snap
  BY <1>2, Zenon DEF Call, AtMember
<1> HIDE DEF x
<1>4. OneCall(c) /\ call'[c] = x
  BY <1>1, <1>2, <1>3, PutIs, Zenon
<1> QED BY <1>1, <1>2, <1>3, <1>4, Zenon DEF IsGet

LEMMA ReplyReadIndexEffect ==
  ASSUME DataInv, NEW c \in Calls, ReplyReadIndex(c)
  PROVE  /\ OneCall(c) /\ SameCall(c) /\ UNCHANGED <<log, proposed, proc, disk, acked>>
         /\ call[c].phase = "reading" /\ call'[c].phase = "awake"
         /\ call'[c].floor = call[c].floor /\ call'[c].index = Len(log)
<1> DEFINE x == [call[c] EXCEPT !.phase = "awake", !.index = Len(log)]
<1>1. call[c].phase = "reading" /\ Put(c, x) /\ UNCHANGED <<log, proposed, proc, disk, acked>>
  BY Zenon DEF ReplyReadIndex
<1>2. c \in Callers /\ call[c] \in Call /\ Len(log) \in Nat
  BY Known, Zenon DEF Callers
<1>3. /\ x \in Call /\ x.phase = "awake" /\ x.at = call[c].at /\ x.try = call[c].try /\ x.instr = call[c].instr
      /\ x.snap = call[c].snap /\ x.floor = call[c].floor /\ x.index = Len(log)
  BY <1>2, Zenon DEF Call, AtMember
<1> HIDE DEF x
<1>4. OneCall(c) /\ call'[c] = x
  BY <1>1, <1>2, <1>3, PutIs, Zenon
<1> QED BY <1>1, <1>3, <1>4, Zenon DEF SameCall

LEMMA DummyWriteEffect ==
  ASSUME DataInv, NEW c \in Calls, DummyWrite(c)
  PROVE  /\ OneCall(c) /\ SameCall(c) /\ SameRead(c) /\ UNCHANGED <<log, proc, disk, acked>>
         /\ call[c].phase \in {"reading", "awake", "asleep"} /\ call'[c].phase = call[c].phase
         /\ call'[c].result = call[c].result
         /\ proposed' = proposed \cup {Dummy(c)} /\ proposed' \subseteq Entry /\ Dummy(c).type = "dummy"
<1>1. /\ call[c].phase \in {"reading", "awake", "asleep"} /\ UNCHANGED <<log, proc, disk, acked>>
      /\ Put(c, [call[c] EXCEPT !.dummy = TRUE]) /\ proposed' = proposed \cup {Dummy(c)}
  BY Zenon DEF DummyWrite
<1>2. c \in Callers /\ call[c] \in Call
  BY Known, Zenon DEF Callers
<1>3. Dummy(c) \in Entry /\ Dummy(c).type = "dummy"
  BY <1>2, Zenon DEF Dummy, Entry
<1>4. ASSUME NEW b \in BOOLEAN, NEW x, x = [call[c] EXCEPT !.dummy = b]
      PROVE  /\ x \in Call /\ x.phase = call[c].phase /\ x.at = call[c].at /\ x.try = call[c].try
             /\ x.instr = call[c].instr /\ x.snap = call[c].snap /\ x.floor = call[c].floor
             /\ x.index = call[c].index /\ x.missed = call[c].missed /\ x.result = call[c].result
  BY <1>2, <1>4, Zenon DEF Call
<1>5. TRUE \in BOOLEAN
  BY Zenon
<1> DEFINE x == [call[c] EXCEPT !.dummy = TRUE]
<1>6. /\ x \in Call /\ x.phase = call[c].phase /\ x.at = call[c].at /\ x.try = call[c].try
      /\ x.instr = call[c].instr /\ x.snap = call[c].snap /\ x.floor = call[c].floor
      /\ x.index = call[c].index /\ x.missed = call[c].missed /\ x.result = call[c].result
  BY <1>4, <1>5, Zenon
<1>7. Put(c, x)
  BY <1>1, Zenon
<1> HIDE DEF x
<1>8. OneCall(c) /\ call'[c] = x
  BY <1>2, <1>6, <1>7, PutIs, Zenon
<1> QED BY <1>1, <1>3, <1>6, <1>8, Known, Zenon DEF SameCall, SameRead

LEMMA waitEffect ==
  ASSUME DataInv, NEW c \in Calls, wait(c)
  PROVE  /\ OneCall(c) /\ SameCall(c) /\ SameRead(c) /\ UNCHANGED <<log, proposed, proc, disk, acked>>
         /\ call[c].phase = "awake" /\ call'[c].result = call[c].result
         /\ call'[c].phase = IF proc[call[c].at].st.applied < call[c].index THEN "asleep" ELSE "read"
<1> DEFINE f == IF proc[call[c].at].st.applied < call[c].index THEN "asleep" ELSE "read"
           x == [call[c] EXCEPT !.phase = f]
<1>1. call[c].phase = "awake" /\ Put(c, x) /\ UNCHANGED <<log, proposed, proc, disk, acked>>
  BY Zenon DEF wait
<1>2. c \in Callers /\ call[c] \in Call /\ f \in {"asleep", "read"}
  BY Known, Zenon DEF Callers
<1> HIDE DEF f
<1>3. /\ x \in Call /\ x.phase = f /\ x.at = call[c].at /\ x.try = call[c].try /\ x.instr = call[c].instr
      /\ x.snap = call[c].snap /\ x.floor = call[c].floor /\ x.index = call[c].index
      /\ x.missed = call[c].missed /\ x.result = call[c].result
  BY <1>2, Zenon DEF Call, AtMember
<1> HIDE DEF x
<1>4. OneCall(c) /\ call'[c] = x
  BY <1>1, <1>2, <1>3, PutIs, Zenon
<1> QED BY <1>1, <1>3, <1>4, Zenon DEF SameCall, SameRead, f

LEMMA StaleGetEffect ==
  ASSUME DataInv, NEW c \in Calls, StaleGet(c), NEW p, p = call[c].at
  PROVE  /\ OneCall(c) /\ SameCall(c) /\ UNCHANGED <<log, proposed, proc, disk, acked>>
         /\ call[c].phase = "read" /\ call'[c].phase = "done" /\ p \in Procs
         /\ call'[c].floor = call[c].floor /\ call'[c].index = proc[p].st.applied
         /\ call'[c].missed = proc[p].missed /\ call'[c].result = proc[p].st.kv[Script[c].key]
<1> DEFINE s == proc[p].st
           v == s.kv[Script[c].key]
           m == proc[p].missed
           i == s.applied
           x == [call[c] EXCEPT !.phase = "done", !.index = i, !.result = v, !.missed = m]
<1>1. call[c].phase = "read" /\ Put(c, x) /\ UNCHANGED <<log, proposed, proc, disk, acked>>
  BY Zenon DEF StaleGet
<1>2. c \in Callers /\ call[c] \in Call /\ p \in Procs /\ proc[p] \in Proc
  BY <1>1, Known, AtProc, Zenon DEF Callers, AtMember
<1>3. s \in State /\ m \in BOOLEAN
  BY <1>2, Zenon DEF Proc
<1>4. i \in Nat /\ v \in Value
  BY <1>3, Disjoint, Zenon DEF State, KV, AllKeys
<1> HIDE DEF i, v, m, s
<1>5. /\ x \in Call /\ x.phase = "done" /\ x.at = call[c].at /\ x.try = call[c].try /\ x.instr = call[c].instr
      /\ x.snap = call[c].snap /\ x.floor = call[c].floor /\ x.index = i /\ x.missed = m /\ x.result = v
  BY <1>2, <1>3, <1>4, Zenon DEF Call
<1> HIDE DEF x
<1>6. OneCall(c) /\ call'[c] = x
  BY <1>1, <1>2, <1>5, PutIs, Zenon
<1> QED BY <1>1, <1>2, <1>5, <1>6, Zenon DEF SameCall, i, v, m, s

\* A process asks for an ID.
LEMMA AllocIs ==
  ASSUME DataInv, NEW j \in Joiners, NEW p \in Procs, Put(j, Alloc(j, p))
  PROVE  /\ OneCall(j) /\ call'[j].phase = "exec" /\ call'[j].at = p /\ call'[j].instr \in Instrs
         /\ call'[j].snap = call[j].snap
<1> DEFINE s == proc[p].st
           n == s.kv[nextNodeID]
           i == IncrementNextNodeID(n, s.version[nextNodeID])
           t == call[j].try + 1
           x == [call[j] EXCEPT !.phase = "exec", !.at = p, !.try = t, !.id = n, !.instr = i]
<1>1. Put(j, x)
  BY Zenon DEF Alloc
<1>2. j \in Callers /\ call[j] \in Call /\ t \in Nat /\ s \in State
  BY Known DEF Callers, Call, Proc
<1>3. n \in Nat /\ s.version[nextNodeID] \in Nat
  BY <1>2, Disjoint, Zenon DEF State, KV
<1>4. i \in Instrs
  BY <1>3, Disjoint DEF IncrementNextNodeID, Instr, Instrs, Value
<1> HIDE DEF n, i, t
<1>5. x \in Call /\ x.phase = "exec" /\ x.at = p /\ x.instr = i /\ x.snap = call[j].snap
  BY <1>2, <1>3, <1>4, Zenon DEF Call, AtMember
<1> HIDE DEF x
<1>6. OneCall(j) /\ call'[j] = x
  BY <1>1, <1>2, <1>5, PutIs, Zenon
<1> QED BY <1>4, <1>5, <1>6, Zenon

LEMMA ServeJoinEffect ==
  ASSUME DataInv, NEW j \in Joiners, ServeJoin(j)
  PROVE  /\ OneCall(j) /\ SameCall(j) /\ UNCHANGED <<log, proc, disk, acked>>
         /\ call[j].phase = "told" /\ call'[j].phase \in {"awake", "done"}
         /\ proposed' \subseteq Entry
         /\ \A e \in proposed' : e \in proposed \/ e.type = "conf"
<1> DEFINE a == AddNode(call[j].id, j)
           x == [call[j] EXCEPT !.phase = "awake"]
<1>1. call[j].phase = "told" /\ UNCHANGED <<log, proc, disk, acked>>
  BY Zenon DEF ServeJoin
<1>2. (proposed' = proposed \cup {a} /\ Put(j, x)) \/ (proposed' = proposed /\ Finish(j, "refused"))
  BY Zenon DEF ServeJoin
<1>3. j \in Callers /\ call[j] \in Call /\ j \in Procs
  BY Known, Zenon DEF Callers, Joiners
<1>4. a \in Entry /\ a.type = "conf"
  BY <1>3, Zenon DEF AddNode, Entry, Call
<1> HIDE DEF a
<1>5. /\ x \in Call /\ x.phase = "awake" /\ x.at = call[j].at /\ x.try = call[j].try /\ x.instr = call[j].instr
      /\ x.snap = call[j].snap
  BY <1>3, Zenon DEF Call, AtMember
<1> HIDE DEF x
<1>6. CASE proposed' = proposed \cup {a} /\ Put(j, x)
  <2>1. OneCall(j) /\ call'[j] = x
    BY <1>3, <1>5, <1>6, PutIs, Zenon
  <2> QED BY <1>1, <1>4, <1>5, <1>6, <2>1, Known, Zenon DEF SameCall
<1>7. CASE proposed' = proposed /\ Finish(j, "refused")
  BY <1>1, <1>3, <1>7, FinishIs, Known, Zenon
<1> QED BY <1>2, <1>6, <1>7, Zenon

LEMMA waitForNodeEffect ==
  ASSUME DataInv, NEW j \in Joiners, waitForNode(j)
  PROVE  /\ OneCall(j) /\ SameCall(j) /\ UNCHANGED <<log, proposed, proc, disk, acked>>
         /\ call[j].phase = "awake" /\ call'[j].phase \in {"snapshot", "asleep"}
<1> DEFINE f == IF \E peer \in proc[call[j].at].st.peers : peer.id = call[j].id THEN "snapshot" ELSE "asleep"
           x == [call[j] EXCEPT !.phase = f]
<1>1. call[j].phase = "awake" /\ Put(j, x) /\ UNCHANGED <<log, proposed, proc, disk, acked>>
  BY Zenon DEF waitForNode
<1>2. j \in Callers /\ call[j] \in Call /\ f \in {"snapshot", "asleep"}
  BY Known, Zenon DEF Callers
<1> HIDE DEF f
<1>3. /\ x \in Call /\ x.phase = f /\ x.at = call[j].at /\ x.try = call[j].try /\ x.instr = call[j].instr
      /\ x.snap = call[j].snap
  BY <1>2, Zenon DEF Call, AtMember
<1> HIDE DEF x
<1>4. OneCall(j) /\ call'[j] = x
  BY <1>1, <1>2, <1>3, PutIs, Zenon
<1> QED BY <1>1, <1>2, <1>3, <1>4, Zenon DEF SameCall

LEMMA JoinSnapshotEffect ==
  ASSUME DataInv, NEW j \in Joiners, JoinSnapshot(j)
  PROVE  /\ OneCall(j) /\ UNCHANGED <<log, proposed, disk, acked>> /\ SameMembers
         /\ \A q \in Procs : SnapOK(log, proc'[q].stored)
         /\ call[j].phase = "snapshot" /\ call'[j].phase \in {"writeID", "done"}
         /\ call'[j].at = call[j].at /\ SnapOK(log, call'[j].snap)
<1> DEFINE p == call[j].at
           s == Snapshot(proc[p].st, ~proc[p].missed)
           x == [call[j] EXCEPT !.phase = "writeID", !.snap = s]
<1>1. call[j].phase = "snapshot" /\ UNCHANGED <<log, proposed, disk, acked>>
  BY Zenon DEF JoinSnapshot
<1>2. \/ proc' = [proc EXCEPT ![p].stored = s] /\ Put(j, x)
      \/ UNCHANGED proc /\ Finish(j, "failed")
  BY Zenon DEF JoinSnapshot
<1>3. /\ j \in Callers /\ call[j] \in Call /\ CallOK(log, call[j]) /\ p \in Procs
      /\ proc[p] \in Proc /\ ProcOK(log, proc[p])
  BY <1>1, Known, AtProc, Zenon DEF Callers, AtMember
<1>4. \A q \in Procs : SnapOK(log, proc[q].stored)
  BY Known, Zenon DEF ProcOK
<1>5. s \in Snap /\ SnapOK(log, s)
  BY <1>3, SnapshotOK, Zenon
<1> HIDE DEF s, p
<1>6. CASE proc' = [proc EXCEPT ![p].stored = s] /\ Put(j, x)
  <2>1. x \in Call /\ x.phase = "writeID" /\ x.at = call[j].at /\ x.snap = s
    BY <1>3, <1>5, Zenon DEF Call, AtMember
  <2> HIDE DEF x
  <2>2. OneCall(j) /\ call'[j] = x
    BY <1>3, <1>6, <2>1, PutIs, Zenon
  <2>3. ASSUME NEW y \in Proc
        PROVE  /\ [y EXCEPT !.stored = s] \in Proc /\ [y EXCEPT !.stored = s].stored = s
               /\ \A f \in {"up", "pc", "taken", "st", "next", "missed"} : [y EXCEPT !.stored = s][f] = y[f]
    BY <1>5, Zenon DEF Proc
  <2>4. ASSUME NEW q \in Procs
        PROVE  proc'[q] \in Proc /\ proc'[q].up = proc[q].up /\ proc'[q].pc = proc[q].pc /\ proc'[q].taken = proc[q].taken
               /\ SameState(q) /\ SnapOK(log, proc'[q].stored)
    <3>1. proc[q] \in Proc /\ (proc'[q] = proc[q] \/ proc'[q] = [proc[q] EXCEPT !.stored = s])
      BY <1>3, <1>6, Known, Zenon
    <3> QED BY <1>4, <1>5, <2>3, <3>1, Zenon DEF SameState
  <2>5. proc' \in [Procs -> Proc]
    BY <1>6, <2>4, Known, Zenon
  <2> QED BY <1>1, <1>5, <2>1, <2>2, <2>4, <2>5, Zenon DEF SameMembers
<1>7. CASE UNCHANGED proc /\ Finish(j, "failed")
  <2>1. OneCall(j) /\ SameCall(j) /\ call'[j].phase = "done"
    BY <1>3, <1>7, FinishIs, Zenon
  <2> QED BY <1>1, <1>3, <1>4, <1>7, <2>1, SameMembersNow, Zenon DEF SameCall, CallOK
<1> QED BY <1>2, <1>6, <1>7, Zenon

\* The files of a process that joins.
JoinFiles(j) == JoinWriteID(j) \/ JoinCreateWal(j) \/ JoinPosition(j) \/ JoinFile(j) \/ JoinRestore(j)

LEMMA JoinStepIs ==
  ASSUME DataInv, NEW j \in Joiners, NEW from, NEW to \in {"createWal", "done"} \cup Writing, NEW d \in Disk,
         JoinStep(j, from, to, d)
  PROVE  /\ OneCall(j) /\ call[j].phase = from /\ call'[j].phase = to /\ call'[j].snap = call[j].snap
         /\ disk' = [disk EXCEPT ![j] = disk'[j]] /\ disk'[j] = d /\ UNCHANGED <<log, proposed, acked>>
<1> DEFINE x == [call[j] EXCEPT !.phase = to, !.at = None]
<1>1. call[j].phase = from /\ disk' = [disk EXCEPT ![j] = d] /\ Put(j, x) /\ UNCHANGED <<log, proposed, acked>>
  BY Zenon DEF JoinStep
<1>2. j \in Callers /\ j \in Procs /\ call[j] \in Call
  BY Known, Zenon DEF Callers, Joiners
<1>3. x \in Call /\ x.phase = to /\ x.snap = call[j].snap
  BY <1>2, Zenon DEF Call, Writing
<1> HIDE DEF x
<1>4. OneCall(j) /\ call'[j] = x
  BY <1>1, <1>2, <1>3, PutIs, Zenon
<1> QED BY <1>1, <1>2, <1>3, <1>4, Known, Zenon

LEMMA JoinFilesEffect ==
  ASSUME DataInv, NEW j \in Joiners, JoinFiles(j), NEW s, s = call[j].snap
  PROVE  /\ OneCall(j) /\ OneProc(j) /\ call'[j].snap = s
         /\ disk'[j].snap \in {disk[j].snap, s} /\ disk'[j].wal.saved \in {disk[j].wal.saved, 0, s.index}
         /\ \/ /\ call[j].phase = "writeID" /\ call'[j].phase = "createWal" /\ UNCHANGED proc /\ SameFiles(j)
            \/ /\ call[j].phase = "createWal" /\ call'[j].phase = "position" /\ UNCHANGED proc
               /\ disk'[j].snap = disk[j].snap /\ disk'[j].wal = NewWal
            \/ /\ call[j].phase = "position" /\ call'[j].phase = "file" /\ UNCHANGED proc
               /\ disk'[j].snap = disk[j].snap /\ disk'[j].wal.exists = disk[j].wal.exists
               /\ disk'[j].wal.snaps = disk[j].wal.snaps \cup {s.index}
            \/ /\ call[j].phase = "file" /\ call'[j].phase = "restore" /\ UNCHANGED proc
               /\ disk'[j].snap = s /\ disk'[j].wal = disk[j].wal
            \/ /\ call[j].phase = "restore" /\ call'[j].phase = "done" /\ SameFiles(j)
               /\ proc'[j] = Started(call[j].id, RestoreSnapshot(New, s), s)
<1> DEFINE d == disk[j]
           w == d.wal
<1>1. /\ j \in Callers /\ j \in Procs /\ call[j] \in Call /\ d \in Disk /\ proc[j] \in Proc
      /\ CallOK(log, call[j])
  BY Known, Zenon DEF Callers, Joiners
<1>2. s \in Snap /\ s.index \in Nat /\ call[j].id \in Nat /\ w \in Wal
  BY <1>1, Zenon DEF Call, Snap, Disk
<1>3. UNCHANGED proc => proc' = [proc EXCEPT ![j] = proc'[j]] /\ proc'[j] \in Proc
  BY <1>1, Known, Zenon
<1> HIDE DEF d
<1>4. CASE JoinWriteID(j)
  <2> DEFINE y == [d EXCEPT !.id = call[j].id]
  <2>1. JoinStep(j, "writeID", "createWal", y) /\ UNCHANGED proc
    BY <1>4, Zenon DEF JoinWriteID, d
  <2>2. y \in Disk /\ y.snap = d.snap /\ y.wal = d.wal
    BY <1>1, <1>2, Zenon DEF Disk
  <2> HIDE DEF y
  <2> QED BY <1>3, <2>1, <2>2, JoinStepIs DEF OneProc, SameFiles, d
<1>5. CASE JoinCreateWal(j)
  <2> DEFINE y == [d EXCEPT !.wal = NewWal]
  <2>1. JoinStep(j, "createWal", "position", y) /\ UNCHANGED proc
    BY <1>5, Zenon DEF JoinCreateWal, d
  <2>2. y \in Disk /\ y.snap = d.snap /\ y.wal = NewWal
    BY <1>1, WalType, Zenon DEF Disk
  <2>3. NewWal.saved = 0
    BY Zenon DEF NewWal
  <2> HIDE DEF y
  <2>4. /\ OneCall(j) /\ call[j].phase = "createWal" /\ call'[j].phase = "position" /\ call'[j].snap = call[j].snap
        /\ disk' = [disk EXCEPT ![j] = disk'[j]] /\ disk'[j] = y /\ UNCHANGED <<log, proposed, acked>>
    BY <2>1, <2>2, JoinStepIs, Zenon DEF Writing
  <2> QED BY <1>3, <2>1, <2>2, <2>3, <2>4, Zenon DEF OneProc, d
<1>6. CASE JoinPosition(j)
  <2> DEFINE v == [w EXCEPT !.snaps = w.snaps \cup {s.index}]
             y == [d EXCEPT !.wal = v]
  <2>1. v \in Wal /\ v.exists = w.exists /\ v.saved = w.saved /\ v.snaps = w.snaps \cup {s.index}
    BY <1>2, Zenon DEF Wal
  <2>2. [d EXCEPT !.wal.snaps = @ \cup {s.index}] = y
    BY <1>1, Zenon DEF Disk
  <2> HIDE DEF v
  <2>3. JoinStep(j, "position", "file", y) /\ UNCHANGED proc
    BY <1>6, <2>2, Zenon DEF JoinPosition, d
  <2>4. y \in Disk /\ y.snap = d.snap /\ y.wal = v
    BY <1>1, <2>1, Zenon DEF Disk
  <2> HIDE DEF y
  <2>5. /\ OneCall(j) /\ call[j].phase = "position" /\ call'[j].phase = "file" /\ call'[j].snap = call[j].snap
        /\ disk' = [disk EXCEPT ![j] = disk'[j]] /\ disk'[j] = y /\ UNCHANGED <<log, proposed, acked>>
    BY <2>3, <2>4, JoinStepIs, Zenon DEF Writing
  <2> QED BY <1>3, <2>1, <2>3, <2>4, <2>5, Zenon DEF OneProc, d
<1>7. CASE JoinFile(j)
  <2> DEFINE y == [d EXCEPT !.snap = s]
  <2>1. JoinStep(j, "file", "restore", y) /\ UNCHANGED proc
    BY <1>7, Zenon DEF JoinFile, d
  <2>2. y \in Disk /\ y.snap = s /\ y.wal = d.wal
    BY <1>1, <1>2, Zenon DEF Disk
  <2> HIDE DEF y
  <2>3. /\ OneCall(j) /\ call[j].phase = "file" /\ call'[j].phase = "restore" /\ call'[j].snap = call[j].snap
        /\ disk' = [disk EXCEPT ![j] = disk'[j]] /\ disk'[j] = y /\ UNCHANGED <<log, proposed, acked>>
    BY <2>1, <2>2, JoinStepIs, Zenon DEF Writing
  <2> QED BY <1>3, <2>1, <2>2, <2>3, Zenon DEF OneProc, d
<1>8. CASE JoinRestore(j)
  <2> DEFINE v == [w EXCEPT !.saved = s.index]
             y == [d EXCEPT !.wal = v]
             x == Started(call[j].id, RestoreSnapshot(New, s), s)
  <2>1. v \in Wal /\ v.exists = w.exists /\ v.saved = s.index /\ v.snaps = w.snaps
    BY <1>2, Zenon DEF Wal
  <2>2. [d EXCEPT !.wal.saved = s.index] = y
    BY <1>1, Zenon DEF Disk
  <2> HIDE DEF v
  <2>3. JoinStep(j, "restore", "done", y) /\ proc' = [proc EXCEPT ![j] = x]
    BY <1>8, <2>2, Zenon DEF JoinRestore, d
  <2>4. y \in Disk /\ y.snap = d.snap /\ y.wal = v
    BY <1>1, <2>1, Zenon DEF Disk
  <2>5. x \in Proc
    BY <1>1, <1>2, RestoreType, StartedType, Known, Zenon DEF CallOK
  <2> HIDE DEF x, y
  <2>6. proc' = [proc EXCEPT ![j] = proc'[j]] /\ proc'[j] \in Proc /\ proc'[j] = x
    BY <1>1, <2>3, <2>5, Known, Zenon
  <2> QED BY <2>1, <2>3, <2>4, <2>6, JoinStepIs DEF OneProc, SameFiles, d, x
<1> QED BY <1>4, <1>5, <1>6, <1>7, <1>8, Zenon DEF JoinFiles

\* The steps of calls at a member keep DataInv.
ClientStep(c) ==
  Exec(c) \/ Return(c) \/ Get(c) \/ ReplyReadIndex(c) \/ DummyWrite(c) \/ wait(c) \/ StaleGet(c)
WriteStep(c) == Register(c) \/ Propose(c) \/ ProposeFails(c) \/ ExecTimeout(c)
AskStep(j) ==
  AllocAgain(j) \/ ServeJoin(j) \/ waitForNode(j) \/ JoinSnapshot(j) \/ \E p \in Procs : Join(j, p)
CallStep(c) == (c \in Calls /\ ClientStep(c)) \/ WriteStep(c) \/ (c \in Joiners /\ AskStep(c))

\* A process asks to join when it has no log on disk.
Logless(j) == proc[j].up = "down" /\ ~disk[j].wal.exists

LEMMA CallStepEffect ==
  ASSUME DataInv, NEW c \in Callers, CallStep(c)
  PROVE  /\ OneCall(c) /\ SameMembers /\ UNCHANGED <<log, disk, acked>> /\ proposed' \subseteq Entry
         /\ \A q \in Procs : SnapOK(log, proc'[q].stored)
         /\ SnapOK(log, call'[c].snap) /\ call'[c].phase \in AtMember \cup {"done"}
         /\ call'[c].phase \in AtMember => call'[c].at \in Procs
         /\ call'[c].phase \in {"exec", "propose"} => call'[c].instr \in Instrs
         /\ c \in Joiners => call[c].phase \in AtMember \/ Logless(c)
<1> USE DEF AtMember
<1>1. /\ proposed \subseteq Entry /\ CallOK(log, call[c])
      /\ UNCHANGED proc => SameMembers
      /\ \A q \in Procs : SnapOK(log, proc[q].stored)
  BY Known, SameMembersNow, Zenon DEF ProcOK
<1>2. /\ SnapOK(log, call[c].snap) /\ (call[c].phase \in AtMember => call[c].at \in Procs)
      /\ call[c].phase \in {"exec", "propose"} => call[c].instr \in Instrs
  BY <1>1, Zenon DEF CallOK
<1>3. c \in Calls => c \notin Joiners
  BY Disjoint, Zenon
<1>4. CASE c \in Calls /\ ClientStep(c)
  <2>1. CASE Exec(c)
    BY <1>1, <1>2, <1>3, <1>4, <2>1, ExecEffect, InstructionType, Zenon
  <2>2. CASE Return(c)
    BY <1>1, <1>2, <1>3, <1>4, <2>2, ReturnEffect, Zenon DEF SameCall
  <2>3. CASE Get(c)
    BY <1>1, <1>2, <1>3, <1>4, <2>3, GetEffect, Zenon
  <2>4. CASE ReplyReadIndex(c)
    BY <1>1, <1>2, <1>3, <1>4, <2>4, ReplyReadIndexEffect, Zenon DEF SameCall
  <2>5. CASE DummyWrite(c)
    BY <1>1, <1>2, <1>3, <1>4, <2>5, DummyWriteEffect, Zenon DEF SameCall
  <2>6. CASE wait(c)
    BY <1>1, <1>2, <1>3, <1>4, <2>6, waitEffect, Zenon DEF SameCall
  <2>7. CASE StaleGet(c)
    BY <1>1, <1>2, <1>3, <1>4, <2>7, StaleGetEffect, Zenon DEF SameCall
  <2> QED BY <1>4, <2>1, <2>2, <2>3, <2>4, <2>5, <2>6, <2>7, Zenon DEF ClientStep
<1>5. CASE WriteStep(c)
  <2>1. CASE Register(c)
    BY <1>1, <1>2, <2>1, RegisterEffect, Zenon DEF SameCall
  <2>2. CASE Propose(c)
    BY <1>1, <1>2, <2>2, ProposeEffect, Zenon DEF SameCall
  <2>3. CASE ProposeFails(c)
    BY <1>1, <1>2, <2>3, ProposeFailsEffect, Zenon DEF SameCall
  <2>4. CASE ExecTimeout(c)
    BY <1>1, <1>2, <2>4, FinishIs, Zenon DEF ExecTimeout, SameCall
  <2> QED BY <1>5, <2>1, <2>2, <2>3, <2>4, Zenon DEF WriteStep
<1>6. CASE c \in Joiners /\ AskStep(c)
  <2>1. CASE AllocAgain(c)
    BY <1>1, <1>2, <1>6, <2>1, AllocIs, Zenon DEF AllocAgain
  <2>2. CASE ServeJoin(c)
    BY <1>1, <1>2, <1>6, <2>2, ServeJoinEffect, Zenon DEF SameCall
  <2>3. CASE waitForNode(c)
    BY <1>1, <1>2, <1>6, <2>3, waitForNodeEffect, Zenon DEF SameCall
  <2>4. CASE JoinSnapshot(c)
    BY <1>1, <1>2, <1>6, <2>4, JoinSnapshotEffect, Zenon
  <2>5. CASE \E p \in Procs : Join(c, p)
    <3>1. PICK p \in Procs : Join(c, p)
      BY <2>5, Zenon
    <3> QED BY <1>1, <1>2, <1>6, <3>1, AllocIs, Zenon DEF Join, Logless
  <2> QED BY <1>6, <2>1, <2>2, <2>3, <2>4, <2>5, Zenon DEF AskStep
<1> QED BY <1>4, <1>5, <1>6, Zenon DEF CallStep

LEMMA CallStepData == ASSUME DataInv, NEW c \in Callers, CallStep(c) PROVE DataInv'
<1>1. /\ OneCall(c) /\ SameMembers /\ UNCHANGED <<log, disk, acked>> /\ proposed' \subseteq Entry
      /\ \A q \in Procs : SnapOK(log, proc'[q].stored)
      /\ CallOK(log, call'[c])
  BY CallStepEffect, Zenon DEF CallOK
<1>2. ASSUME NEW q \in Procs PROVE ProcOK(log, proc'[q])
  BY <1>1, SameStateOK, Known, Zenon DEF SameMembers, ProcOK
<1> QED BY <1>1, <1>2, PutData, Zenon DEF OneCall, Put, SameMembers

LEMMA JoinFilesData == ASSUME DataInv, NEW j \in Joiners, JoinFiles(j) PROVE DataInv'
<1> DEFINE s == call[j].snap
           x == Started(call[j].id, RestoreSnapshot(New, s), s)
<1>1. /\ j \in Callers /\ j \in Procs /\ call[j] \in Call /\ CallOK(log, call[j]) /\ proc[j] \in Proc
      /\ ProcOK(log, proc[j]) /\ DiskOK(log, disk[j]) /\ Len(log) \in Nat /\ acked \in 0 .. Len(log)
  BY Known, Zenon DEF Callers, Joiners
<1>2. s \in Snap /\ SnapOK(log, s) /\ s.index <= Len(log) /\ call[j].id \in Nat
  BY <1>1, Zenon DEF CallOK, SnapOK, Call
<1>3. ProcOK(log, x)
  BY <1>2, RestoreType, StartedType, Known, Zenon
<1> HIDE DEF s, x
<1>4. /\ OneCall(j) /\ OneProc(j) /\ call'[j].snap = s
      /\ disk'[j].snap \in {disk[j].snap, s} /\ disk'[j].wal.saved \in {disk[j].wal.saved, 0, s.index}
      /\ call'[j].phase \in {"createWal", "done"} \cup Writing
      /\ proc'[j] \in {proc[j], x}
  BY JoinFilesEffect, Zenon DEF s, x, Writing
<1>5. ProcOK(log, proc'[j]) /\ DiskOK(log, disk'[j])
  BY <1>1, <1>2, <1>3, <1>4 DEF DiskOK
<1>6. CallOK(log, call'[j])
  BY <1>2, <1>4, Zenon DEF CallOK, AtMember, Writing
<1>7. call' \in [Callers -> Call] /\ \A c \in Callers : call'[c] = call[c] \/ CallOK(log, call'[c])
  BY <1>4, <1>6, Known, Zenon DEF OneCall
<1> QED BY <1>1, <1>4, <1>5, <1>7, ProcData, Zenon DEF OneProc

\* The steps, by what they touch.
LEMMA Steps ==
  ASSUME RaftNext
  PROVE  \/ Commit \/ Elect \/ Lose
         \/ \E p \in Procs : RunUpdatesReady(p) \/ ProcStep(p)
         \/ \E c \in Callers : CallStep(c)
         \/ \E j \in Joiners : JoinFiles(j)
BY Zenon DEF RaftNext, ProcStep, CallStep, ClientStep, WriteStep, AskStep, JoinFiles, Callers

LEMMA AppendStep ==
  ASSUME DataInv, Commit \/ Elect
  PROVE  /\ UNCHANGED <<proc, call, acked>> /\ proposed' \subseteq proposed
         /\ \E e \in proposed \cup {Empty} : Append1(e)
         /\ proposed \cup {Empty} \subseteq Entry
BY Known DEF Commit, Elect, Empty, Entry

LEMMA NextData == ASSUME DataInv, RaftNext PROVE DataInv'
<1>1. CASE Commit \/ Elect
  BY <1>1, AppendStep, AppendData, Zenon
<1>2. CASE Lose
  BY <1>2, Zenon DEF Lose, DataInv
<1>3. CASE \E p \in Procs : RunUpdatesReady(p) \/ ProcStep(p)
  BY <1>3, RunData, ProcStepData, Zenon
<1>4. CASE \E c \in Callers : CallStep(c)
  BY <1>4, CallStepData, Zenon
<1>5. CASE \E j \in Joiners : JoinFiles(j)
  BY <1>5, JoinFilesData, Zenon
<1> QED BY <1>1, <1>2, <1>3, <1>4, <1>5, Steps, Zenon

-----------------------------------------------------------------------------
(* The files of a process fit each other.                                  *)

LEMMA InitWal == RaftInit => WalInv
<1> SUFFICES ASSUME RaftInit PROVE WalInv
  BY Zenon
<1> DEFINE x == Started(1, ReplayOf(log), NoSnapshot)
           y == [x EXCEPT !.next = Len(log)]
           w == [NewWal EXCEPT !.saved = Len(log)]
           z == [NewDisk EXCEPT !.id = 1, !.wal = w]
<1>1. /\ proc = [p \in Procs |-> IF p # Boot THEN Down ELSE y]
      /\ disk = [p \in Procs |-> IF p # Boot THEN NewDisk ELSE z]
      /\ call = [c \in Callers |-> NoCall]
  BY Zenon DEF RaftInit, InitWith
<1>2. NewDisk.snap.index = 0 /\ ~NewDisk.wal.exists
  BY NewType, Zenon DEF NewDisk, NoWal
<1>3. z.snap.index = 0 /\ z.wal.exists /\ z.wal.snaps = {0}
  BY NewType, Zenon DEF NewDisk, NewWal
<1>4. y.up = "up" /\ y.pc = "ready"
  BY Zenon DEF Started
<1>5. NoCall.phase = "idle"
  BY Zenon DEF NoCall
<1> HIDE DEF y, z
<1>6. FilesOK(Down, NewDisk) /\ FilesOK(y, z)
  BY <1>2, <1>3, <1>4, DownType, Zenon DEF FilesOK
<1> QED BY <1>1, <1>5, <1>6, Zenon DEF WalInv, JoinOK, Callers, Joiners

\* A quorum that saves an entry keeps the positions it has saved.
LEMMA AppendFiles == ASSUME DataInv, NEW e, Append1(e), NEW p \in Procs PROVE SameFiles(p)
<1>1. PICK Q \in SUBSET Following :
        disk' = [q \in Procs |-> IF q \in Q THEN [disk[q] EXCEPT !.wal.saved = @ + 1] ELSE disk[q]]
  BY Zenon DEF Append1
<1>2. disk'[p] = disk[p] \/ disk'[p] = [disk[p] EXCEPT !.wal.saved = @ + 1]
  BY <1>1, Zenon
<1>3. disk[p] \in Disk
  BY Known, Zenon
<1> QED BY <1>2, <1>3, Zenon DEF SameFiles, Disk, Wal

\* Steps of one process.  Who is up has no call of its own.
LEMMA OneProcWal ==
  ASSUME DataInv, WalInv, NEW p \in Procs, OneProc(p), FilesOK(proc'[p], disk'[p]),
         p \in Joiners => JoinOK(proc'[p], disk'[p], call'[p]),
         \A j \in Joiners : j # p => call'[j] = call[j] \/ call'[j].phase = "done"
  PROVE  WalInv'
<1>1. \A q \in Procs : q # p => proc'[q] = proc[q] /\ disk'[q] = disk[q]
  BY Known, Zenon DEF OneProc
<1>2. ASSUME NEW j \in Joiners, j # p PROVE JoinOK(proc'[j], disk'[j], call'[j])
  BY <1>1, <1>2, Zenon DEF WalInv, JoinOK, Joiners
<1> QED BY <1>1, <1>2, Zenon DEF WalInv

LEMMA UpHasNoCall ==
  ASSUME WalInv, NEW j \in Joiners, Up(j)
  PROVE  call[j].phase \in {"idle", "done"}
BY Zenon DEF WalInv, JoinOK, Up

LEMMA RunWal == ASSUME DataInv, WalInv, NEW p \in Procs, RunUpdatesReady(p) PROVE WalInv'
<1> DEFINE e == log[proc[p].next + 1]
<1>1. /\ proc' = [proc EXCEPT ![p] = proc'[p]] /\ proc'[p].up = proc[p].up /\ proc'[p].pc \in {"ready", "snapshot"}
      /\ disk' = disk /\ Up(p)
  BY RunEffect, Zenon
<1>2. \A c \in Callers : \/ call'[c] = call[c]
                         \/ Heard(call[c], p) /\ call'[c] = [call[c] EXCEPT !.phase = "awake"]
                         \/ Outcome(call[c], c, e) /\ call'[c] = TellTo(call[c], p, e)
  BY RunCalls, Zenon
<1> HIDE DEF e
<1>3. \A q \in Procs : proc'[q].up = proc[q].up /\ (q # p => proc'[q] = proc[q])
  BY <1>1, Known, Zenon
<1>4. ASSUME NEW q \in Procs PROVE FilesOK(proc'[q], disk'[q])
  BY <1>1, <1>3 DEF WalInv, FilesOK, Up
<1>5. ASSUME NEW j \in Joiners PROVE JoinOK(proc'[j], disk'[j], call'[j])
  <2>1. JoinOK(proc[j], disk[j], call[j]) /\ j \in Callers /\ j \in Procs /\ call[j] \in Call
    BY Known, Zenon DEF WalInv, Callers, Joiners
  <2>2. \/ call'[j] = call[j]
        \/ call[j].phase = "asleep" /\ call'[j].phase = "awake"
        \/ call[j].phase = "waiting" /\ call'[j].phase = "told"
    <3>1. CASE Heard(call[j], p) /\ call'[j] = [call[j] EXCEPT !.phase = "awake"]
      BY <2>1, <3>1, HeardFields, Zenon DEF Heard
    <3>2. CASE Outcome(call[j], j, e) /\ call'[j] = TellTo(call[j], p, e)
      BY <2>1, <3>2, HeardFields DEF Outcome
    <3> QED BY <1>2, <2>1, <3>1, <3>2, Zenon
  <2> QED BY <1>1, <1>3, <2>1, <2>2, Zenon DEF JoinOK, Writing
<1> QED BY <1>4, <1>5, Zenon DEF WalInv

LEMMA ProcStepWal == ASSUME DataInv, WalInv, NEW p \in Procs, ProcStep(p) PROVE WalInv'
<1>1. FilesOK(proc[p], disk[p]) /\ proc[p] \in Proc /\ disk[p] \in Disk
  BY Known, Zenon DEF WalInv
<1>2. /\ OneProc(p) /\ FilesOK(proc'[p], disk'[p]) /\ (UNCHANGED call \/ CallsEnd(p))
      /\ Up(p) \/ (p \in Joiners => call'[p].phase \in {"idle", "done"})
  <2>1. CASE SaveEntries(p)
    BY <1>1, <2>1, SaveEntriesEffect, Zenon DEF SameFiles, FilesOK, SaveEntries
  <2>2. CASE GetSnapshot(p)
    BY <1>1, <2>2, GetSnapshotEffect, Zenon DEF FilesOK, Up
  <2>3. CASE ReceiveSnapshot(p)
    BY <1>1, <2>3, ReceiveSnapshotEffect, Zenon DEF FilesOK, Up
  <2>4. CASE SavePosition(p)
    BY <1>1, <2>4, SavePositionEffect, Zenon DEF FilesOK, Up
  <2>5. CASE SaveFile(p)
    BY <1>1, <2>5, SaveFileEffect, Zenon DEF FilesOK, Up
  <2>6. CASE ReceiveFile(p)
    BY <1>1, <2>6, ReceiveFileEffect, Zenon DEF FilesOK, Up
  <2>7. CASE Crash(p)
    BY <1>1, <2>7, CrashEffect, DownType, Zenon DEF FilesOK
  <2>8. CASE Redo(p)
    BY <1>1, <2>8, RedoEffect, Zenon DEF FilesOK, Up
  <2>9. CASE Recover(p)
    <3>1. disk[p].snap.index \in disk[p].wal.snaps
      BY <1>1, <2>9, RecoverEffect, Zenon DEF FilesOK
    <3>2. proc'[p] = Started(disk[p].id, RestoreSnapshot(New, disk[p].snap), disk[p].snap)
      BY <2>9, <3>1, RecoverEffect, Zenon
    <3>3. proc'[p].up = "up" /\ proc'[p].pc = "ready"
      BY <3>2 DEF Started
    <3> QED BY <1>1, <2>9, <3>1, <3>3, RecoverEffect, Zenon DEF FilesOK, SameFiles
  <2> QED BY <2>1, <2>2, <2>3, <2>4, <2>5, <2>6, <2>7, <2>8, <2>9, Zenon DEF ProcStep
<1>3. \A c \in Callers : call'[c] = call[c] \/ call'[c].phase = "done"
  BY <1>2, Zenon DEF CallsEnd, Ended
<1>4. p \in Joiners => call'[p].phase \in {"idle", "done"}
  BY <1>2, <1>3, UpHasNoCall, Zenon DEF Callers
<1> QED BY <1>2, <1>3, <1>4, OneProcWal, Zenon DEF JoinOK, Callers

LEMMA CallStepWal == ASSUME DataInv, WalInv, NEW c \in Callers, CallStep(c) PROVE WalInv'
<1>1. /\ OneCall(c) /\ SameMembers /\ disk' = disk
      /\ call'[c].phase \in AtMember \cup {"done"}
      /\ c \in Joiners => call[c].phase \in AtMember \/ Logless(c)
  BY CallStepEffect, Zenon
<1>2. ASSUME NEW q \in Procs PROVE FilesOK(proc'[q], disk'[q])
  BY <1>1, Zenon DEF WalInv, FilesOK, SameMembers
<1>3. ASSUME NEW j \in Joiners PROVE JoinOK(proc'[j], disk'[j], call'[j])
  <2>1. JoinOK(proc[j], disk[j], call[j]) /\ j \in Callers /\ j \in Procs /\ proc'[j].up = proc[j].up
    BY <1>1, Zenon DEF WalInv, SameMembers, Callers, Joiners
  <2>2. CASE j # c
    BY <1>1, <2>1, <2>2, Known, Zenon DEF JoinOK, OneCall
  <2>3. CASE j = c
    BY <1>1, <2>1, <2>3, Zenon DEF JoinOK, Logless, AtMember, Writing
  <2> QED BY <2>2, <2>3, Zenon
<1> QED BY <1>2, <1>3, Zenon DEF WalInv

LEMMA JoinFilesWal == ASSUME DataInv, WalInv, NEW j \in Joiners, JoinFiles(j) PROVE WalInv'
<1> DEFINE s == call[j].snap
           x == Started(call[j].id, RestoreSnapshot(New, s), s)
<1>1. /\ j \in Procs /\ FilesOK(proc[j], disk[j]) /\ JoinOK(proc[j], disk[j], call[j])
      /\ proc[j] \in Proc /\ disk[j] \in Disk
  BY Known, Zenon DEF WalInv, Joiners
<1>2. x.up = "up" /\ x.pc = "ready"
  BY Zenon DEF Started
<1>3. NewWal.exists /\ NewWal.snaps = {0}
  BY Zenon DEF NewWal
<1> HIDE DEF s, x
<1>4. /\ OneCall(j) /\ OneProc(j) /\ call'[j].snap = s
      /\ \/ /\ call[j].phase = "writeID" /\ call'[j].phase = "createWal" /\ UNCHANGED proc /\ SameFiles(j)
         \/ /\ call[j].phase = "createWal" /\ call'[j].phase = "position" /\ UNCHANGED proc
            /\ disk'[j].snap = disk[j].snap /\ disk'[j].wal = NewWal
         \/ /\ call[j].phase = "position" /\ call'[j].phase = "file" /\ UNCHANGED proc
            /\ disk'[j].snap = disk[j].snap /\ disk'[j].wal.exists = disk[j].wal.exists
            /\ disk'[j].wal.snaps = disk[j].wal.snaps \cup {s.index}
         \/ /\ call[j].phase = "file" /\ call'[j].phase = "restore" /\ UNCHANGED proc
            /\ disk'[j].snap = s /\ disk'[j].wal = disk[j].wal
         \/ /\ call[j].phase = "restore" /\ call'[j].phase = "done" /\ SameFiles(j) /\ proc'[j] = x
  BY JoinFilesEffect, Zenon DEF s, x
<1>5. FilesOK(proc'[j], disk'[j]) /\ JoinOK(proc'[j], disk'[j], call'[j])
  BY <1>1, <1>2, <1>3, <1>4, Zenon DEF FilesOK, JoinOK, SameFiles, Writing, s
<1>6. \A i \in Joiners : i # j => call'[i] = call[i]
  BY <1>4, Known, Zenon DEF OneCall, Callers
<1> QED BY <1>1, <1>4, <1>5, <1>6, OneProcWal, Zenon

LEMMA NextWal == ASSUME DataInv, WalInv, RaftNext PROVE WalInv'
<1>1. CASE Commit \/ Elect
  <2>1. UNCHANGED <<proc, call>> /\ \A p \in Procs : SameFiles(p)
    BY <1>1, AppendStep, AppendFiles, Zenon
  <2> QED BY <2>1 DEF WalInv, FilesOK, JoinOK, SameFiles, Joiners
<1>2. CASE Lose
  BY <1>2, Zenon DEF Lose, WalInv
<1>3. CASE \E p \in Procs : RunUpdatesReady(p) \/ ProcStep(p)
  BY <1>3, RunWal, ProcStepWal, Zenon
<1>4. CASE \E c \in Callers : CallStep(c)
  BY <1>4, CallStepWal, Zenon
<1>5. CASE \E j \in Joiners : JoinFiles(j)
  BY <1>5, JoinFilesWal, Zenon
<1> QED BY <1>1, <1>2, <1>3, <1>4, <1>5, Steps, Zenon

-----------------------------------------------------------------------------
(* What calls know and what they are told.                                 *)

LEMMA InitAnswer == RaftInit => AnswerInv
<1> SUFFICES ASSUME RaftInit PROVE AnswerInv
  BY Zenon
<1>1. proposed = {} /\ call = [c \in Callers |-> NoCall]
  BY Zenon DEF RaftInit, InitWith
<1>2. NoCall.phase = "idle" /\ NoCall.result \notin {"ok", "unsatisfied"}
  BY RaftAssumption, Zenon DEF NoCall
<1>3. ASSUME NEW c \in Calls PROVE AnswerOK(c)
  <2>1. call[c] = NoCall
    BY <1>1, Zenon DEF Callers
  <2> QED BY <1>2, <2>1, Zenon DEF AnswerOK, GetOK, ReadOK, ExecOK, ToldOK, Getting
<1>4. \A i \in 1 .. Len(log) : log[i].type = "normal" => log[i].wctx[1] \in Joiners
  BY BootLogIs, Zenon DEF RaftInit, InitWith
<1> QED BY <1>1, <1>3, <1>4, Disjoint, Zenon DEF AnswerInv, EntryOK

\* What the log says of a call, it says when it grows.
LEMMA ToldKept ==
  ASSUME NEW l \in Seq(Entry), NEW m, Longer(l, m), NEW c \in Calls, NEW x \in Call
  PROVE  (ReadOK(l, c, x) => ReadOK(m, c, x)) /\ (ExecOK(l, c, x) => ExecOK(m, c, x))
<1>1. /\ Len(l) \in Nat /\ Len(m) \in Nat /\ Len(l) <= Len(m) /\ \A i \in 1 .. Len(l) : m[i] = l[i]
      /\ \A n \in Nat : n <= Len(l) => Prefix(m, n) = Prefix(l, n)
  BY PrefixKept
<1>2. x.index \in Nat
  BY Zenon DEF Call
<1>3. ReadOK(l, c, x) => ReadOK(m, c, x)
  BY <1>1, <1>2 DEF ReadOK
<1>4. ToldOK(l, c, x) => ToldOK(m, c, x)
  <2>1. \A i \in 1 .. Len(l) : i \in 1 .. Len(m) /\ m[i] = l[i] /\ Prefix(m, i - 1) = Prefix(l, i - 1)
    BY <1>1
  <2> QED BY <2>1, Zenon DEF ToldOK
<1> QED BY <1>3, <1>4, Zenon DEF ExecOK

\* A member goes on: it stays as it is, and without a snapshot from outside it does not
\* go back.
Onward(m, n) == n.up = m.up /\ (~n.missed => ~m.missed /\ m.st.applied <= n.st.applied)

LEMMA AnswersKept ==
  ASSUME DataInv, AnswerInv, Longer(log, log'), acked' \in Nat, acked <= acked', proc' \in [Procs -> Proc],
         \A c \in Calls : \/ AnswerOK(c)'
                          \/ /\ call'[c] = call[c]
                             /\ call[c].phase \in Getting /\ IsGet(c) => Onward(proc[call[c].at], proc'[call[c].at]),
         \A e \in proposed' : EntryOK(e), \A i \in 1 .. Len(log') : EntryOK(log'[i])
  PROVE  AnswerInv'
<1> SUFFICES ASSUME NEW c \in Calls, call'[c] = call[c],
                    call[c].phase \in Getting /\ IsGet(c) => Onward(proc[call[c].at], proc'[call[c].at])
             PROVE  AnswerOK(c)'
  BY Zenon DEF AnswerInv
<1>1. c \in Callers /\ call[c] \in Call /\ AnswerOK(c) /\ log \in Seq(Entry) /\ acked \in Nat
  BY Known DEF AnswerInv, Callers
<1>2. /\ ReadOK(log, c, call[c]) => ReadOK(log', c, call[c])
      /\ ExecOK(log, c, call[c]) => ExecOK(log', c, call[c])
  BY <1>1, ToldKept, Zenon
<1>3. CASE ~IsGet(c)
  BY <1>1, <1>2, <1>3, Zenon DEF AnswerOK, IsGet
<1>4. CASE IsGet(c)
  <2> DEFINE x == call[c]
             m == proc[x.at]
             n == proc'[x.at]
  <2>1. GetOK(log, c, x, m, acked) /\ ReadOK(log', c, x) /\ x.floor \in Nat /\ x.index \in Nat
    BY <1>1, <1>2, <1>4, Zenon DEF AnswerOK, GetOK, Call
  <2>2. x.phase \in Getting => m \in Proc /\ n \in Proc /\ Onward(m, n)
    BY <1>1, <1>4, AtProc, Known, Zenon DEF Getting, AtMember
  <2>3. x.phase \in Getting => m.st.applied \in Nat /\ n.st.applied \in Nat
    BY <2>2, Zenon DEF Proc, State
  <2> HIDE DEF x, m, n
  <2>4. GetOK(log', c, x, n, acked')
    BY <1>1, <2>1, <2>2, <2>3 DEF GetOK, Onward, Getting
  <2> QED BY <1>4, <2>4, Zenon DEF AnswerOK, IsGet, x, n
<1> QED BY <1>3, <1>4, Zenon

\* Steps that add no entry.
LEMMA SameLogAnswers ==
  ASSUME DataInv, AnswerInv, log' = log, acked' \in Nat, acked <= acked', proc' \in [Procs -> Proc],
         \A c \in Calls : \/ AnswerOK(c)'
                          \/ /\ call'[c] = call[c]
                             /\ call[c].phase \in Getting /\ IsGet(c) => Onward(proc[call[c].at], proc'[call[c].at]),
         \A e \in proposed' : e \in proposed \/ EntryOK(e)
  PROVE  AnswerInv'
<1>1. Longer(log, log')
  BY Zenon DEF Longer
<1>2. (\A e \in proposed' : EntryOK(e)) /\ \A i \in 1 .. Len(log') : EntryOK(log'[i])
  BY Zenon DEF AnswerInv
<1> QED BY <1>1, <1>2, AnswersKept, Zenon

LEMMA AppendAnswers == ASSUME DataInv, AnswerInv, Commit \/ Elect PROVE AnswerInv'
<1>1. /\ UNCHANGED <<proc, call, acked>> /\ proposed' \subseteq proposed
      /\ \E e \in proposed \cup {Empty} : Append1(e)
      /\ proposed \cup {Empty} \subseteq Entry
  BY AppendStep, Zenon
<1>2. PICK e \in proposed \cup {Empty} : log' = Append(log, e)
  BY <1>1, Zenon DEF Append1
<1>3. EntryOK(e) /\ \A f \in proposed' : EntryOK(f)
  BY <1>1 DEF AnswerInv, EntryOK, Empty
<1>4. Longer(log, log') /\ \A i \in 1 .. Len(log') : EntryOK(log'[i])
  BY <1>1, <1>2, <1>3, Known DEF Longer, AnswerInv
<1>5. \A c \in Calls : call'[c] = call[c] /\ (call[c].phase \in Getting /\ IsGet(c) => Onward(proc[call[c].at], proc'[call[c].at]))
  <2>1. ASSUME NEW c \in Calls, call[c].phase \in Getting
        PROVE  Onward(proc[call[c].at], proc'[call[c].at])
    <3>1. c \in Callers /\ proc[call[c].at] \in Proc
      BY <2>1, AtProc, Known, Zenon DEF Callers, Getting, AtMember
    <3> QED BY <1>1, <3>1 DEF Onward, Proc, State
  <2> QED BY <1>1, <2>1, Zenon
<1> QED BY <1>1, <1>3, <1>4, <1>5, AnswersKept, Known

\* The caller whose entry is applied is told what the log says of it.
LEMMA RunTells ==
  ASSUME DataInv, AnswerInv, NEW p \in Procs, RunUpdatesReady(p), NEW c \in Calls,
         NEW i, i = proc[p].next + 1, NEW e, e = log[i],
         Outcome(call[c], c, e), call'[c] = TellTo(call[c], p, e)
  PROVE  AnswerOK(c)'
<1> DEFINE x == call[c]
           s == proc[p].st
           b == Satisfied(s, e.instr)
           y == TellTo(x, p, e)
<1>1. i \in 1 .. Len(log) /\ e \in Entry /\ log' = log
  BY RunEffect, Zenon
<1>2. /\ c \in Callers /\ x \in Call /\ x.phase = "waiting" /\ e.type = "normal" /\ e.wctx = <<c, x.try>>
      /\ AnswerOK(c) /\ EntryOK(e)
  BY <1>1, Known, Zenon DEF Outcome, Callers, AnswerInv
<1>3. ~IsGet(c) /\ ExecOK(log, c, x) /\ x.instr = Instruction(c) /\ e.instr = x.instr
  BY <1>2 DEF AnswerOK, GetOK, Getting, ExecOK, EntryOK
<1>4. e = Normal(<<c, x.try>>, x.instr)
  BY <1>1, <1>2, <1>3, Zenon DEF Entry, Normal
<1>5. ASSUME ~proc[p].missed PROVE b <=> Satisfied(Prefix(log, i - 1), e.instr)
  <2>1. Same(s, Prefix(log, i - 1))
    <3>1. proc[p].next = s.applied /\ Same(s, Prefix(log, s.applied)) /\ s.applied \in Nat
      BY <1>5, Known, Zenon DEF ProcOK, Proc, State
    <3> QED BY <3>1
  <2>2. e.instr \in Instrs /\ e.instr.key \in Keys
    BY <1>3, InstructionType, Disjoint, Zenon
  <2> QED BY <2>1, <2>2, SatisfiedSame, Zenon DEF Same
<1> HIDE DEF b
<1>6. y.phase = "told" /\ y.instr = x.instr /\ y.try = x.try /\ y.missed = proc[p].missed
  BY <1>2, HeardFields, Zenon DEF TellTo, Call
<1>7. y.result = IF b THEN "ok" ELSE "unsatisfied"
  BY <1>2, Zenon DEF TellTo, Call, b
<1>8. proc[p].missed \in BOOLEAN
  BY Known, Zenon DEF Proc
<1> HIDE DEF x, y
<1>9. ToldOK(log, c, y)
  <2>1. (y.result = "ok") <=> b
    BY <1>7, Zenon
  <2>2. proc[p].missed \/ (y.result = "ok") = Satisfied(Prefix(log, i - 1), e.instr)
    <3>1. CASE proc[p].missed
      BY <3>1, Zenon
    <3>2. CASE ~proc[p].missed
      <4>1. b <=> Satisfied(Prefix(log, i - 1), e.instr)
        BY <1>5, <3>2, Zenon
      <4>2. Satisfied(Prefix(log, i - 1), e.instr) \in BOOLEAN
        BY Zenon DEF Satisfied
      <4> QED BY <2>1, <4>1, <4>2, Zenon
    <3> QED BY <1>8, <3>1, <3>2, Zenon
  <2> QED BY <1>1, <1>3, <1>4, <1>6, <2>2, Zenon DEF ToldOK
<1> QED BY <1>1, <1>3, <1>6, <1>9, Zenon DEF AnswerOK, IsGet, ExecOK, x, y

LEMMA RunAnswers == ASSUME DataInv, AnswerInv, NEW p \in Procs, RunUpdatesReady(p) PROVE AnswerInv'
<1> DEFINE i == proc[p].next + 1
           e == log[i]
<1>1. /\ Up(p) /\ i \in 1 .. Len(log) /\ e \in Entry
      /\ proc' = [proc EXCEPT ![p] = proc'[p]] /\ proc'[p] \in Proc
      /\ proc'[p].st = ApplyEntry(proc[p].st, e, i)
      /\ proc'[p].up = proc[p].up /\ proc'[p].missed = proc[p].missed
      /\ log' = log /\ proposed' = proposed /\ acked' \in {acked, i} /\ acked' >= acked
  BY RunEffect
<1>2. \A c \in Callers : \/ call'[c] = call[c]
                         \/ Heard(call[c], p) /\ call'[c] = [call[c] EXCEPT !.phase = "awake"]
                         \/ Outcome(call[c], c, e) /\ call'[c] = TellTo(call[c], p, e)
  BY RunCalls, Zenon
<1>3. ASSUME NEW c \in Calls, Outcome(call[c], c, e), call'[c] = TellTo(call[c], p, e)
      PROVE  AnswerOK(c)'
  BY <1>3, RunTells, Zenon
<1>4. proc[p] \in Proc /\ proc[p].st \in State /\ proc[p].next \in Nat /\ i \in Nat /\ i = proc[p].next + 1
      /\ ProcOK(log, proc[p]) /\ acked \in Nat /\ acked' \in Nat /\ acked <= acked'
  BY <1>1, Known DEF Proc
<1> HIDE DEF e, i
<1>5. Onward(proc[p], proc'[p])
  <2>1. proc'[p].st.applied = i
    BY <1>1, <1>4, EntryType
  <2>2. ~proc[p].missed => proc[p].st.applied <= i
    BY <1>4 DEF ProcOK
  <2> QED BY <1>1, <2>1, <2>2, Zenon DEF Onward
<1>6. ASSUME NEW q \in Procs PROVE Onward(proc[q], proc'[q])
  <2>1. CASE q # p
    <3>1. proc'[q] = proc[q] /\ proc[q].st.applied \in Nat
      BY <1>1, <1>6, <2>1, Known, Zenon DEF Proc, State
    <3> QED BY <3>1 DEF Onward
  <2> QED BY <1>5, <2>1, Zenon
<1>7. ASSUME NEW c \in Calls, Heard(call[c], p), call'[c] = [call[c] EXCEPT !.phase = "awake"]
      PROVE  AnswerOK(c)'
  <2>1. c \in Callers /\ call[c] \in Call /\ call[c].phase = "asleep" /\ call[c].at = p /\ AnswerOK(c)
    BY <1>7, Known, Zenon DEF Callers, Heard, AnswerInv
  <2>2. IsGet(c) /\ GetOK(log, c, call[c], proc[call[c].at], acked) /\ call[c].floor \in Nat
    BY <2>1, Zenon DEF AnswerOK, ExecOK, Call
  <2>3. call'[c].phase = "awake" /\ call'[c].at = p /\ call'[c].floor = call[c].floor /\ call'[c].index = call[c].index
    BY <1>7, <2>1, HeardFields
  <2>4. GetOK(log', c, call'[c], proc'[call'[c].at], acked')
    BY <1>1, <1>4, <2>1, <2>2, <2>3 DEF GetOK, Getting, ReadOK, Up
  <2> QED BY <2>2, <2>4, Zenon DEF AnswerOK, IsGet
<1>8. ASSUME NEW c \in Calls, IsGet(c), call[c].phase \in Getting
      PROVE  Onward(proc[call[c].at], proc'[call[c].at])
  BY <1>6, <1>8, AtProc, Zenon DEF Callers, Getting, AtMember
<1>9. proc' \in [Procs -> Proc]
  BY <1>1, Known, Zenon
<1> QED BY <1>1, <1>2, <1>3, <1>4, <1>7, <1>8, <1>9, SameLogAnswers, Zenon DEF Callers

\* Calls that end with their member are told nothing.
LEMMA EndedAnswer ==
  ASSUME AnswerInv, NEW c \in Calls, Ended(call[c], call'[c])
  PROVE  AnswerOK(c)'
<1>1. call'[c].phase = "done" /\ call'[c].result = "shutdown" /\ call'[c].instr = call[c].instr /\ call[c].phase # "idle"
  BY Zenon DEF Ended
<1>2. ~IsGet(c) => call[c].instr = Instruction(c)
  BY <1>1, Zenon DEF AnswerInv, AnswerOK, ExecOK
<1>3. ReadOK(log', c, call'[c]) /\ ToldOK(log', c, call'[c])
  BY <1>1, Zenon DEF ReadOK, ToldOK
<1>4. CASE IsGet(c)
  <2>1. GetOK(log', c, call'[c], proc'[call'[c].at], acked')
    BY <1>1, <1>3, Zenon DEF GetOK, Getting
  <2> QED BY <1>4, <2>1, Zenon DEF AnswerOK, IsGet
<1>5. CASE ~IsGet(c)
  BY <1>1, <1>2, <1>3, <1>5, Zenon DEF AnswerOK, IsGet, ExecOK
<1> QED BY <1>4, <1>5, Zenon

LEMMA ProcStepAnswers == ASSUME DataInv, AnswerInv, NEW p \in Procs, ProcStep(p) PROVE AnswerInv'
<1>1. proc[p] \in Proc /\ proc[p].st \in State /\ proc[p].st.applied \in Nat
  BY Known, Zenon DEF Proc, State
<1>2. OneProc(p) /\ \/ UNCHANGED call /\ (proc[p].up = "up" => Onward(proc[p], proc'[p]))
                    \/ CallsEnd(p)
  <2>1. CASE SaveEntries(p)
    BY <1>1, <2>1, SaveEntriesEffect DEF Onward
  <2>2. CASE GetSnapshot(p)
    BY <1>1, <2>2, GetSnapshotEffect DEF Onward, SameState, Up
  <2>3. CASE ReceiveSnapshot(p)
    BY <1>1, <2>3, ReceiveSnapshotEffect DEF Onward, SameState, Up
  <2>4. CASE SavePosition(p)
    BY <1>1, <2>4, SavePositionEffect DEF Onward, SameState, Up
  <2>5. CASE SaveFile(p)
    BY <1>1, <2>5, SaveFileEffect DEF Onward, SameState, Up
  <2>6. CASE ReceiveFile(p)
    BY <1>1, <2>6, ReceiveFileEffect, Zenon DEF Onward, Up
  <2>7. CASE Crash(p)
    BY <2>7, CrashEffect, Zenon
  <2>8. CASE Redo(p)
    BY <1>1, <2>8, RedoEffect DEF Onward, SameState, Up
  <2>9. CASE Recover(p)
    BY <1>1, <2>9, RecoverEffect, Zenon
  <2> QED BY <2>1, <2>2, <2>3, <2>4, <2>5, <2>6, <2>7, <2>8, <2>9, Zenon DEF ProcStep
<1>3. /\ log' = log /\ proposed' = proposed /\ acked' = acked /\ acked \in Nat /\ proc' \in [Procs -> Proc]
      /\ \A q \in Procs : q # p => proc'[q] = proc[q]
  BY <1>2, Known DEF OneProc
<1>4. ASSUME NEW c \in Calls, call'[c] = call[c], call[c].phase \in Getting, IsGet(c)
      PROVE  Onward(proc[call[c].at], proc'[call[c].at])
  <2> DEFINE q == call[c].at
  <2>1. c \in Callers /\ q \in Procs /\ proc[q] \in Proc /\ proc[q].up = "up" /\ call[c].phase \notin {"idle", "done"}
    BY <1>4, AtProc, Known, Zenon DEF Callers, Getting, AtMember, AnswerInv, AnswerOK, GetOK
  <2>2. CASE q # p
    <3>1. proc'[q] = proc[q] /\ proc[q].st.applied \in Nat
      BY <1>3, <2>1, <2>2, Zenon DEF Proc, State
    <3> QED BY <3>1 DEF Onward
  <2>3. CASE q = p
    BY <1>2, <1>4, <2>1, <2>3, Zenon DEF CallsEnd
  <2> QED BY <2>2, <2>3, Zenon
<1>5. ASSUME NEW c \in Calls, call'[c] # call[c] PROVE AnswerOK(c)'
  BY <1>2, <1>5, EndedAnswer, Zenon DEF CallsEnd, Callers
<1> QED BY <1>3, <1>4, <1>5, SameLogAnswers

\* A process that joins is not yet a member that answers calls.
LEMMA JoinFilesAnswers == ASSUME DataInv, WalInv, AnswerInv, NEW j \in Joiners, JoinFiles(j) PROVE AnswerInv'
<1>1. OneCall(j) /\ OneProc(j) /\ call[j].phase \notin {"idle", "done"}
  BY JoinFilesEffect, Zenon
<1>2. j \in Procs /\ j \notin Calls /\ proc[j].up = "down"
  BY <1>1, Disjoint, Zenon DEF WalInv, JoinOK, Joiners
<1>3. /\ log' = log /\ proposed' = proposed /\ acked' = acked /\ acked \in Nat /\ proc' \in [Procs -> Proc]
      /\ \A q \in Procs : q # j => proc'[q] = proc[q]
      /\ \A c \in Calls : call'[c] = call[c]
  BY <1>1, <1>2, Known DEF OneProc, OneCall, Callers
<1>4. ASSUME NEW c \in Calls, call[c].phase \in Getting, IsGet(c)
      PROVE  Onward(proc[call[c].at], proc'[call[c].at])
  <2> DEFINE q == call[c].at
  <2>1. q \in Procs /\ proc[q] \in Proc /\ proc[q].up = "up"
    BY <1>4, AtProc, Known, Zenon DEF Callers, Getting, AtMember, AnswerInv, AnswerOK, GetOK
  <2>2. proc'[q] = proc[q] /\ proc[q].st.applied \in Nat
    BY <1>2, <1>3, <2>1, Zenon DEF Proc, State
  <2> QED BY <2>2 DEF Onward
<1> QED BY <1>3, <1>4, SameLogAnswers

\* What a client knows after a step of its own.
LEMMA GetAnswer ==
  ASSUME DataInv, AnswerInv, NEW c \in Calls, IsGet(c), CallStep(c)
  PROVE  AnswerOK(c)'
<1> DEFINE x == call[c]
           y == call'[c]
           m == proc[x.at]
<1>1. c \in Callers /\ c \notin Joiners /\ x \in Call /\ x.floor \in Nat /\ x.index \in Nat
  BY Disjoint, Known, Zenon DEF Callers, Call
<1>2. GetOK(log, c, x, m, acked) /\ x.phase \notin {"exec", "propose", "waiting", "told"}
  BY Zenon DEF AnswerInv, AnswerOK, GetOK, Getting
<1>3. /\ x.phase \in Getting => x.at \in Procs /\ m \in Proc /\ m.st.applied \in Nat /\ ProcOK(log, m)
      /\ acked \in Nat /\ Len(log) \in Nat /\ acked <= Len(log)
  BY <1>1, AtProc, Known DEF Getting, AtMember, Proc, State
<1>4. ClientStep(c) /\ ~Exec(c) /\ ~Return(c)
  BY <1>1, <1>2, Zenon DEF CallStep, WriteStep, Register, Propose, ProposeFails, ExecTimeout, Exec, Return, IsGet
<1> HIDE DEF x, y, m
<1> SUFFICES GetOK(log', c, y, proc'[y.at], acked')
  BY Zenon DEF AnswerOK, IsGet, y
<1>5. CASE Get(c)
  BY <1>3, <1>5, GetEffect DEF GetOK, Getting, ReadOK, Up, y
<1>6. CASE ReplyReadIndex(c)
  <2>1. /\ y.at = x.at /\ UNCHANGED <<log, proc, acked>> /\ x.phase = "reading" /\ y.phase = "awake"
        /\ y.floor = x.floor /\ y.index = Len(log)
    BY <1>6, ReplyReadIndexEffect, Zenon DEF SameCall, x, y
  <2> QED BY <1>1, <1>2, <1>3, <2>1 DEF GetOK, Getting, ReadOK, m
<1>7. CASE DummyWrite(c)
  <2>1. /\ y.at = x.at /\ UNCHANGED <<log, proc, acked>> /\ x.phase \in {"reading", "awake", "asleep"}
        /\ y.phase = x.phase /\ y.floor = x.floor /\ y.index = x.index
    BY <1>7, DummyWriteEffect, Zenon DEF SameCall, SameRead, x, y
  <2> QED BY <1>2, <2>1, Zenon DEF GetOK, Getting, ReadOK, m
<1>8. CASE wait(c)
  <2>1. /\ y.at = x.at /\ UNCHANGED <<log, proc, acked>> /\ x.phase = "awake"
        /\ y.phase = (IF m.st.applied < x.index THEN "asleep" ELSE "read") /\ y.floor = x.floor /\ y.index = x.index
    BY <1>8, waitEffect, Zenon DEF SameCall, SameRead, x, y, m
  <2> QED BY <1>1, <1>2, <1>3, <2>1 DEF GetOK, Getting, ReadOK, m
<1>9. CASE StaleGet(c)
  <2>1. /\ UNCHANGED <<log, proc, acked>> /\ x.phase = "read" /\ y.phase = "done"
        /\ y.floor = x.floor /\ y.index = m.st.applied /\ y.missed = m.missed
        /\ y.result = m.st.kv[Script[c].key]
    BY <1>9, StaleGetEffect, Zenon DEF x, y, m
  <2>2. ASSUME ~m.missed PROVE y.floor <= y.index /\ y.index <= Len(log) /\ y.result = Prefix(log, y.index).kv[Script[c].key]
    BY <1>1, <1>2, <1>3, <2>1, <2>2, Disjoint DEF GetOK, Getting, ProcOK, Same
  <2> QED BY <2>1, <2>2, Zenon DEF GetOK, Getting, ReadOK
<1> QED BY <1>4, <1>5, <1>6, <1>7, <1>8, <1>9, Zenon DEF ClientStep

LEMMA ExecAnswer ==
  ASSUME DataInv, AnswerInv, NEW c \in Calls, ~IsGet(c), CallStep(c)
  PROVE  AnswerOK(c)'
<1> DEFINE x == call[c]
           y == call'[c]
<1>1. c \in Callers /\ c \notin Joiners
  BY Disjoint, Zenon DEF Callers
<1>2. ExecOK(log, c, x)
  BY Zenon DEF AnswerInv, AnswerOK
<1>3. Exec(c) \/ Return(c) \/ WriteStep(c)
  BY <1>1, <1>2, Zenon DEF CallStep, ClientStep, Get, ReplyReadIndex, DummyWrite, wait, StaleGet, IsGet, ExecOK
<1> HIDE DEF x, y
<1> SUFFICES ExecOK(log', c, y)
  BY Zenon DEF AnswerOK, IsGet, y
<1>4. CASE Exec(c)
  BY <1>2, <1>4, ExecEffect, Zenon DEF ExecOK, ToldOK, x, y
<1>5. CASE Return(c)
  BY <1>2, <1>5, ReturnEffect, Zenon DEF SameCall, ExecOK, ToldOK, x, y
<1>6. CASE WriteStep(c)
  <2>1. log' = log /\ SameCall(c) /\ \/ x.phase = "exec" /\ y.phase = "propose" /\ y.result = x.result
                                     \/ x.phase = "propose" /\ y.phase = "waiting" /\ y.result = x.result
                                     \/ x.phase \in {"propose", "waiting"} /\ y.phase = "done" /\ y.result \in {"failed", "timeout"}
    BY <1>1, <1>6, RegisterEffect, ProposeEffect, ProposeFailsEffect, FinishIs, Zenon DEF WriteStep, ExecTimeout, x, y
  <2> QED BY <1>2, <2>1, Zenon DEF SameCall, ExecOK, ToldOK, x, y
<1> QED BY <1>3, <1>4, <1>5, <1>6, Zenon

\* Only a client's own write becomes an entry in its name.
LEMMA ProposedEntries ==
  ASSUME DataInv, AnswerInv, NEW c \in Callers, CallStep(c)
  PROVE  \A e \in proposed' : e \in proposed \/ EntryOK(e)
<1>1. CASE Propose(c)
  <2>1. proposed' = proposed \cup {Normal(<<c, call[c].try>>, call[c].instr)} /\ call[c].phase = "propose"
    BY <1>1, ProposeEffect, Zenon DEF Wctx
  <2>2. c \in Calls => call[c].instr = Instruction(c)
    BY <2>1, Zenon DEF AnswerInv, AnswerOK, GetOK, Getting, ExecOK
  <2> QED BY <2>1, <2>2 DEF EntryOK, Normal
<1>2. CASE DummyWrite(c)
  <2>1. c \in Calls /\ c \notin Joiners
    BY <1>2, Disjoint, Zenon DEF DummyWrite
  <2> QED BY <1>2, <2>1, DummyWriteEffect, Zenon DEF EntryOK
<1>3. CASE c \in Joiners /\ ServeJoin(c)
  BY <1>3, ServeJoinEffect, Zenon DEF EntryOK
<1>4. CASE ~Propose(c) /\ ~DummyWrite(c) /\ ~(c \in Joiners /\ ServeJoin(c))
  <2>1. proposed' = proposed
    BY <1>4, Zenon DEF CallStep, ClientStep, WriteStep, AskStep, Exec, Return, Get, ReplyReadIndex, wait, StaleGet,
                Register, ProposeFails, ExecTimeout, AllocAgain, waitForNode, JoinSnapshot, Join
  <2> QED BY <2>1, Zenon
<1> QED BY <1>1, <1>2, <1>3, <1>4, Zenon

LEMMA CallStepAnswers == ASSUME DataInv, AnswerInv, NEW c \in Callers, CallStep(c) PROVE AnswerInv'
<1>1. OneCall(c) /\ SameMembers /\ log' = log /\ acked' = acked /\ acked \in Nat
  BY CallStepEffect, Known
<1>2. c \in Calls => AnswerOK(c)'
  BY GetAnswer, ExecAnswer, Zenon
<1>3. \A d \in Calls : d # c => call'[d] = call[d]
  BY <1>1, Known, Zenon DEF OneCall, Callers
<1>4. ASSUME NEW d \in Calls, call[d].phase \in Getting
      PROVE  Onward(proc[call[d].at], proc'[call[d].at])
  <2>1. call[d].at \in Procs
    BY <1>4, AtProc, Zenon DEF Callers, Getting, AtMember
  <2>2. proc[call[d].at].st.applied \in Nat
    BY <2>1, Known, Zenon DEF Proc, State
  <2> QED BY <1>1, <2>1, <2>2 DEF SameMembers, SameState, Onward
<1> QED BY <1>1, <1>2, <1>3, <1>4, ProposedEntries, SameLogAnswers DEF SameMembers

LEMMA NextAnswer == ASSUME DataInv, WalInv, AnswerInv, RaftNext PROVE AnswerInv'
<1>1. CASE Commit \/ Elect
  BY <1>1, AppendAnswers, Zenon
<1>2. CASE Lose
  BY <1>2, Zenon DEF Lose, AnswerInv, AnswerOK, IsGet
<1>3. CASE \E p \in Procs : RunUpdatesReady(p) \/ ProcStep(p)
  BY <1>3, RunAnswers, ProcStepAnswers, Zenon
<1>4. CASE \E c \in Callers : CallStep(c)
  BY <1>4, CallStepAnswers, Zenon
<1>5. CASE \E j \in Joiners : JoinFiles(j)
  BY <1>5, JoinFilesAnswers, Zenon
<1> QED BY <1>1, <1>2, <1>3, <1>4, <1>5, Steps, Zenon

-----------------------------------------------------------------------------
RaftInv == DataInv /\ WalInv /\ AnswerInv

LEMMA RaftInductive == RaftSpec => []RaftInv
<1>1. RaftInit => RaftInv
  BY InitData, InitWal, InitAnswer, Zenon DEF RaftInv
<1>2. RaftInv /\ [RaftNext]_raftVars => RaftInv'
  <2>1. ASSUME RaftInv, UNCHANGED raftVars PROVE RaftInv'
    BY <2>1, Zenon DEF RaftInv, raftVars, DataInv, WalInv, AnswerInv, AnswerOK, IsGet
  <2>2. ASSUME RaftInv, RaftNext PROVE RaftInv'
    BY <2>2, NextData, NextWal, NextAnswer, Zenon DEF RaftInv
  <2> QED BY <2>1, <2>2, Zenon
<1> QED BY <1>1, <1>2, PTL DEF RaftSpec

(***************************************************************************)
(* The state of a member that received no snapshot over the wire is what   *)
(* the log says at its applied index, through crashes, recoveries, joins   *)
(* and snapshots, and the log on disk can be opened at the snapshot on     *)
(* disk wherever the process stops between two writes (recover,            *)
(* triggerSnapshot, runUpdatesReady, join).                                *)
(***************************************************************************)
THEOREM RaftRecoversTheLog == RaftSpec => []RecoversTheLog
<1>1. RaftInv => RecoversTheLog
  <2> SUFFICES ASSUME RaftInv PROVE RecoversTheLog
    BY Zenon
  <2>1. ASSUME NEW p \in Procs, Up(p), ~proc[p].missed
        PROVE  Same(proc[p].st, Prefix(log, proc[p].st.applied))
    BY <2>1, Known, Zenon DEF RaftInv, ProcOK
  <2>2. StateIsReplay
    BY <2>1, Zenon DEF StateIsReplay, Same, Prefix, Replay
  <2>3. WalOpensAtSnapshot
    BY Zenon DEF RaftInv, WalInv, FilesOK, WalOpensAtSnapshot
  <2> QED BY <2>2, <2>3, Zenon DEF RecoversTheLog
<1> QED BY <1>1, RaftInductive, PTL

(***************************************************************************)
(* A get returns what the log says at an index that covers every write     *)
(* reported done before it began, and a write is told what the log says of *)
(* its own entry, whatever is retried, late or lost, unless the member had *)
(* received a snapshot over the wire (get, wait, exec, applyEntry).        *)
(***************************************************************************)
THEOREM RaftAnswersAreLogged == RaftSpec => []AnswersAreLogged
<1>1. RaftInv => AnswersAreLogged
  <2> SUFFICES ASSUME RaftInv PROVE AnswersAreLogged
    BY Zenon
  <2>1. GetIsLinearizable
    <3>1. \A c \in Calls : IsGet(c) => ReadOK(log, c, call[c])
      BY Zenon DEF RaftInv, AnswerInv, AnswerOK, GetOK
    <3> QED BY <3>1, Zenon DEF GetIsLinearizable, IsGet, ReadOK, Prefix, Replay
  <2>2. OutcomeIsLogged
    <3>1. \A c \in Calls : ~IsGet(c) => ToldOK(log, c, call[c])
      BY Zenon DEF RaftInv, AnswerInv, AnswerOK, ExecOK
    <3> QED BY <3>1, Zenon DEF OutcomeIsLogged, IsGet, ToldOK, Prefix, Replay, Wctx
  <2> QED BY <2>1, <2>2, Zenon DEF AnswersAreLogged
<1> QED BY <1>1, RaftInductive, PTL
=============================================================================
