--------------------------- MODULE ReserverProofs ---------------------------
(***************************************************************************)
(* The outputs of a source belong to at most one reservation, for every    *)
(* number of outputs, callers and tokens.  ReservedIsOwned is not          *)
(* inductive: a release must find that its ID is nobody else's (IdInv).    *)
(* That a token has one reservation needs that its entry in the group      *)
(* outlives whatever was started for it (TokenInv).  That the account is   *)
(* really short of units when a call says so needs what the cache and the  *)
(* calls that refill it know of the table (KnowInv), and that Total is a   *)
(* sum over disjoint sets.                                                 *)
(***************************************************************************)
EXTENDS Reserver, FiniteSetTheorems, TLAPS

\* Callers that have a reservation ID which is not saved yet.
HasRid(c) == call[c].pc \in {"first", "second", "refill", "query", "store", "one", "save"}
\* Callers that run the function of Once and have not saved a reservation.
Busy(c) == HasRid(c) \/ call[c].pc = "find"

WaitInv == \A c \in Caller : call[c].of \in Caller => call[c].pc = "wait"

\* A reservation ID is held in one place.
IdInv ==
  /\ \A c \in Caller : HasRid(c) => call[c].rid \in 1 .. nextRid - 1
  /\ \A c, d \in Caller : HasRid(c) /\ HasRid(d) /\ call[c].rid = call[d].rid => c = d
  /\ \A r \in reservations :
       /\ r.id \in 1 .. nextRid - 1
       /\ \A c \in Caller : HasRid(c) => call[c].rid # r.id
  /\ \A x \in releasing :
       /\ x.res.id \in 1 .. nextRid - 1
       /\ \A c \in Caller : HasRid(c) => call[c].rid # x.res.id
       /\ \A r \in reservations : r.id # x.res.id
  /\ \A r, s \in reservations : r.id = s.id => r = s
  /\ \A x, y \in releasing : x.res.id = y.res.id => x = y

\* ReservedIsOwned, place by place.
OwnedInv ==
  \A o \in Output :
    /\ reserved[o] # 0 =>
         \/ \E r \in reservations : r.id = reserved[o] /\ o \in r.utxos
         \/ \E x \in releasing : x.pc = "cancel" /\ x.res.id = reserved[o] /\ o \in x.res.utxos
         \/ \E c \in Caller : call[c].pc = "save" /\ call[c].rid = reserved[o] /\ o \in call[c].utxos
    /\ \A r \in reservations : o \in r.utxos => reserved[o] = r.id
    /\ \A x \in releasing : x.pc = "cancel" /\ o \in x.res.utxos => reserved[o] = x.res.id
    /\ \A c \in Caller : call[c].pc = "save" /\ o \in call[c].utxos => reserved[o] = call[c].rid

\* A token is in use in one place, and the group knows it.
TokenInv ==
  /\ \A c \in Caller : Busy(c) /\ call[c].token # None => group[call[c].token] # None
  /\ \A c, d \in Caller :
       Busy(c) /\ Busy(d) /\ call[c].token # None /\ call[c].token = call[d].token => c = d
  /\ \A r \in reservations : r.token # None =>
       /\ group[r.token] # None
       /\ \A c \in Caller : Busy(c) => call[c].token # r.token
       /\ \A s \in reservations : r.token = s.token => r = s
  /\ \A x \in releasing : x.res.token # None =>
       /\ group[x.res.token] # None
       /\ \A c \in Caller : Busy(c) => call[c].token # x.res.token
       /\ \A r \in reservations : r.token # x.res.token
       /\ \A y \in releasing : x.res.token = y.res.token => x = y

-----------------------------------------------------------------------------
(* Types.                                                                  *)

LEMMA IdleType == Idle \in Call /\ Idle.pc = "idle" /\ Idle.of = None
BY Zenon DEF Idle, Call, Pc

\* The end of Once resets whole calls.
LEMMA FinishType ==
  ASSUME TypeOK, NEW c \in Caller, NEW ok \in BOOLEAN, Finish(c, ok)
  PROVE  /\ call' \in [Caller -> Call]
         /\ group' \in [Token -> [by : Caller \cup {None}] \cup {None}]
<1>1. call[c].token \in Token \cup {None} BY Zenon DEF TypeOK, Call
<1>2. call' \in [Caller -> Call] BY IdleType, Zenon DEF TypeOK, Finish
<1>3. group' \in [Token -> [by : Caller \cup {None}] \cup {None}]
  BY <1>1, Zenon DEF TypeOK, Finish
<1> QED BY <1>2, <1>3, Zenon

LEMMA OnceType ==
  ASSUME TypeOK, NEW c \in Caller, NEW t \in Token \cup {None}, Once(c, t)
  PROVE  group' \in [Token -> [by : Caller \cup {None}] \cup {None}]
BY Zenon DEF TypeOK, Once

\* A changed call is a call.
LEMMA CallType ==
  ASSUME TypeOK, NEW c \in Caller
  PROVE  /\ \A pc \in Pc : [call EXCEPT ![c].pc = pc] \in [Caller -> Call]
         /\ \A pc \in Pc, U \in SUBSET Output :
              [call EXCEPT ![c].pc = pc, ![c].utxos = U] \in [Caller -> Call]
         /\ \A k \in Call : [call EXCEPT ![c] = k] \in [Caller -> Call]
<1>1. call[c] \in Call /\ call \in [Caller -> Call] BY Zenon DEF TypeOK
<1>2. \A pc \in Pc : [call[c] EXCEPT !.pc = pc] \in Call BY <1>1, Zenon DEF Call
<1>3. \A pc \in Pc, U \in SUBSET Output : [call[c] EXCEPT !.pc = pc, !.utxos = U] \in Call
  BY <1>1, Zenon DEF Call
<1> QED BY <1>1, <1>2, <1>3, Zenon

LEMMA InitType == Init => TypeOK
BY IdleType, ReserverAssumption DEF Init, TypeOK

LEMMA BlockchainType == ASSUME TypeOK, Blockchain PROVE TypeOK'
<1>1. ASSUME NEW new \in SUBSET Output, NEW spent \in SUBSET Output, NewBlock(new, spent)
      PROVE  TypeOK'
  BY <1>1 DEF NewBlock, TypeOK, sourceVars
<1>2. CASE SetState BY <1>2, Zenon DEF SetState, TypeOK, sourceVars
<1>3. CASE MovePin BY <1>3 DEF MovePin, TypeOK, sourceVars
<1>4. ASSUME NEW h \in 1 .. MaxTip, IndexBlock(h) PROVE TypeOK'
  BY <1>4, Zenon DEF IndexBlock, TypeOK, sourceVars
<1>5. ASSUME NEW h \in 1 .. MaxTip, DeleteSpent(h) PROVE TypeOK'
  BY <1>5, Zenon DEF DeleteSpent, TypeOK, sourceVars
<1> QED BY <1>1, <1>2, <1>3, <1>4, <1>5, Zenon DEF Blockchain

LEMMA BeginType == ASSUME TypeOK, NEW c \in Caller, Begin(c) PROVE TypeOK'
<1>1. ASSUME NEW t \in Token \cup {None}, NEW want \in Want, BeginReserve(c, want, t)
      PROVE  TypeOK'
  <2>1. [Idle EXCEPT !.pc = "first", !.want = want, !.token = t, !.rid = nextRid] \in Call
    BY <1>1, ReserverAssumption, Zenon DEF Idle, Call, Pc, TypeOK
  <2>2. call' \in [Caller -> Call] BY <1>1, <2>1, CallType, Zenon DEF BeginReserve
  <2> QED BY <1>1, <2>2, OnceType DEF BeginReserve, TypeOK, blockVars, sourceVars
<1>2. ASSUME NEW t \in Token \cup {None}, NEW o \in Output, BeginOutput(c, o, t)
      PROVE  TypeOK'
  <2>1. [Idle EXCEPT !.pc = "find", !.utxos = {o}, !.token = t] \in Call
    BY <1>2, Zenon DEF Idle, Call, Pc
  <2>2. call' \in [Caller -> Call] BY <1>2, <2>1, CallType, Zenon DEF BeginOutput
  <2> QED BY <1>2, <2>2, OnceType, Zenon DEF BeginOutput, TypeOK, blockVars, sourceVars
<1>3. ASSUME NEW t \in Token, WaitOnce(c, t) PROVE TypeOK'
  <2>1. group[t].by \in Caller BY <1>3, Zenon DEF WaitOnce, TypeOK
  <2>2. [Idle EXCEPT !.pc = "wait", !.of = group[t].by] \in Call
    BY <2>1, Zenon DEF Idle, Call, Pc
  <2>3. call' \in [Caller -> Call] BY <1>3, <2>2, CallType, Zenon DEF WaitOnce
  <2> QED BY <1>3, <2>3, Zenon DEF WaitOnce, TypeOK, blockVars, sourceVars
<1> QED BY <1>1, <1>2, <1>3, Zenon DEF Begin

LEMMA StepType == ASSUME TypeOK, NEW c \in Caller, Step(c) PROVE TypeOK'
<1> USE DEF blockVars, sourceVars
<1>0. call[c] \in Call BY Zenon DEF TypeOK
<1>1. CASE Find(c)
  <2>1. [call[c] EXCEPT !.pc = "one", !.rid = nextRid] \in Call
    BY <1>0, Zenon DEF Call, Pc, TypeOK
  <2>2. CASE Finish(c, FALSE) /\ UNCHANGED nextRid
    BY <1>1, <2>2, FinishType, Zenon DEF Find, TypeOK
  <2>3. CASE call' = [call EXCEPT ![c].pc = "one", ![c].rid = nextRid] /\ nextRid' = nextRid + 1 /\ UNCHANGED group
    BY <1>1, <2>1, <2>3 DEF Find, TypeOK
  <2> QED BY <1>1, <2>2, <2>3, Zenon DEF Find
<1>2. CASE ReserveOne(c)
  <2>1. call[c].utxos \in SUBSET Output /\ call[c].rid \in Nat BY <1>0, Zenon DEF Call
  <2>2. CASE Finish(c, FALSE) /\ UNCHANGED reserved
    BY <1>2, <2>2, FinishType, Zenon DEF ReserveOne, TypeOK
  <2>3. CASE Mark(c, call[c].utxos) /\ UNCHANGED group
    <3>1. call' \in [Caller -> Call] BY <2>1, <2>3, CallType, Zenon DEF Mark, Pc
    <3>2. reserved' \in [Output -> Nat] BY <2>1, <2>3, Zenon DEF Mark, TypeOK
    <3> QED BY <1>2, <2>3, <3>1, <3>2, Zenon DEF ReserveOne, TypeOK
  <2> QED BY <1>2, <2>2, <2>3, Zenon DEF ReserveOne
<1>3. CASE ReserveCached(c)
  <2>1. PICK U \in SUBSET cached, D \in SUBSET cached : Mark(c, U) /\ cached' = cached \ D
    BY <1>3, Zenon DEF ReserveCached
  <2>2. U \in SUBSET Output /\ call[c].rid \in Nat BY <1>0, <2>1, Zenon DEF Call, TypeOK
  <2>3. call' \in [Caller -> Call] BY <2>1, <2>2, CallType, Zenon DEF Mark, Pc
  <2>4. reserved' \in [Output -> Nat] BY <2>1, <2>2, Zenon DEF Mark, TypeOK
  <2> QED BY <1>3, <2>1, <2>3, <2>4, Zenon DEF ReserveCached, TypeOK
<1>4. CASE ReserveMisses(c)
  <2>1. CASE Finish(c, FALSE) BY <1>4, <2>1, FinishType, Zenon DEF ReserveMisses, TypeOK
  <2>2. CASE Goto(c, "refill") /\ UNCHANGED group
    <3>1. call' \in [Caller -> Call] BY <2>2, CallType, Zenon DEF Goto, Pc
    <3> QED BY <1>4, <2>2, <3>1, Zenon DEF ReserveMisses, TypeOK
  <2> QED BY <1>4, <2>1, <2>2, Zenon DEF ReserveMisses
<1>5. CASE RefillHeights(c)
  <2>1. [call[c] EXCEPT !.pc = "query", !.last = lastHeight, !.cur = pin] \in Call
    BY <1>0, Zenon DEF Call, Pc, TypeOK
  <2>2. CASE call' = [call EXCEPT ![c].pc = "query", ![c].last = lastHeight, ![c].cur = pin]
    BY <1>5, <2>1, <2>2, Zenon DEF RefillHeights, TypeOK
  <2>3. CASE Goto(c, "second")
    <3>1. call' \in [Caller -> Call] BY <2>3, CallType, Zenon DEF Goto, Pc
    <3> QED BY <1>5, <3>1, Zenon DEF RefillHeights, TypeOK
  <2> QED BY <1>5, <2>2, <2>3, Zenon DEF RefillHeights
<1>6. CASE RefillQuery(c)
  <2> DEFINE found == {o \in rows : born[o] > call[c].last}
  <2>1. found \in SUBSET Output BY Zenon DEF TypeOK
  <2> HIDE DEF found
  <2>2. CASE Finish(c, FALSE) BY <1>6, <2>2, FinishType, Zenon DEF RefillQuery, TypeOK
  <2>3. CASE call' = [call EXCEPT ![c].pc = "store", ![c].utxos = found] /\ UNCHANGED group
    <3>1. call' \in [Caller -> Call] BY <2>1, <2>3, CallType, Zenon DEF Pc
    <3> QED BY <1>6, <2>3, <3>1, Zenon DEF RefillQuery, TypeOK
  <2> QED BY <1>6, <2>2, <2>3, Zenon DEF RefillQuery, found
<1>7. CASE RefillStore(c)
  <2>1. call[c].utxos \in SUBSET Output /\ call[c].cur \in Nat BY <1>0, Zenon DEF Call
  <2>2. call' \in [Caller -> Call] BY <1>7, CallType, Zenon DEF RefillStore, Pc
  <2> QED BY <1>7, <2>1, <2>2, Zenon DEF RefillStore, TypeOK
<1>8. CASE Save(c)
  <2>1. Reservation(c) \in Held BY <1>0, Zenon DEF Reservation, Held, Call
  <2>2. call' \in [Caller -> Call] BY <1>8, CallType, Zenon DEF Save, Goto, Pc
  <2> QED BY <1>8, <2>1, <2>2, Zenon DEF Save, TypeOK
<1>9. CASE Return(c) BY <1>9, FinishType, Zenon DEF Return, TypeOK
<1> QED BY <1>1, <1>2, <1>3, <1>4, <1>5, <1>6, <1>7, <1>8, <1>9, Zenon DEF Step

LEMMA ReleasesType == ASSUME TypeOK, Releases PROVE TypeOK'
<1> USE DEF blockVars, sourceVars
<1>1. ASSUME NEW r \in reservations, Release(r) PROVE TypeOK'
  <2>1. [res |-> r, pc |-> "cancel"] \in [res : Held, pc : {"cancel", "forget"}]
    BY Zenon DEF TypeOK
  <2> QED BY <1>1, <2>1, Zenon DEF Release, TypeOK
<1>2. ASSUME NEW x \in releasing, Cancel(x) PROVE TypeOK'
  <2>1. [x EXCEPT !.pc = "forget"] \in [res : Held, pc : {"cancel", "forget"}]
    BY Zenon DEF TypeOK
  <2> QED BY <1>2, <2>1, Zenon DEF Cancel, TypeOK
<1>3. ASSUME NEW x \in releasing, Forget(x) PROVE TypeOK'
  <2>1. x.res.token \in Token \cup {None} BY Zenon DEF TypeOK, Held
  <2> QED BY <1>3, <2>1, Zenon DEF Forget, TypeOK
<1> QED BY <1>1, <1>2, <1>3, Zenon DEF Releases

LEMMA NextType == TypeOK /\ [Next]_vars => TypeOK'
<1> SUFFICES ASSUME TypeOK, [Next]_vars PROVE TypeOK' BY Zenon
<1>1. CASE UNCHANGED vars BY <1>1, Zenon DEF vars, blockVars, sourceVars, TypeOK
<1>2. CASE Next BY <1>2, BlockchainType, BeginType, StepType, ReleasesType, Zenon DEF Next
<1> QED BY <1>1, <1>2, Zenon

(***************************************************************************)
(* Every state of the reserver is well typed.                              *)
(***************************************************************************)
THEOREM ReserverTypeOK == Spec => []TypeOK
BY InitType, NextType, PTL DEF Spec

-----------------------------------------------------------------------------
(* What a step of caller c does to the calls.                              *)

Inv == TypeOK /\ WaitInv /\ IdInv /\ OwnedInv /\ TokenInv

\* The other callers stay as they are, or return from waiting for c.
Others(c) ==
  \A d \in Caller \ {c} :
    call'[d] = call[d] \/ (call[d].pc = "wait" /\ call'[d].pc = "idle" /\ call'[d].of = None)

LEMMA FinishFacts ==
  ASSUME TypeOK, WaitInv, NEW c \in Caller, NEW ok \in BOOLEAN, Finish(c, ok)
  PROVE  /\ Others(c)
         /\ call'[c].pc = "idle" /\ call'[c].of = None
         /\ ok => \A t \in Token : group[t] # None => group'[t] # None
         /\ ~ok => \A t \in Token : t # call[c].token => group'[t] = group[t]
<1>1. call'[c].pc = "idle" /\ call'[c].of = None BY IdleType, Zenon DEF Finish
<1>2. Others(c) BY IdleType, Zenon DEF Others, Finish, WaitInv
<1>3. ok => \A t \in Token : group[t] # None => group'[t] # None
  BY ReserverAssumption DEF Finish, TypeOK
<1>4. ~ok => \A t \in Token : t # call[c].token => group'[t] = group[t]
  BY Zenon DEF Finish, TypeOK
<1> QED BY <1>1, <1>2, <1>3, <1>4, Zenon

LEMMA WaitStep ==
  ASSUME TypeOK, WaitInv, NEW c \in Caller, Others(c),
         call'[c].of \in Caller => call'[c].pc = "wait"
  PROVE  WaitInv'
BY ReserverAssumption, Zenon DEF WaitInv, Others

\* The step keeps c's reservation ID, gives it up, or takes the next one.
LEMMA IdStep ==
  ASSUME TypeOK, IdInv, NEW c \in Caller, Others(c),
         UNCHANGED <<reservations, releasing>>, nextRid' \in {nextRid, nextRid + 1},
         HasRid(c)' => \/ HasRid(c) /\ call'[c].rid = call[c].rid
                       \/ nextRid' = nextRid + 1 /\ call'[c].rid = nextRid
  PROVE  IdInv'
<1>0. nextRid \in Nat \ {0} BY Zenon DEF TypeOK
<1>1. \A d \in Caller \ {c} : HasRid(d)' => HasRid(d) /\ call'[d].rid = call[d].rid
  BY Zenon DEF Others, HasRid
<1>2. \A d \in Caller : HasRid(d)' => call'[d].rid \in 1 .. nextRid' - 1
  BY <1>0, <1>1 DEF IdInv
<1>3. \A d, e \in Caller : HasRid(d)' /\ HasRid(e)' /\ call'[d].rid = call'[e].rid => d = e
  BY <1>0, <1>1 DEF IdInv
<1>4. \A r \in reservations :
       /\ r.id \in 1 .. nextRid' - 1
       /\ \A d \in Caller : HasRid(d)' => call'[d].rid # r.id
  BY <1>0, <1>1 DEF IdInv
<1>5. \A x \in releasing :
       /\ x.res.id \in 1 .. nextRid' - 1
       /\ \A d \in Caller : HasRid(d)' => call'[d].rid # x.res.id
       /\ \A r \in reservations : r.id # x.res.id
  BY <1>0, <1>1 DEF IdInv
<1> QED BY <1>2, <1>3, <1>4, <1>5, Zenon DEF IdInv

\* No output is marked or unmarked.
LEMMA OwnedStep ==
  ASSUME TypeOK, OwnedInv, NEW c \in Caller, Others(c),
         UNCHANGED <<reserved, reservations, releasing>>,
         call[c].pc # "save", call'[c].pc # "save"
  PROVE  OwnedInv'
<1>1. \A d \in Caller : (call[d].pc = "save" \/ call'[d].pc = "save") => call'[d] = call[d]
  BY Zenon DEF Others
<1> QED BY <1>1 DEF OwnedInv

\* c keeps its token, or is no longer busy with it; the group forgets none.
LEMMA TokenKept ==
  ASSUME TypeOK, TokenInv, NEW c \in Caller, Others(c),
         UNCHANGED <<reservations, releasing>>,
         Busy(c)' => Busy(c) /\ call'[c].token = call[c].token,
         \A t \in Token : group[t] # None => group'[t] # None
  PROVE  TokenInv'
<1>1. \A d \in Caller : Busy(d)' => Busy(d) /\ call'[d].token = call[d].token
  BY Zenon DEF Others, Busy, HasRid
<1>2. \A d \in Caller : call[d].token \in Token \cup {None} BY Zenon DEF TypeOK, Call
<1>3. \A r \in reservations : r.token \in Token \cup {None} BY Zenon DEF TypeOK, Held
<1>4. \A x \in releasing : x.res.token \in Token \cup {None} BY Zenon DEF TypeOK, Held
<1> QED BY <1>1, <1>2, <1>3, <1>4 DEF TokenInv

\* c fails and the group forgets its token.
LEMMA TokenDropped ==
  ASSUME TypeOK, TokenInv, NEW c \in Caller, Others(c),
         UNCHANGED <<reservations, releasing>>,
         Busy(c), ~Busy(c)',
         \A t \in Token : t # call[c].token => group'[t] = group[t]
  PROVE  TokenInv'
<1>1. \A d \in Caller : Busy(d)' => d # c /\ Busy(d) /\ call'[d].token = call[d].token
  BY Zenon DEF Others, Busy, HasRid
<1>2. \A d \in Caller : call[d].token \in Token \cup {None} BY Zenon DEF TypeOK, Call
<1>3. \A r \in reservations : r.token \in Token \cup {None} BY Zenon DEF TypeOK, Held
<1>4. \A x \in releasing : x.res.token \in Token \cup {None} BY Zenon DEF TypeOK, Held
<1> QED BY <1>1, <1>2, <1>3, <1>4 DEF TokenInv

\* c starts with a token that the group does not know.
LEMMA TokenTaken ==
  ASSUME TypeOK, TokenInv, NEW c \in Caller, NEW t \in Token \cup {None},
         \A d \in Caller \ {c} : call'[d] = call[d],
         UNCHANGED <<reservations, releasing>>,
         Once(c, t), call'[c].token = t
  PROVE  TokenInv'
<1>1. \A d \in Caller : call[d].token \in Token \cup {None} BY Zenon DEF TypeOK, Call
<1>2. \A r \in reservations : r.token \in Token \cup {None} BY Zenon DEF TypeOK, Held
<1>3. \A x \in releasing : x.res.token \in Token \cup {None} BY Zenon DEF TypeOK, Held
<1>4. \A u \in Token : u # t => group'[u] = group[u] BY Zenon DEF Once, TypeOK
<1>5. t # None => group[t] = None /\ group'[t] # None
  BY ReserverAssumption DEF Once, TypeOK
<1>6. \A d \in Caller \ {c} : Busy(d)' => Busy(d) /\ call'[d].token = call[d].token
  BY Zenon DEF Busy, HasRid
<1> QED BY <1>1, <1>2, <1>3, <1>4, <1>5, <1>6 DEF TokenInv

\* Unmarked outputs are marked with c's ID.
LEMMA MarkStep ==
  ASSUME TypeOK, IdInv, OwnedInv, NEW c \in Caller, HasRid(c), call[c].pc # "save",
         NEW U \in SUBSET Output, \A o \in U : reserved[o] = 0, Mark(c, U),
         UNCHANGED <<reservations, releasing>>
  PROVE  OwnedInv'
<1>1. call[c].rid # 0 BY DEF IdInv, TypeOK
<1>2. call'[c].pc = "save" /\ call'[c].rid = call[c].rid /\ call'[c].utxos = U
  BY Zenon DEF Mark, TypeOK, Call
<1>3. \A d \in Caller \ {c} : call'[d] = call[d] BY Zenon DEF Mark, TypeOK
<1>4. \A o \in Output : reserved'[o] = IF o \in U THEN call[c].rid ELSE reserved[o]
  BY Zenon DEF Mark
<1>5. \A r \in reservations : r.id # 0 BY DEF IdInv, TypeOK
<1>6. \A x \in releasing : x.res.id # 0 BY DEF IdInv, TypeOK
<1>7. \A d \in Caller : call[d].pc = "save" => call[d].rid # 0
  BY DEF IdInv, TypeOK, HasRid
<1>8. ASSUME NEW o \in Output, reserved'[o] # 0
      PROVE  \/ \E r \in reservations : r.id = reserved'[o] /\ o \in r.utxos
             \/ \E x \in releasing : x.pc = "cancel" /\ x.res.id = reserved'[o] /\ o \in x.res.utxos
             \/ \E d \in Caller : call'[d].pc = "save" /\ call'[d].rid = reserved'[o] /\ o \in call'[d].utxos
  <2>1. CASE o \in U BY <1>2, <1>4, <2>1, Zenon
  <2>2. CASE o \notin U BY <1>3, <1>4, <1>8, <2>2 DEF OwnedInv
  <2> QED BY <2>1, <2>2, Zenon
<1>9. ASSUME NEW o \in Output
      PROVE  /\ \A r \in reservations : o \in r.utxos => reserved'[o] = r.id
             /\ \A x \in releasing : x.pc = "cancel" /\ o \in x.res.utxos => reserved'[o] = x.res.id
             /\ \A d \in Caller : call'[d].pc = "save" /\ o \in call'[d].utxos => reserved'[o] = call'[d].rid
  BY <1>2, <1>3, <1>4, <1>5, <1>6, <1>7 DEF OwnedInv
<1> QED BY <1>8, <1>9, Zenon DEF OwnedInv

-----------------------------------------------------------------------------
(* The invariant, action by action.                                        *)

LEMMA InitInv == Init => Inv
<1> SUFFICES ASSUME Init PROVE Inv BY Zenon
<1>1. \A c \in Caller : call[c].pc = "idle" /\ call[c].of = None BY IdleType, Zenon DEF Init
<1>2. TypeOK BY InitType, Zenon
<1>3. WaitInv BY <1>1, ReserverAssumption, Zenon DEF WaitInv
<1>4. IdInv BY <1>1, Zenon DEF Init, IdInv, HasRid
<1>5. OwnedInv BY <1>1, Zenon DEF Init, OwnedInv
<1>6. TokenInv BY <1>1, Zenon DEF Init, TokenInv, Busy, HasRid
<1> QED BY <1>2, <1>3, <1>4, <1>5, <1>6, Zenon DEF Inv

LEMMA SameInv ==
  ASSUME Inv, TypeOK', UNCHANGED <<reserved, nextRid, reservations, releasing, group, call>>
  PROVE  Inv'
BY DEF Inv, WaitInv, IdInv, OwnedInv, TokenInv, HasRid, Busy

LEMMA BlockchainInv == ASSUME Inv, Blockchain PROVE Inv'
<1>1. TypeOK' BY BlockchainType, Zenon DEF Inv
<1>2. UNCHANGED <<reserved, nextRid, reservations, releasing, group, call>>
  BY Zenon DEF Blockchain, NewBlock, SetState, MovePin, IndexBlock, DeleteSpent, sourceVars
<1> QED BY <1>1, <1>2, SameInv, Zenon

LEMMA BeginInv == ASSUME Inv, NEW c \in Caller, Begin(c) PROVE Inv'
<1> USE DEF Inv
<1>0. TypeOK' BY BeginType, Zenon
<1>1. ASSUME NEW t \in Token \cup {None}, NEW want \in Want, BeginReserve(c, want, t)
      PROVE  Inv'
  <2>1. /\ call[c].pc = "idle" /\ call'[c].pc = "first" /\ call'[c].of = None
        /\ call'[c].token = t /\ call'[c].rid = nextRid /\ nextRid' = nextRid + 1
    BY <1>1, Zenon DEF BeginReserve, Once, Idle, TypeOK
  <2>2. \A d \in Caller \ {c} : call'[d] = call[d] BY <1>1, Zenon DEF BeginReserve, TypeOK
  <2>3. Others(c) BY <2>2, Zenon DEF Others
  <2>4. UNCHANGED <<reserved, reservations, releasing>> /\ Once(c, t)
    BY <1>1, Zenon DEF BeginReserve, sourceVars
  <2>5. WaitInv' BY <2>1, <2>3, WaitStep, ReserverAssumption, Zenon
  <2>6. IdInv' BY <2>1, <2>3, <2>4, IdStep, Zenon
  <2>7. OwnedInv' BY <2>1, <2>3, <2>4, OwnedStep, Zenon
  <2>8. TokenInv' BY <2>1, <2>2, <2>4, TokenTaken, Zenon
  <2> QED BY <1>0, <2>5, <2>6, <2>7, <2>8, Zenon
<1>2. ASSUME NEW t \in Token \cup {None}, NEW o \in Output, BeginOutput(c, o, t)
      PROVE  Inv'
  <2>1. /\ call[c].pc = "idle" /\ call'[c].pc = "find" /\ call'[c].of = None
        /\ call'[c].token = t /\ nextRid' = nextRid
    BY <1>2, Zenon DEF BeginOutput, Once, Idle, TypeOK
  <2>2. \A d \in Caller \ {c} : call'[d] = call[d] BY <1>2, Zenon DEF BeginOutput, TypeOK
  <2>3. Others(c) BY <2>2, Zenon DEF Others
  <2>4. UNCHANGED <<reserved, reservations, releasing>> /\ Once(c, t)
    BY <1>2, Zenon DEF BeginOutput, sourceVars
  <2>5. WaitInv' BY <2>1, <2>3, WaitStep, ReserverAssumption, Zenon
  <2>6. ~HasRid(c)' BY <2>1, Zenon DEF HasRid
  <2>7. IdInv' BY <2>1, <2>3, <2>4, <2>6, IdStep, Zenon
  <2>8. OwnedInv' BY <2>1, <2>3, <2>4, OwnedStep, Zenon
  <2>9. TokenInv' BY <2>1, <2>2, <2>4, TokenTaken, Zenon
  <2> QED BY <1>0, <2>5, <2>7, <2>8, <2>9, Zenon
<1>3. ASSUME NEW t \in Token, WaitOnce(c, t) PROVE Inv'
  <2>1. call[c].pc = "idle" /\ call'[c].pc = "wait" /\ nextRid' = nextRid
    BY <1>3, Zenon DEF WaitOnce, Idle, TypeOK
  <2>2. Others(c) BY <1>3, Zenon DEF WaitOnce, Others, TypeOK
  <2>3. UNCHANGED <<reserved, reservations, releasing, group>> BY <1>3, Zenon DEF WaitOnce, sourceVars
  <2>4. WaitInv' BY <2>1, <2>2, WaitStep, Zenon
  <2>5. ~HasRid(c)' /\ ~Busy(c)' BY <2>1, Zenon DEF HasRid, Busy
  <2>6. IdInv' BY <2>1, <2>2, <2>3, <2>5, IdStep, Zenon
  <2>7. OwnedInv' BY <2>1, <2>2, <2>3, OwnedStep, Zenon
  <2>8. TokenInv' BY <2>2, <2>3, <2>5, TokenKept, Zenon
  <2> QED BY <1>0, <2>4, <2>6, <2>7, <2>8, Zenon
<1> QED BY <1>1, <1>2, <1>3, Zenon DEF Begin

\* A busy call fails.
LEMMA FailInv ==
  ASSUME Inv, TypeOK', NEW c \in Caller, Busy(c), call[c].pc # "save", Finish(c, FALSE),
         UNCHANGED <<reserved, nextRid, reservations, releasing>>
  PROVE  Inv'
<1> USE DEF Inv
<1>1. /\ Others(c) /\ call'[c].pc = "idle" /\ call'[c].of = None
      /\ \A t \in Token : t # call[c].token => group'[t] = group[t]
  BY FinishFacts, Zenon
<1>2. ~HasRid(c)' /\ ~Busy(c)' BY <1>1, Zenon DEF HasRid, Busy
<1>3. WaitInv' BY <1>1, WaitStep, ReserverAssumption, Zenon
<1>4. IdInv' BY <1>1, <1>2, IdStep, Zenon
<1>5. OwnedInv' BY <1>1, OwnedStep, Zenon
<1>6. TokenInv' BY <1>1, <1>2, TokenDropped, Zenon
<1> QED BY <1>3, <1>4, <1>5, <1>6, Zenon

\* A busy call goes on, with the ID it has or the next one.
LEMMA GoOnInv ==
  ASSUME Inv, TypeOK', NEW c \in Caller, Busy(c), call[c].pc # "save", call'[c].pc # "save",
         \A d \in Caller \ {c} : call'[d] = call[d],
         call'[c].token = call[c].token, call'[c].of = call[c].of,
         nextRid' \in {nextRid, nextRid + 1},
         \/ HasRid(c) /\ call'[c].rid = call[c].rid
         \/ nextRid' = nextRid + 1 /\ call'[c].rid = nextRid,
         UNCHANGED <<reserved, reservations, releasing, group>>
  PROVE  Inv'
<1> USE DEF Inv
<1>1. Others(c) BY Zenon DEF Others
<1>2. call[c].of \notin Caller BY Zenon DEF WaitInv, Busy, HasRid
<1>3. WaitInv' BY <1>1, <1>2, WaitStep, Zenon
<1>4. IdInv' BY <1>1, IdStep, Zenon
<1>5. OwnedInv' BY <1>1, OwnedStep, Zenon
<1>6. TokenInv' BY <1>1, TokenKept, Zenon
<1> QED BY <1>3, <1>4, <1>5, <1>6, Zenon

\* A call marks the outputs it has found.
LEMMA MarkInv ==
  ASSUME Inv, TypeOK', NEW c \in Caller, HasRid(c), call[c].pc # "save",
         NEW U \in SUBSET Output, \A o \in U : reserved[o] = 0, Mark(c, U),
         UNCHANGED <<nextRid, reservations, releasing, group>>
  PROVE  Inv'
<1> USE DEF Inv
<1>1. Others(c) BY Zenon DEF Others, Mark, TypeOK
<1>2. /\ call'[c].rid = call[c].rid /\ call'[c].of = call[c].of
      /\ call'[c].token = call[c].token
  BY DEF Mark, TypeOK, Call
<1>3. call[c].of \notin Caller BY Zenon DEF WaitInv, HasRid
<1>4. WaitInv' BY <1>1, <1>2, <1>3, WaitStep, Zenon
<1>5. IdInv' BY <1>1, <1>2, IdStep, Zenon
<1>6. OwnedInv' BY MarkStep, Zenon
<1>7. Busy(c) BY Zenon DEF Busy
<1>8. TokenInv' BY <1>1, <1>2, <1>7, TokenKept, Zenon
<1> QED BY <1>4, <1>5, <1>6, <1>8, Zenon

LEMMA SaveInv == ASSUME Inv, NEW c \in Caller, Save(c) PROVE Inv'
<1> USE DEF Inv
<1>0. TypeOK' BY StepType, Zenon DEF Step
<1> DEFINE r0 == Reservation(c)
<1>1. r0.id = call[c].rid /\ r0.utxos = call[c].utxos /\ r0.token = call[c].token
  BY Zenon DEF Reservation
<1> HIDE DEF r0
<1>2. /\ call[c].pc = "save" /\ reservations' = reservations \cup {r0}
      /\ UNCHANGED <<reserved, nextRid, releasing, group>>
  BY Zenon DEF Save, sourceVars, r0
<1>3. /\ call'[c].pc = "return" /\ call'[c].of = call[c].of
      /\ \A d \in Caller \ {c} : call'[d] = call[d]
  BY Zenon DEF Save, Goto, TypeOK, Call
<1>4. Others(c) BY <1>3, Zenon DEF Others
<1>5. WaitInv' BY <1>2, <1>3, <1>4, WaitStep, Zenon DEF WaitInv
<1>6. HasRid(c) /\ Busy(c) /\ ~HasRid(c)' /\ ~Busy(c)' BY <1>2, <1>3, Zenon DEF HasRid, Busy
<1>7. \A d \in Caller : HasRid(d)' => d # c /\ HasRid(d) /\ call'[d] = call[d]
  BY <1>3, <1>6, Zenon DEF HasRid
<1>8. \A d \in Caller : Busy(d)' => d # c /\ Busy(d) /\ call'[d] = call[d]
  BY <1>3, <1>6, Zenon DEF HasRid, Busy
<1>9. IdInv' BY <1>1, <1>2, <1>6, <1>7 DEF IdInv
<1>10. OwnedInv'
  <2>1. ASSUME NEW o \in Output, reserved'[o] # 0
        PROVE  \/ \E r \in reservations' : r.id = reserved'[o] /\ o \in r.utxos
               \/ \E x \in releasing' : x.pc = "cancel" /\ x.res.id = reserved'[o] /\ o \in x.res.utxos
               \/ \E d \in Caller : call'[d].pc = "save" /\ call'[d].rid = reserved'[o] /\ o \in call'[d].utxos
    BY <1>1, <1>2, <1>3, <2>1 DEF OwnedInv
  <2>2. ASSUME NEW o \in Output
        PROVE  /\ \A r \in reservations' : o \in r.utxos => reserved'[o] = r.id
               /\ \A x \in releasing' : x.pc = "cancel" /\ o \in x.res.utxos => reserved'[o] = x.res.id
               /\ \A d \in Caller : call'[d].pc = "save" /\ o \in call'[d].utxos => reserved'[o] = call'[d].rid
    BY <1>1, <1>2, <1>3 DEF OwnedInv
  <2> QED BY <2>1, <2>2, Zenon DEF OwnedInv
<1>11. TokenInv' BY <1>1, <1>2, <1>6, <1>8 DEF TokenInv
<1> QED BY <1>0, <1>5, <1>9, <1>10, <1>11, Zenon

LEMMA ReturnInv == ASSUME Inv, NEW c \in Caller, Return(c) PROVE Inv'
<1> USE DEF Inv
<1>0. TypeOK' BY StepType, Zenon DEF Step
<1>1. /\ Others(c) /\ call'[c].pc = "idle" /\ call'[c].of = None
      /\ \A t \in Token : group[t] # None => group'[t] # None
  BY FinishFacts, Zenon DEF Return
<1>2. /\ call[c].pc = "return" /\ UNCHANGED <<reserved, nextRid, reservations, releasing>>
  BY Zenon DEF Return, sourceVars
<1>3. ~HasRid(c)' /\ ~Busy(c)' BY <1>1, Zenon DEF HasRid, Busy
<1>4. WaitInv' BY <1>1, WaitStep, ReserverAssumption, Zenon
<1>5. IdInv' BY <1>1, <1>2, <1>3, IdStep, Zenon
<1>6. OwnedInv' BY <1>1, <1>2, OwnedStep, Zenon
<1>7. TokenInv' BY <1>1, <1>2, <1>3, TokenKept, Zenon
<1> QED BY <1>0, <1>4, <1>5, <1>6, <1>7, Zenon

LEMMA StepInv == ASSUME Inv, NEW c \in Caller, Step(c) PROVE Inv'
<1> USE DEF sourceVars
<1>0. TypeOK' /\ TypeOK BY StepType, Zenon DEF Inv
<1>t. call[c] \in Call /\ call \in [Caller -> Call] BY <1>0, Zenon DEF TypeOK
<1>1. CASE Find(c)
  <2>1. Busy(c) /\ call[c].pc # "save" BY <1>1, Zenon DEF Find, Busy
  <2>2. UNCHANGED <<reserved, reservations, releasing>> BY <1>1, Zenon DEF Find
  <2>3. CASE Finish(c, FALSE) /\ UNCHANGED nextRid BY <1>0, <2>1, <2>2, <2>3, FailInv, Zenon
  <2>4. CASE call' = [call EXCEPT ![c].pc = "one", ![c].rid = nextRid] /\ nextRid' = nextRid + 1 /\ UNCHANGED group
    <3>1. /\ call'[c].pc = "one" /\ call'[c].rid = nextRid /\ call'[c].token = call[c].token
          /\ call'[c].of = call[c].of /\ \A d \in Caller \ {c} : call'[d] = call[d]
      BY <1>t, <2>4, Zenon DEF Call
    <3> QED BY <1>0, <2>1, <2>2, <2>4, <3>1, GoOnInv, Zenon
  <2> QED BY <1>1, <2>3, <2>4, Zenon DEF Find
<1>2. CASE ReserveOne(c)
  <2>1. HasRid(c) /\ Busy(c) /\ call[c].pc # "save" BY <1>2, Zenon DEF ReserveOne, Busy, HasRid
  <2>2. UNCHANGED <<nextRid, reservations, releasing>> BY <1>2, Zenon DEF ReserveOne
  <2>3. CASE Finish(c, FALSE) /\ UNCHANGED reserved BY <1>0, <2>1, <2>2, <2>3, FailInv, Zenon
  <2>4. CASE (\A o \in call[c].utxos : reserved[o] = 0) /\ Mark(c, call[c].utxos) /\ UNCHANGED group
    <3>1. call[c].utxos \in SUBSET Output BY <1>t, Zenon DEF Call
    <3> QED BY <1>0, <2>1, <2>2, <2>4, <3>1, MarkInv, Zenon
  <2> QED BY <1>2, <2>3, <2>4, Zenon DEF ReserveOne
<1>3. CASE ReserveCached(c)
  <2>1. HasRid(c) /\ call[c].pc # "save" BY <1>3, Zenon DEF ReserveCached, HasRid
  <2>2. PICK U \in SUBSET cached, D \in SUBSET cached : FromCache(call[c].want, U, D) /\ Mark(c, U)
    BY <1>3, Zenon DEF ReserveCached
  <2>3. U \in SUBSET Output BY <1>0, Zenon DEF TypeOK
  <2>4. \A o \in U : reserved[o] = 0 BY <2>2, Zenon DEF FromCache, Good, Free
  <2>5. UNCHANGED <<nextRid, reservations, releasing, group>> BY <1>3, Zenon DEF ReserveCached
  <2> QED BY <1>0, <2>1, <2>2, <2>3, <2>4, <2>5, MarkInv, Zenon
<1>4. CASE ReserveMisses(c)
  <2>1. HasRid(c) /\ Busy(c) /\ call[c].pc # "save" BY <1>4, Zenon DEF ReserveMisses, Busy, HasRid
  <2>2. UNCHANGED <<reserved, nextRid, reservations, releasing>> BY <1>4, Zenon DEF ReserveMisses
  <2>3. CASE Finish(c, FALSE) BY <1>0, <2>1, <2>2, <2>3, FailInv, Zenon
  <2>4. CASE Goto(c, "refill") /\ UNCHANGED group
    <3>1. /\ call'[c].pc = "refill" /\ call'[c].rid = call[c].rid /\ call'[c].token = call[c].token
          /\ call'[c].of = call[c].of /\ \A d \in Caller \ {c} : call'[d] = call[d]
      BY <1>t, <2>4, Zenon DEF Call, Goto
    <3> QED BY <1>0, <2>1, <2>2, <2>4, <3>1, GoOnInv, Zenon
  <2> QED BY <1>4, <2>3, <2>4, Zenon DEF ReserveMisses
<1>5. CASE RefillHeights(c)
  <2>1. HasRid(c) /\ Busy(c) /\ call[c].pc # "save" BY <1>5, Zenon DEF RefillHeights, Busy, HasRid
  <2>2. UNCHANGED <<reserved, nextRid, reservations, releasing, group>> BY <1>5, Zenon DEF RefillHeights
  <2>3. /\ call'[c].pc \in {"second", "query"} /\ call'[c].rid = call[c].rid
        /\ call'[c].token = call[c].token
        /\ call'[c].of = call[c].of /\ \A d \in Caller \ {c} : call'[d] = call[d]
    BY <1>t, <1>5 DEF RefillHeights, Goto, Call
  <2> QED BY <1>0, <2>1, <2>2, <2>3, GoOnInv, Zenon
<1>6. CASE RefillQuery(c)
  <2>1. HasRid(c) /\ Busy(c) /\ call[c].pc # "save" BY <1>6, Zenon DEF RefillQuery, Busy, HasRid
  <2>2. UNCHANGED <<reserved, nextRid, reservations, releasing>> BY <1>6, Zenon DEF RefillQuery
  <2>3. CASE Finish(c, FALSE) BY <1>0, <2>1, <2>2, <2>3, FailInv, Zenon
  <2> DEFINE found == {o \in rows : born[o] > call[c].last}
  <2> HIDE DEF found
  <2>4. CASE call' = [call EXCEPT ![c].pc = "store", ![c].utxos = found] /\ UNCHANGED group
    <3>1. /\ call'[c].pc = "store" /\ call'[c].rid = call[c].rid /\ call'[c].token = call[c].token
          /\ call'[c].of = call[c].of /\ \A d \in Caller \ {c} : call'[d] = call[d]
      BY <1>t, <2>4, Zenon DEF Call
    <3> QED BY <1>0, <2>1, <2>2, <2>4, <3>1, GoOnInv, Zenon
  <2> QED BY <1>6, <2>3, <2>4, Zenon DEF RefillQuery, found
<1>7. CASE RefillStore(c)
  <2>1. HasRid(c) /\ Busy(c) /\ call[c].pc # "save" BY <1>7, Zenon DEF RefillStore, Busy, HasRid
  <2>2. UNCHANGED <<reserved, nextRid, reservations, releasing, group>> BY <1>7, Zenon DEF RefillStore
  <2>3. /\ call'[c].pc = "second" /\ call'[c].rid = call[c].rid /\ call'[c].token = call[c].token
        /\ call'[c].of = call[c].of /\ \A d \in Caller \ {c} : call'[d] = call[d]
    BY <1>t, <1>7, Zenon DEF RefillStore, Call
  <2> QED BY <1>0, <2>1, <2>2, <2>3, GoOnInv, Zenon
<1> QED BY <1>1, <1>2, <1>3, <1>4, <1>5, <1>6, <1>7, SaveInv, ReturnInv, Zenon DEF Step

LEMMA ReleasesInv == ASSUME Inv, Releases PROVE Inv'
<1> USE DEF Inv, sourceVars
<1>0. TypeOK' BY ReleasesType, Zenon
<1>1. ASSUME NEW r \in reservations, Release(r) PROVE Inv'
  <2> DEFINE x0 == [res |-> r, pc |-> "cancel"]
  <2>1. x0.res = r /\ x0.pc = "cancel" BY Zenon
  <2> HIDE DEF x0
  <2>2. /\ reservations' = reservations \ {r} /\ releasing' = releasing \cup {x0}
        /\ UNCHANGED <<reserved, nextRid, group, call>>
    BY <1>1, Zenon DEF Release, x0
  <2>3. WaitInv' BY <2>2, Zenon DEF WaitInv
  <2>4. IdInv' BY <2>1, <2>2 DEF IdInv, HasRid
  <2>5. OwnedInv' BY <2>1, <2>2, Zenon DEF OwnedInv
  <2>6. TokenInv' BY <2>1, <2>2 DEF TokenInv, Busy, HasRid
  <2> QED BY <1>0, <2>3, <2>4, <2>5, <2>6, Zenon
<1>2. ASSUME NEW x \in releasing, Cancel(x) PROVE Inv'
  <2> DEFINE y == [x EXCEPT !.pc = "forget"]
  <2>1. y.res = x.res /\ y.pc = "forget" BY Zenon DEF TypeOK
  <2> HIDE DEF y
  <2>2. /\ x.pc = "cancel" /\ releasing' = (releasing \ {x}) \cup {y}
        /\ UNCHANGED <<nextRid, reservations, group, call>>
        /\ \A o \in Output : reserved'[o] = IF o \in x.res.utxos THEN 0 ELSE reserved[o]
    BY <1>2, Zenon DEF Cancel, y
  <2>3. WaitInv' BY <2>2, Zenon DEF WaitInv
  <2>4. IdInv' BY <2>1, <2>2 DEF IdInv, HasRid
  <2>5. OwnedInv'
    <3>1. \A d \in Caller : call[d].pc = "save" => call[d].rid # x.res.id
      BY Zenon DEF IdInv, HasRid
    <3>2. \A r \in reservations : r.id # x.res.id BY Zenon DEF IdInv
    <3>3. \A z \in releasing : z.res.id = x.res.id => z = x BY Zenon DEF IdInv
    <3>4. \A o \in x.res.utxos : o \in Output => reserved[o] = x.res.id BY <2>2, Zenon DEF OwnedInv
    <3>5. ASSUME NEW o \in Output, reserved'[o] # 0
          PROVE  \/ \E r \in reservations : r.id = reserved'[o] /\ o \in r.utxos
                 \/ \E z \in releasing' : z.pc = "cancel" /\ z.res.id = reserved'[o] /\ o \in z.res.utxos
                 \/ \E d \in Caller : call[d].pc = "save" /\ call[d].rid = reserved'[o] /\ o \in call[d].utxos
      BY <2>1, <2>2, <3>5 DEF OwnedInv
    <3>6. ASSUME NEW o \in Output
          PROVE  /\ \A r \in reservations : o \in r.utxos => reserved'[o] = r.id
                 /\ \A z \in releasing' : z.pc = "cancel" /\ o \in z.res.utxos => reserved'[o] = z.res.id
                 /\ \A d \in Caller : call[d].pc = "save" /\ o \in call[d].utxos => reserved'[o] = call[d].rid
      BY <2>1, <2>2, <3>1, <3>2, <3>3, <3>4 DEF OwnedInv
    <3> QED BY <2>2, <3>5, <3>6, Zenon DEF OwnedInv
  <2>6. TokenInv' BY <2>1, <2>2 DEF TokenInv, Busy, HasRid
  <2> QED BY <1>0, <2>3, <2>4, <2>5, <2>6, Zenon
<1>3. ASSUME NEW x \in releasing, Forget(x) PROVE Inv'
  <2>1. /\ x.pc = "forget" /\ releasing' = releasing \ {x}
        /\ UNCHANGED <<reserved, nextRid, reservations, call>>
    BY <1>3, Zenon DEF Forget
  <2>2. WaitInv' BY <2>1, Zenon DEF WaitInv
  <2>3. IdInv' BY <2>1, Zenon DEF IdInv, HasRid
  <2>4. OwnedInv' BY <2>1, Zenon DEF OwnedInv
  <2>5. TokenInv'
    <3>1. \A t \in Token : t # x.res.token => group'[t] = group[t]
      BY <1>3, Zenon DEF Forget, TypeOK
    <3>2. \A d \in Caller : call[d].token \in Token \cup {None} BY Zenon DEF TypeOK, Call
    <3>3. \A r \in reservations : r.token \in Token \cup {None} BY Zenon DEF TypeOK, Held
    <3>4. \A z \in releasing : z.res.token \in Token \cup {None} BY Zenon DEF TypeOK, Held
    <3> QED BY <2>1, <3>1, <3>2, <3>3, <3>4 DEF TokenInv, Busy, HasRid
  <2> QED BY <1>0, <2>2, <2>3, <2>4, <2>5, Zenon
<1> QED BY <1>1, <1>2, <1>3, Zenon DEF Releases

LEMMA NextInv == Inv /\ [Next]_vars => Inv'
<1> SUFFICES ASSUME Inv, [Next]_vars PROVE Inv' BY Zenon
<1>1. CASE UNCHANGED vars
  <2>1. TypeOK' BY <1>1, NextType, Zenon DEF Inv
  <2> QED BY <1>1, <2>1, SameInv, Zenon DEF vars, sourceVars
<1>2. CASE Next BY <1>2, BlockchainInv, BeginInv, StepInv, ReleasesInv, Zenon DEF Next
<1> QED BY <1>1, <1>2, Zenon

LEMMA OwnedImplies == TypeOK /\ OwnedInv => ReservedIsOwned
<1> SUFFICES ASSUME TypeOK, OwnedInv, NEW o \in Output
             PROVE  /\ reserved[o] # 0 => \E r \in Owners : r.id = reserved[o] /\ o \in r.utxos
                    /\ \A r \in Owners : o \in r.utxos => reserved[o] = r.id
  BY Zenon DEF ReservedIsOwned
<1>1. \A c \in Caller : /\ Reservation(c).id = call[c].rid
                         /\ Reservation(c).utxos = call[c].utxos
  BY Zenon DEF Reservation
<1>2. \A r \in reservations : r \in Owners BY Zenon DEF Owners
<1>3. \A x \in releasing : x.pc = "cancel" => x.res \in Owners BY Zenon DEF Owners
<1>4. \A c \in Caller : call[c].pc = "save" => Reservation(c) \in Owners BY Zenon DEF Owners
<1>5. reserved[o] # 0 => \E r \in Owners : r.id = reserved[o] /\ o \in r.utxos
  BY <1>1, <1>2, <1>3, <1>4 DEF OwnedInv
<1>6. ASSUME NEW r \in Owners, o \in r.utxos PROVE reserved[o] = r.id
  <2>1. \/ r \in reservations
        \/ \E x \in releasing : x.pc = "cancel" /\ r = x.res
        \/ \E c \in Caller : call[c].pc = "save" /\ r = Reservation(c)
    BY Zenon DEF Owners
  <2> QED BY <1>1, <1>6, <2>1 DEF OwnedInv
<1> QED BY <1>5, <1>6, Zenon

-----------------------------------------------------------------------------
(***************************************************************************)
(* An output is marked exactly while one reservation holds it, whatever    *)
(* the interleaving of reserve, ReserveUTXO, Cancel and                    *)
(* ExpireReservations.                                                     *)
(***************************************************************************)
THEOREM ReserverReservedIsOwned == Spec => []ReservedIsOwned
<1>1. Inv => ReservedIsOwned BY OwnedImplies, Zenon DEF Inv
<1> QED BY <1>1, InitInv, NextInv, PTL DEF Spec

(***************************************************************************)
(* Two reservations of a source never share an output.                     *)
(***************************************************************************)
THEOREM ReserverDisjoint == Spec => []ReservationsDisjoint
<1>1. Inv => ReservationsDisjoint
  BY DEF Inv, TypeOK, Held, OwnedInv, IdInv, ReservationsDisjoint
<1> QED BY <1>1, InitInv, NextInv, PTL DEF Spec

(***************************************************************************)
(* A client token has at most one reservation, however Once and Forget     *)
(* interleave.                                                             *)
(***************************************************************************)
THEOREM ReserverOnePerToken == Spec => []OnePerToken
<1>1. Inv => OnePerToken BY Zenon DEF Inv, TokenInv, OnePerToken
<1> QED BY <1>1, InitInv, NextInv, PTL DEF Spec

-----------------------------------------------------------------------------
\* Induction on the naturals, for a set instead of a predicate.
LEMMA Induct == ASSUME NEW S, 0 \in S, \A n \in Nat : n \in S => n + 1 \in S PROVE \A n \in Nat : n \in S
<1> DEFINE R == OpToRel(<, Nat)
           T == Nat \ S
<1> SUFFICES ASSUME T # {} PROVE FALSE BY Zenon
<1>1. IsWellFoundedOn(R, Nat)
  BY NatLessThanWellFounded, Zenon
<1>2. \A x, y \in Nat : <<x, y>> \in R <=> x < y
  BY Zenon DEF OpToRel
<1>3. T \subseteq Nat
  BY Zenon
<1> HIDE DEF R, T
<1>4. PICK m \in T : \A k \in T : ~(<<k, m>> \in R)
  BY <1>1, <1>3, WFMin, Zenon
<1>5. \A k \in T : ~(k < m)
  BY <1>2, <1>3, <1>4, Zenon
<1>6. m # 0 /\ m \in Nat /\ m \notin S
  BY Zenon DEF T
<1>7. m - 1 \in Nat /\ m - 1 < m /\ (m - 1) + 1 = m
  BY <1>6
<1> QED BY <1>5, <1>6, <1>7, Zenon DEF T

\* Induction on the subsets of a finite set, from what is left without one member.
LEMMA InductSets ==
  ASSUME NEW S, IsFiniteSet(S), NEW Q, {} \in Q,
         \A T \in SUBSET S : T # {} /\ (\A x \in T : T \ {x} \in Q) => T \in Q
  PROVE  \A T \in SUBSET S : T \in Q
<1> DEFINE N == {n \in Nat : \A T \in SUBSET S : Cardinality(T) = n => T \in Q}
<1>1. \A T \in SUBSET S : IsFiniteSet(T) /\ Cardinality(T) \in Nat
  BY FS_Subset, FS_CardinalityType, Zenon
<1>2. 0 \in N
  BY <1>1, FS_EmptySet, Zenon
<1>3. ASSUME NEW n \in Nat, n \in N PROVE n + 1 \in N
  <2> SUFFICES ASSUME NEW T \in SUBSET S, Cardinality(T) = n + 1 PROVE T \in Q
    OBVIOUS
  <2>1. T # {}
    BY FS_EmptySet
  <2>2. ASSUME NEW x \in T PROVE T \ {x} \in Q
    <3>1. Cardinality(T \ {x}) = Cardinality(T) - 1
      BY <1>1, FS_RemoveElement, Zenon
    <3> QED BY <1>3, <3>1
  <2> QED BY <2>1, <2>2, Zenon
<1>4. \A n \in Nat : n \in N
  <2> HIDE DEF N
  <2> QED BY <1>2, <1>3, Induct, Zenon
<1> QED BY <1>1, <1>4, Zenon

-----------------------------------------------------------------------------
(* Total is a sum.                                                         *)

One(T) == CHOOSE o \in T : TRUE
SumStep(g, T) == IF T = {} THEN 0 ELSE Amount[One(T)] + g[T \ {One(T)}]
IsSum(g, S) == g = [T \in SUBSET S |-> SumStep(g, T)]

LEMMA TotalIs == ASSUME NEW S PROVE Total(S) = (CHOOSE g : IsSum(g, S))[S]
BY Zenon DEF Total, MapThenSumSet, MapThenFoldSet, IsSum, SumStep, One

LEMMA OneOf == ASSUME NEW T, T # {} PROVE One(T) \in T
BY Zenon DEF One

\* The function that Total is defined by exists.
LEMMA SumExists == ASSUME NEW S, IsFiniteSet(S) PROVE \E g : IsSum(g, S)
<1> DEFINE N == {n \in Nat : \E g : \A T \in SUBSET S : Cardinality(T) <= n => g[T] = SumStep(g, T)}
<1>1. \A T \in SUBSET S : IsFiniteSet(T) /\ Cardinality(T) \in Nat
  BY FS_Subset, FS_CardinalityType, Zenon
<1>2. \A T \in SUBSET S : T # {} => Cardinality(T \ {One(T)}) = Cardinality(T) - 1
  BY <1>1, FS_RemoveElement, OneOf, Zenon
<1>3. 0 \in N
  <2> DEFINE g == [T \in SUBSET S |-> 0]
  <2>1. \A T \in SUBSET S : Cardinality(T) <= 0 => T = {}
    BY <1>1, FS_EmptySet
  <2>2. \A T \in SUBSET S : Cardinality(T) <= 0 => g[T] = SumStep(g, T)
    BY <2>1, Zenon DEF SumStep
  <2> HIDE DEF g
  <2> QED BY <2>2, Zenon
<1>4. ASSUME NEW n \in Nat, n \in N PROVE n + 1 \in N
  <2>1. PICK g : \A T \in SUBSET S : Cardinality(T) <= n => g[T] = SumStep(g, T)
    BY <1>4, Zenon
  <2> DEFINE h == [T \in SUBSET S |-> IF Cardinality(T) <= n THEN g[T] ELSE SumStep(g, T)]
  <2>2. ASSUME NEW T \in SUBSET S, Cardinality(T) <= n + 1 PROVE h[T] = SumStep(h, T)
    <3>1. h[T] = SumStep(g, T)
      BY <2>1, Zenon
    <3>2. T # {} => h[T \ {One(T)}] = g[T \ {One(T)}]
      BY <1>1, <1>2, <2>2
    <3> HIDE DEF h
    <3> QED BY <3>1, <3>2, Zenon DEF SumStep
  <2> HIDE DEF h
  <2> QED BY <2>2
<1> HIDE DEF N
<1>5. Cardinality(S) \in N
  BY <1>1, <1>3, <1>4, Induct, Zenon
<1>6. PICK g : \A T \in SUBSET S : Cardinality(T) <= Cardinality(S) => g[T] = SumStep(g, T)
  BY <1>5, Zenon DEF N
<1>7. \A T \in SUBSET S : g[T] = SumStep(g, T)
  BY <1>6, FS_Subset, Zenon
<1> DEFINE h == [T \in SUBSET S |-> g[T]]
<1>8. \A T \in SUBSET S : SumStep(h, T) = SumStep(g, T)
  BY Zenon DEF SumStep
<1>9. h = [T \in SUBSET S |-> SumStep(h, T)]
  BY <1>7, <1>8, Zenon
<1> HIDE DEF h
<1> QED BY <1>9, Zenon DEF IsSum

\* A smaller set has the same sums.
LEMMA SumSame ==
  ASSUME NEW S, IsFiniteSet(S), NEW R \in SUBSET S, NEW g, IsSum(g, S), NEW h, IsSum(h, R)
  PROVE  \A T \in SUBSET R : g[T] = h[T]
<1> DEFINE Q == {T \in SUBSET R : g[T] = h[T]}
<1>1. /\ \A T \in SUBSET R : g[T] = SumStep(g, T)
      /\ \A T \in SUBSET R : h[T] = SumStep(h, T)
  BY Zenon DEF IsSum
<1>2. {} \in Q
  BY <1>1, Zenon DEF SumStep
<1>3. ASSUME NEW T \in SUBSET R, T # {}, \A x \in T : T \ {x} \in Q PROVE T \in Q
  <2>1. g[T \ {One(T)}] = h[T \ {One(T)}]
    BY <1>3, OneOf, Zenon
  <2> QED BY <1>1, <1>3, <2>1, Zenon DEF SumStep
<1>4. IsFiniteSet(R)
  BY FS_Subset, ReserverAssumption, Zenon
<1> HIDE DEF Q
<1>5. \A T \in SUBSET R : T \in Q
  BY <1>2, <1>3, <1>4, InductSets, Zenon
<1> QED BY <1>5, Zenon DEF Q

\* Total of the empty set, and of any other set.
LEMMA TotalStep ==
  ASSUME NEW S, IsFiniteSet(S)
  PROVE  Total(S) = IF S = {} THEN 0 ELSE Amount[One(S)] + Total(S \ {One(S)})
<1> DEFINE g == CHOOSE g : IsSum(g, S)
           R == S \ {One(S)}
           h == CHOOSE h : IsSum(h, R)
<1>1. IsSum(g, S) /\ Total(S) = g[S]
  BY SumExists, TotalIs, Zenon
<1>2. IsFiniteSet(R) /\ R \in SUBSET S
  BY FS_Subset, ReserverAssumption, Zenon
<1>3. IsSum(h, R) /\ Total(R) = h[R]
  BY <1>2, SumExists, TotalIs, Zenon
<1> HIDE DEF g, h
<1>4. g[R] = h[R]
  BY <1>1, <1>2, <1>3, SumSame
<1>5. g[S] = SumStep(g, S)
  BY <1>1, Zenon DEF IsSum
<1> QED BY <1>1, <1>3, <1>4, <1>5, Zenon DEF SumStep

LEMMA TotalType == \A T \in SUBSET Output : Total(T) \in Nat
<1> DEFINE Q == {T \in SUBSET Output : Total(T) \in Nat}
<1>1. \A T \in SUBSET Output : IsFiniteSet(T)
  BY FS_Subset, ReserverAssumption, Zenon
<1>2. {} \in Q
  <2>1. Total({}) = 0
    BY FS_EmptySet, TotalStep, Zenon
  <2> QED BY <2>1
<1>3. ASSUME NEW T \in SUBSET Output, T # {}, \A x \in T : T \ {x} \in Q PROVE T \in Q
  <2>1. One(T) \in T /\ Amount[One(T)] \in Nat /\ Total(T \ {One(T)}) \in Nat
    BY <1>3, OneOf, ReserverAssumption, Zenon
  <2>2. Total(T) = Amount[One(T)] + Total(T \ {One(T)})
    BY <1>1, <1>3, TotalStep, Zenon
  <2> QED BY <2>1, <2>2
<1> HIDE DEF Q
<1>4. \A T \in SUBSET Output : T \in Q
  BY <1>2, <1>3, InductSets, ReserverAssumption, Zenon
<1> QED BY <1>4, Zenon DEF Q

\* It does not matter which output is counted first.
LEMMA TotalWithout ==
  \A T \in SUBSET Output : \A x \in T : Total(T) = Amount[x] + Total(T \ {x})
<1> DEFINE Q == {T \in SUBSET Output : \A x \in T : Total(T) = Amount[x] + Total(T \ {x})}
<1>1. \A T \in SUBSET Output : IsFiniteSet(T)
  BY FS_Subset, ReserverAssumption, Zenon
<1>2. {} \in Q
  BY Zenon
<1>3. ASSUME NEW T \in SUBSET Output, T # {}, \A x \in T : T \ {x} \in Q PROVE T \in Q
  <2>1. PICK o \in T : o = One(T)
    BY <1>3, OneOf, Zenon
  <2>2. Total(T) = Amount[o] + Total(T \ {o})
    BY <1>1, <1>3, <2>1, TotalStep, Zenon
  <2> SUFFICES ASSUME NEW x \in T, x # o PROVE Total(T) = Amount[x] + Total(T \ {x})
    BY <2>2, Zenon
  <2>3. Total(T \ {o}) = Amount[x] + Total((T \ {o}) \ {x})
    BY <1>3, Zenon
  <2>4. Total(T \ {x}) = Amount[o] + Total((T \ {x}) \ {o})
    BY <1>3, Zenon
  <2>5. (T \ {o}) \ {x} = (T \ {x}) \ {o}
    BY Zenon
  <2>6. Amount[o] \in Nat /\ Amount[x] \in Nat /\ Total((T \ {x}) \ {o}) \in Nat
    BY TotalType, ReserverAssumption, Zenon
  <2>7. Total(T \ {o}) = Amount[x] + Total((T \ {x}) \ {o})
    BY <2>3, <2>5, Zenon
  <2> QED BY <2>2, <2>4, <2>6, <2>7
<1> HIDE DEF Q
<1>4. \A T \in SUBSET Output : T \in Q
  BY <1>2, <1>3, InductSets, ReserverAssumption, Zenon
<1> QED BY <1>4, Zenon DEF Q

\* Outputs of two sets that have none in common are counted once.
LEMMA TotalUnion ==
  ASSUME NEW A \in SUBSET Output, NEW B \in SUBSET Output, A \cap B = {}
  PROVE  Total(A \cup B) = Total(A) + Total(B)
<1> DEFINE Q == {T \in SUBSET B : Total(A \cup T) = Total(A) + Total(T)}
<1>1. {} \in Q
  <2>1. Total({}) = 0
    BY FS_EmptySet, TotalStep, Zenon
  <2>2. A \cup {} = A /\ Total(A) \in Nat
    BY TotalType, Zenon
  <2> QED BY <2>1, <2>2
<1>2. ASSUME NEW T \in SUBSET B, T # {}, \A x \in T : T \ {x} \in Q PROVE T \in Q
  <2>1. PICK x \in T : TRUE
    BY <1>2, Zenon
  <2>2. Total(A \cup (T \ {x})) = Total(A) + Total(T \ {x})
    BY <1>2, Zenon
  <2>3. (A \cup T) \ {x} = A \cup (T \ {x}) /\ x \in A \cup T /\ A \cup T \in SUBSET Output /\ T \in SUBSET Output
    BY Zenon
  <2>4. Total(A \cup T) = Amount[x] + Total(A \cup (T \ {x}))
    BY <2>3, TotalWithout, Zenon
  <2>5. Total(T) = Amount[x] + Total(T \ {x})
    BY <2>3, TotalWithout, Zenon
  <2>6. Amount[x] \in Nat /\ Total(A) \in Nat /\ Total(T \ {x}) \in Nat
    BY TotalType, ReserverAssumption, Zenon
  <2> QED BY <2>2, <2>4, <2>5, <2>6
<1>3. IsFiniteSet(B)
  BY FS_Subset, ReserverAssumption, Zenon
<1> HIDE DEF Q
<1>4. B \in Q
  BY <1>1, <1>2, <1>3, InductSets, ReserverAssumption, Zenon
<1> QED BY <1>4, Zenon DEF Q

\* More outputs are not worth less.
LEMMA TotalGrows ==
  ASSUME NEW B \in SUBSET Output, NEW A \in SUBSET B
  PROVE  Total(A) <= Total(B)
<1>1. A \cup (B \ A) = B /\ A \cap (B \ A) = {} /\ A \in SUBSET Output /\ B \ A \in SUBSET Output
  BY Zenon
<1>2. Total(A \cup (B \ A)) = Total(A) + Total(B \ A)
  BY <1>1, TotalUnion, Zenon
<1>3. Total(B) = Total(A) + Total(B \ A)
  BY <1>1, <1>2, Zenon
<1>4. Total(A) \in Nat /\ Total(B \ A) \in Nat
  BY <1>1, TotalType, Zenon
<1> QED BY <1>3, <1>4
-----------------------------------------------------------------------------
(***************************************************************************)
(* What the cache knows.  The indexer follows the state of the chain       *)
(* (~Early), so that an output the table account_utxos lacks, up to the    *)
(* pin, has been spent in the state already.  The cache has every unspent  *)
(* output up to lastHeight; a call between its query and its store holds   *)
(* every unspent output between the two heights it has read.               *)
(***************************************************************************)
HeightInv == lastHeight <= pin /\ pin <= applied /\ applied <= tip
RowsInv == \A o \in Output : born[o] \in 1 .. pin /\ o \notin rows => died[o] \in 1 .. pin
CacheInv == \A o \in Unspent(applied) : born[o] <= lastHeight => o \in cached
Refilling(c) == call[c].pc \in {"query", "store"}
RefillInv ==
  \A c \in Caller :
    /\ Refilling(c) => call[c].last <= lastHeight /\ call[c].cur <= pin
    /\ call[c].pc = "store" =>
         \A o \in Unspent(applied) :
           call[c].last < born[o] /\ born[o] <= call[c].cur => o \in call[c].utxos

KnowInv == TypeOK /\ HeightInv /\ RowsInv /\ CacheInv /\ RefillInv

\* A call that is refilling the cache is not touched.
SameRefills ==
  \A c \in Caller : Refilling(c)' => call'[c] = call[c]

\* The cache loses spent outputs only.
CacheKeeps == \A o \in Unspent(applied) : o \in cached => o \in cached'

LEMMA InitKnow == Init => KnowInv
<1> SUFFICES ASSUME Init PROVE KnowInv BY Zenon
<1>1. TypeOK BY InitType, Zenon
<1>2. HeightInv /\ RowsInv BY DEF Init, HeightInv, RowsInv
<1>3. CacheInv BY Zenon DEF Init, CacheInv, Unspent
<1>4. RefillInv BY IdleType, Zenon DEF Init, RefillInv, Refilling
<1> QED BY <1>1, <1>2, <1>3, <1>4, Zenon DEF KnowInv

\* Steps of callers and of releases that leave blocks and lastHeight alone.
LEMMA SameKnow ==
  ASSUME KnowInv, TypeOK', UNCHANGED <<blockVars, lastHeight>>, CacheKeeps, SameRefills
  PROVE  KnowInv'
<1>1. /\ UNCHANGED <<tip, applied, born, died, rows, pin, lastHeight>>
      /\ Unspent(applied)' = Unspent(applied)
  BY Zenon DEF blockVars, Unspent
<1>2. HeightInv' /\ RowsInv'
  BY <1>1, Zenon DEF KnowInv, HeightInv, RowsInv
<1>3. CacheInv'
  BY <1>1, Zenon DEF KnowInv, CacheInv, CacheKeeps
<1>4. ASSUME NEW c \in Caller, Refilling(c)' PROVE Refilling(c) /\ call'[c] = call[c]
  BY <1>4, Zenon DEF SameRefills, Refilling
<1>5. \A c \in Caller : call'[c].pc = "store" => Refilling(c)'
  BY Zenon DEF Refilling
<1>6. RefillInv'
  BY <1>1, <1>4, <1>5, Zenon DEF KnowInv, RefillInv
<1> QED BY <1>2, <1>3, <1>6, Zenon DEF KnowInv

\* The end of a call.
LEMMA FinishRefills == ASSUME TypeOK, NEW c \in Caller, NEW ok \in BOOLEAN, Finish(c, ok) PROVE SameRefills
BY IdleType, Zenon DEF Finish, SameRefills, Refilling

LEMMA BlockKnow ==
  ASSUME KnowInv, NEW new \in SUBSET Output, NEW spent \in SUBSET Output, NewBlock(new, spent)
  PROVE  KnowInv'
<1>1. TypeOK' /\ TypeOK BY BlockchainType, Zenon DEF Blockchain, KnowInv
<1>2. /\ UNCHANGED <<applied, rows, pin, cached, lastHeight, call>>
      /\ tip' = tip + 1
      /\ \A o \in new : born[o] = 0
      /\ spent \subseteq Unspent(tip)
      /\ \A o \in Output : born'[o] = IF o \in new THEN tip + 1 ELSE born[o]
      /\ \A o \in Output : died'[o] = IF o \in spent THEN tip + 1 ELSE died[o]
  BY Zenon DEF NewBlock, sourceVars
<1>3. HeightInv /\ HeightInv'
  BY <1>1, <1>2 DEF KnowInv, HeightInv, TypeOK
<1>4. ASSUME NEW o \in Output, o \in Unspent(applied)' PROVE o \in Unspent(applied) /\ born'[o] = born[o]
  <2>1. tip \in Nat /\ applied \in Nat /\ applied <= tip /\ born[o] \in Nat /\ died[o] \in Nat
    BY <1>1, <1>3, Zenon DEF TypeOK, HeightInv
  <2>2. born'[o] \in 1 .. applied /\ died'[o] \notin 1 .. applied
    BY <1>2, <1>4, Zenon DEF Unspent
  <2>3. o \notin new /\ born'[o] = born[o]
    BY <1>2, <2>1, <2>2
  <2>4. o \in spent => died[o] \notin 1 .. tip
    BY <1>2, Zenon DEF Unspent
  <2>5. died[o] \notin 1 .. applied
    BY <1>2, <2>1, <2>2, <2>4
  <2> QED BY <2>2, <2>3, <2>5, Zenon DEF Unspent
<1>5. RowsInv'
  <2> SUFFICES ASSUME NEW o \in Output, born'[o] \in 1 .. pin, o \notin rows PROVE died'[o] \in 1 .. pin
    BY <1>2, Zenon DEF RowsInv
  <2>1. tip \in Nat /\ pin \in Nat /\ pin <= tip /\ born[o] \in Nat /\ died[o] \in Nat
    BY <1>1, <1>3 DEF TypeOK, HeightInv
  <2>2. born[o] \in 1 .. pin
    BY <1>2, <2>1
  <2>3. died[o] \in 1 .. pin
    BY <2>2, Zenon DEF KnowInv, RowsInv
  <2>4. o \notin spent
    BY <1>2, <2>1, <2>3 DEF Unspent
  <2> QED BY <1>2, <2>3, <2>4, Zenon
<1>6. Unspent(applied)' \subseteq Output
  BY Zenon DEF Unspent
<1>7. CacheInv'
  BY <1>2, <1>4, <1>6, Zenon DEF KnowInv, CacheInv
<1>8. RefillInv'
  BY <1>2, <1>4, <1>6, Zenon DEF KnowInv, RefillInv, Refilling
<1> QED BY <1>1, <1>3, <1>5, <1>7, <1>8, Zenon DEF KnowInv

LEMMA SetStateKnow == ASSUME KnowInv, SetState PROVE KnowInv'
<1>1. TypeOK' /\ TypeOK BY BlockchainType, Zenon DEF Blockchain, KnowInv
<1>2. applied' = tip /\ UNCHANGED <<tip, born, died, rows, pin, cached, lastHeight, call>>
  BY Zenon DEF SetState, sourceVars
<1>3. HeightInv /\ HeightInv' /\ RowsInv'
  BY <1>1, <1>2 DEF KnowInv, HeightInv, RowsInv, TypeOK
<1>4. ASSUME NEW o \in Unspent(applied)', born[o] <= pin PROVE o \in Unspent(applied)
  BY <1>1, <1>2, <1>3, <1>4 DEF Unspent, HeightInv, TypeOK
<1>5. CacheInv'
  <2> SUFFICES ASSUME NEW o \in Unspent(applied)', born[o] <= lastHeight PROVE o \in cached
    BY <1>2, Zenon DEF CacheInv
  <2>1. born[o] <= pin
    BY <1>1, <1>3 DEF HeightInv, TypeOK, Unspent
  <2> QED BY <1>4, <2>1, Zenon DEF KnowInv, CacheInv
<1>6. RefillInv'
  <2> SUFFICES ASSUME NEW c \in Caller, call[c].pc = "store", NEW o \in Unspent(applied)',
                      call[c].last < born[o], born[o] <= call[c].cur
               PROVE  o \in call[c].utxos
    BY <1>2, Zenon DEF KnowInv, RefillInv, Refilling
  <2>1. call[c].cur <= pin
    BY Zenon DEF KnowInv, RefillInv, Refilling
  <2>2. call[c].cur \in Nat /\ born[o] \in Nat
    BY <1>1, Zenon DEF TypeOK, Call, Unspent
  <2>3. born[o] <= pin
    BY <1>1, <2>1, <2>2 DEF TypeOK
  <2> QED BY <1>4, <2>3, Zenon DEF KnowInv, RefillInv
<1> QED BY <1>1, <1>3, <1>5, <1>6, Zenon DEF KnowInv

\* The indexer: what it deletes is spent in the state.
LEMMA IndexKnow ==
  ASSUME ~Early, KnowInv, MovePin \/ \E h \in 1 .. MaxTip : IndexBlock(h) \/ DeleteSpent(h)
  PROVE  KnowInv'
<1>1. TypeOK' /\ TypeOK BY BlockchainType, Zenon DEF Blockchain, KnowInv
<1>2. UNCHANGED <<tip, applied, born, died, cached, lastHeight, call>>
  BY Zenon DEF MovePin, IndexBlock, DeleteSpent, sourceVars
<1>3. pin' = pin \/ (pin' = pin + 1 /\ pin < applied)
  BY Zenon DEF MovePin, IndexBlock, DeleteSpent
<1>4. HeightInv' /\ pin <= pin'
  BY <1>1, <1>2, <1>3 DEF KnowInv, HeightInv, TypeOK
<1>5. RowsInv'
  <2>1. CASE MovePin
    <3>1. pin' = pin + 1 /\ UNCHANGED <<born, died, rows>> /\ \A o \in Output : born[o] = pin + 1 => o \in rows
      BY <2>1, Zenon DEF MovePin
    <3> QED BY <1>1, <3>1 DEF KnowInv, RowsInv, TypeOK
  <2>2. ASSUME NEW h \in 1 .. MaxTip, IndexBlock(h) PROVE RowsInv'
    BY <2>2, Zenon DEF IndexBlock, KnowInv, RowsInv
  <2>3. ASSUME NEW h \in 1 .. MaxTip, DeleteSpent(h) PROVE RowsInv'
    BY <2>3, Zenon DEF DeleteSpent, KnowInv, RowsInv
  <2> QED BY <2>1, <2>2, <2>3, Zenon
<1>6. Unspent(applied)' = Unspent(applied)
  BY <1>2, Zenon DEF Unspent
<1>7. CacheInv'
  BY <1>2, <1>6, Zenon DEF KnowInv, CacheInv
<1>8. \A c \in Caller : call[c].cur \in Nat
  BY <1>1, Zenon DEF TypeOK, Call
<1>9. \A c \in Caller : call[c].cur <= pin => call[c].cur <= pin'
  BY <1>1, <1>4, <1>8 DEF TypeOK
<1>10. RefillInv'
  BY <1>2, <1>6, <1>9, Zenon DEF KnowInv, RefillInv, Refilling
<1> QED BY <1>1, <1>4, <1>5, <1>7, <1>10, Zenon DEF KnowInv

\* The calls and the releases that do not refill the cache.
LEMMA OtherKnow ==
  ASSUME KnowInv, NEW c \in Caller,
         Begin(c) \/ Find(c) \/ ReserveOne(c) \/ ReserveCached(c) \/ ReserveMisses(c) \/ Save(c) \/ Return(c)
  PROVE  KnowInv'
<1>1. TypeOK' /\ TypeOK BY BeginType, StepType, Zenon DEF Step, KnowInv
<1>2. UNCHANGED <<blockVars, lastHeight>>
  BY Zenon DEF Begin, BeginReserve, BeginOutput, WaitOnce, Find, ReserveOne, ReserveCached, ReserveMisses, Save,
         Return, sourceVars
<1>3. CacheKeeps
  <2>1. CASE ReserveCached(c)
    BY <2>1, Zenon DEF ReserveCached, FromCache, Spent, CacheKeeps
  <2>2. CASE ReserveMisses(c)
    BY <2>2, Zenon DEF ReserveMisses, Spent, CacheKeeps
  <2>3. CASE UNCHANGED cached
    BY <2>3, Zenon DEF CacheKeeps
  <2> QED BY <2>1, <2>2, <2>3, Zenon DEF Begin, BeginReserve, BeginOutput, WaitOnce, Find, ReserveOne, Save, Return,
                                  sourceVars
<1>4. SameRefills
  <2> DEFINE Becomes == \E k : call' = [call EXCEPT ![c] = k] /\ k.pc \notin {"query", "store"}
  <2>1. Becomes => SameRefills
    BY <1>1, Zenon DEF SameRefills, Refilling, TypeOK
  <2>2. Finish(c, TRUE) \/ Finish(c, FALSE) => SameRefills
    BY <1>1, FinishRefills, Zenon
  <2> HIDE DEF Becomes
  <2>3. ASSUME NEW pc, pc \notin {"query", "store"}, Goto(c, pc) PROVE Becomes
    <3>1. call' = [call EXCEPT ![c] = [call[c] EXCEPT !.pc = pc]] /\ [call[c] EXCEPT !.pc = pc].pc = pc
      BY <1>1, <2>3, Zenon DEF Goto, TypeOK, Call
    <3> QED BY <2>3, <3>1, Zenon DEF Becomes
  <2>4. ASSUME NEW U, Mark(c, U) PROVE Becomes
    <3> DEFINE k == [call[c] EXCEPT !.pc = "save", !.utxos = U]
    <3>1. call' = [call EXCEPT ![c] = k] /\ k.pc = "save"
      BY <1>1, <2>4, Zenon DEF Mark, TypeOK, Call
    <3> HIDE DEF k
    <3> QED BY <3>1, Zenon DEF Becomes
  <2>5. ASSUME Begin(c) PROVE Becomes
    <3>1. ASSUME NEW t, NEW want, BeginReserve(c, want, t) PROVE Becomes
      <4> DEFINE k == [Idle EXCEPT !.pc = "first", !.want = want, !.token = t, !.rid = nextRid]
      <4>1. call' = [call EXCEPT ![c] = k] /\ k.pc = "first"
        BY <3>1, Zenon DEF BeginReserve, Idle
      <4> HIDE DEF k
      <4> QED BY <4>1, Zenon DEF Becomes
    <3>2. ASSUME NEW t, NEW o, BeginOutput(c, o, t) PROVE Becomes
      <4> DEFINE k == [Idle EXCEPT !.pc = "find", !.utxos = {o}, !.token = t]
      <4>1. call' = [call EXCEPT ![c] = k] /\ k.pc = "find"
        BY <3>2, Zenon DEF BeginOutput, Idle
      <4> HIDE DEF k
      <4> QED BY <4>1, Zenon DEF Becomes
    <3>3. ASSUME NEW t, WaitOnce(c, t) PROVE Becomes
      <4> DEFINE k == [Idle EXCEPT !.pc = "wait", !.of = group[t].by]
      <4>1. call' = [call EXCEPT ![c] = k] /\ k.pc = "wait"
        BY <3>3, Zenon DEF WaitOnce, Idle
      <4> HIDE DEF k
      <4> QED BY <4>1, Zenon DEF Becomes
    <3> QED BY <2>5, <3>1, <3>2, <3>3, Zenon DEF Begin
  <2>6. ASSUME Find(c) PROVE Becomes \/ Finish(c, FALSE)
    <3> DEFINE k == [call[c] EXCEPT !.pc = "one", !.rid = nextRid]
    <3>1. \/ call' = [call EXCEPT ![c] = k] /\ k.pc = "one"
          \/ Finish(c, FALSE)
      BY <1>1, <2>6, Zenon DEF Find, TypeOK, Call
    <3> HIDE DEF k
    <3> QED BY <3>1, Zenon DEF Becomes
  <2> QED BY <2>1, <2>2, <2>3, <2>4, <2>5, <2>6, Zenon
      DEF ReserveOne, ReserveCached, ReserveMisses, Save, Return
<1> QED BY <1>1, <1>2, <1>3, <1>4, SameKnow, Zenon

LEMMA ReleasesKnow == ASSUME KnowInv, Releases PROVE KnowInv'
<1>1. TypeOK' BY ReleasesType, Zenon DEF KnowInv
<1>2. UNCHANGED <<blockVars, lastHeight, cached, call>>
  BY Zenon DEF Releases, Release, Cancel, Forget, sourceVars
<1> QED BY <1>1, <1>2, SameKnow, Zenon DEF CacheKeeps, SameRefills

\* refillCache reads the heights, queries and stores.
LEMMA RefillKnow ==
  ASSUME KnowInv, NEW c \in Caller, RefillHeights(c) \/ RefillQuery(c) \/ RefillStore(c)
  PROVE  KnowInv'
<1>1. TypeOK' /\ TypeOK /\ UNCHANGED <<tip, applied, born, died, rows, pin>> /\ Unspent(applied)' = Unspent(applied)
  <2>1. UNCHANGED blockVars BY Zenon DEF RefillHeights, RefillQuery, RefillStore
  <2> QED BY <2>1, StepType, Zenon DEF Step, KnowInv, blockVars, Unspent
<1>2. HeightInv /\ RowsInv /\ CacheInv /\ RefillInv
  BY Zenon DEF KnowInv
<1>3. RowsInv'
  BY <1>1, <1>2, Zenon DEF RowsInv
<1>4. call[c] \in Call /\ DOMAIN call = Caller
  BY <1>1, Zenon DEF TypeOK
<1>5. CASE RefillHeights(c)
  <2>1. UNCHANGED <<cached, lastHeight>>
    BY <1>5, Zenon DEF RefillHeights, sourceVars
  <2>2. HeightInv' /\ CacheInv'
    BY <1>1, <1>2, <2>1, Zenon DEF HeightInv, CacheInv
  <2>3. /\ \A d \in Caller : d # c => call'[d] = call[d]
        /\ \/ call'[c].pc = "second"
           \/ call'[c].pc = "query" /\ call'[c].last = lastHeight /\ call'[c].cur = pin
    BY <1>4, <1>5 DEF RefillHeights, Goto, Call
  <2>4. RefillInv'
    BY <1>1, <1>2, <2>1, <2>3 DEF RefillInv, Refilling, TypeOK
  <2> QED BY <1>1, <1>3, <2>2, <2>4, Zenon DEF KnowInv
<1>6. CASE RefillQuery(c)
  <2>1. UNCHANGED <<cached, lastHeight>>
    BY <1>6, Zenon DEF RefillQuery, sourceVars
  <2>2. CASE Finish(c, FALSE)
    <3>1. SameRefills /\ CacheKeeps /\ UNCHANGED <<blockVars, lastHeight>>
      BY <1>1, <1>6, <2>1, <2>2, FinishRefills, Zenon DEF CacheKeeps, RefillQuery
    <3> QED BY <1>1, <3>1, SameKnow, Zenon
  <2>3. CASE call' = [call EXCEPT ![c].pc = "store", ![c].utxos = {o \in rows : born[o] > call[c].last}]
    <3> DEFINE found == {o \in rows : born[o] > call[c].last}
    <3>1. /\ \A d \in Caller : d # c => call'[d] = call[d]
          /\ call'[c].pc = "store" /\ call'[c].last = call[c].last /\ call'[c].cur = call[c].cur
          /\ call'[c].utxos = found
      BY <1>4, <2>3, Zenon DEF Call
    <3>2. Refilling(c)
      BY <1>6, Zenon DEF RefillQuery, Refilling
    <3>3. ASSUME NEW o \in Unspent(applied), call[c].last < born[o], born[o] <= call[c].cur PROVE o \in found
      <4>1. /\ o \in Output /\ born[o] \in Nat /\ died[o] \in Nat /\ applied \in Nat /\ pin \in Nat
            /\ call[c].cur \in Nat /\ call[c].last \in Nat
            /\ born[o] \in 1 .. applied /\ died[o] \notin 1 .. applied
        BY <1>1, <1>4, Zenon DEF Unspent, TypeOK, Call
      <4>2. call[c].cur <= pin /\ pin <= applied
        BY <1>2, <3>2, Zenon DEF RefillInv, HeightInv
      <4>3. born[o] \in 1 .. pin /\ died[o] \notin 1 .. pin
        BY <3>3, <4>1, <4>2
      <4>4. o \in rows
        BY <1>2, <4>1, <4>3, Zenon DEF RowsInv
      <4> QED BY <3>3, <4>1, <4>4, Zenon
    <3> HIDE DEF found
    <3>4. RefillInv'
      BY <1>1, <1>2, <2>1, <3>1, <3>2, <3>3, Zenon DEF RefillInv, Refilling
    <3>5. HeightInv' /\ CacheInv'
      BY <1>1, <1>2, <2>1, Zenon DEF HeightInv, CacheInv
    <3> QED BY <1>1, <1>3, <3>4, <3>5, Zenon DEF KnowInv
  <2> QED BY <1>6, <2>2, <2>3, Zenon DEF RefillQuery
<1>7. CASE RefillStore(c)
  <2>1. /\ \A d \in Caller : d # c => call'[d] = call[d]
        /\ call'[c].pc = "second"
    BY <1>4, <1>7, Zenon DEF RefillStore, Call
  <2>2. /\ Refilling(c) /\ call[c].pc = "store"
        /\ lastHeight' = IF call[c].cur > lastHeight THEN call[c].cur ELSE lastHeight
        /\ cached' = cached \cup call[c].utxos
    BY <1>7, Zenon DEF RefillStore, Refilling
  <2>3. call[c].cur \in Nat /\ call[c].last \in Nat /\ lastHeight \in Nat /\ pin \in Nat
    BY <1>1, <1>4, Zenon DEF TypeOK, Call
  <2>4. call[c].cur <= pin /\ call[c].last <= lastHeight
    BY <1>2, <2>2, Zenon DEF RefillInv
  <2>5. lastHeight <= lastHeight' /\ HeightInv'
    BY <1>1, <1>2, <2>2, <2>3, <2>4 DEF HeightInv
  <2>6. CacheInv'
    <3> SUFFICES ASSUME NEW o \in Unspent(applied), born[o] <= lastHeight' PROVE o \in cached'
      BY <1>1, Zenon DEF CacheInv
    <3>1. born[o] \in Nat
      BY <1>1, Zenon DEF Unspent, TypeOK
    <3>2. CASE born[o] <= lastHeight
      BY <1>2, <2>2, <3>2, Zenon DEF CacheInv
    <3>3. CASE ~(born[o] <= lastHeight)
      <4>1. call[c].last < born[o] /\ born[o] <= call[c].cur
        BY <2>2, <2>3, <2>4, <3>1, <3>3
      <4>2. o \in call[c].utxos
        BY <1>2, <2>2, <4>1, Zenon DEF RefillInv
      <4> QED BY <2>2, <4>2, Zenon
    <3> QED BY <3>2, <3>3, Zenon
  <2>7. \A d \in Caller : call[d].last \in Nat /\ (call[d].last <= lastHeight => call[d].last <= lastHeight')
    <3>1. \A d \in Caller : call[d].last \in Nat BY <1>1, Zenon DEF TypeOK, Call
    <3>2. lastHeight' \in Nat BY <1>1, Zenon DEF TypeOK
    <3> QED BY <2>3, <2>5, <3>1, <3>2
  <2>8. RefillInv'
    BY <1>1, <1>2, <2>1, <2>7, Zenon DEF RefillInv, Refilling
  <2> QED BY <1>1, <1>3, <2>5, <2>6, <2>8, Zenon DEF KnowInv
<1> QED BY <1>5, <1>6, <1>7, Zenon

LEMMA NextKnow == ASSUME ~Early PROVE KnowInv /\ [Next]_vars => KnowInv'
<1> SUFFICES ASSUME KnowInv, [Next]_vars PROVE KnowInv' BY Zenon
<1>1. CASE UNCHANGED vars
  <2>1. TypeOK' BY <1>1, NextType, Zenon DEF KnowInv
  <2>2. UNCHANGED <<blockVars, lastHeight, cached, call>> BY <1>1, Zenon DEF vars, sourceVars
  <2> QED BY <2>1, <2>2, SameKnow, Zenon DEF CacheKeeps, SameRefills
<1>2. CASE Blockchain BY <1>2, BlockKnow, SetStateKnow, IndexKnow, Zenon DEF Blockchain
<1>3. ASSUME NEW c \in Caller, Begin(c) \/ Step(c) PROVE KnowInv'
  BY <1>3, OtherKnow, RefillKnow, Zenon DEF Step
<1>4. CASE Releases BY <1>4, ReleasesKnow, Zenon
<1> QED BY <1>1, <1>2, <1>3, <1>4, Zenon DEF Next

\* The unspent outputs the cache must know are free and good, or reserved.
LEMMA KnownCounted ==
  ASSUME KnowInv
  PROVE  Total({o \in Unspent(applied) : born[o] <= lastHeight}) <= Total(Good) + Total(cached \ Free)
<1> DEFINE A == {o \in Unspent(applied) : born[o] <= lastHeight}
           R == cached \ Free
<1>1. A \subseteq Good \cup R
  BY Zenon DEF KnowInv, CacheInv, Good, Spent, Free
<1>2. Good \in SUBSET Output /\ R \in SUBSET Output /\ Good \cap R = {} /\ Good \cup R \in SUBSET Output
  BY Zenon DEF KnowInv, TypeOK, Good, Free
<1> HIDE DEF A, R
<1>3. A \in SUBSET Output
  BY <1>1, <1>2, Zenon
<1>4. Total(Good \cup R) = Total(Good) + Total(R)
  BY <1>2, TotalUnion, Zenon
<1>5. Total(A) <= Total(Good \cup R)
  BY <1>1, <1>2, TotalGrows, Zenon
<1>6. Total(A) <= Total(Good) + Total(R)
  BY <1>4, <1>5, Zenon
<1> QED BY <1>6, Zenon DEF A, R

(***************************************************************************)
(* When a call fails with ErrInsufficient after it has refilled the cache, *)
(* the account's unspent outputs are worth less than was asked for, up to  *)
(* the height the cache claims to know, whatever other calls reserve,      *)
(* refill or release in between.  (While the indexer hears of a block only *)
(* once it is the state, ~Early.)                                          *)
(***************************************************************************)
THEOREM ReserverInsufficientIsReal == ASSUME ~Early PROVE Spec => []InsufficientIsReal
<1>1. KnowInv => InsufficientIsReal
  <2> SUFFICES ASSUME KnowInv, NEW c \in Caller, Insufficient(call[c].want)
               PROVE  Total({o \in Unspent(applied) : born[o] <= lastHeight}) < call[c].want
    BY Zenon DEF InsufficientIsReal
  <2> DEFINE A == {o \in Unspent(applied) : born[o] <= lastHeight}
  <2>1. A \in SUBSET Output /\ Good \in SUBSET Output /\ cached \ Free \in SUBSET Output
    BY Zenon DEF KnowInv, TypeOK, Unspent, Good, Free
  <2>2. call[c].want \in Nat
    BY Zenon DEF KnowInv, TypeOK, Call
  <2>3. Total(A) <= Total(Good) + Total(cached \ Free)
    BY KnownCounted, Zenon
  <2>4. Total(Good) + Total(cached \ Free) < call[c].want
    BY Zenon DEF Insufficient
  <2> HIDE DEF A
  <2>5. Total(A) \in Nat /\ Total(Good) \in Nat /\ Total(cached \ Free) \in Nat
    BY <2>1, TotalType, Zenon
  <2>6. Total(A) < call[c].want
    BY <2>2, <2>3, <2>4, <2>5
  <2> QED BY <2>6, Zenon DEF A
<1> QED BY <1>1, InitKnow, NextKnow, PTL DEF Spec
=============================================================================
