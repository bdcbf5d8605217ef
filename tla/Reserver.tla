------------------------------ MODULE Reserver ------------------------------
(***************************************************************************)
(* The reserver of an account's outputs (core/account/reserve.go) and the  *)
(* idempotency group in front of it.  One source (account and asset) is    *)
(* modelled: sources share nothing but the map they are kept in.  Callers  *)
(* run concurrently; what happens under one mutex is one step.             *)
(*                                                                         *)
(* Around it: blocks that create and spend the account's outputs, the      *)
(* state of the chain (which follows the notification of a block), and the *)
(* indexer that fills account_utxos, out of order, and moves its pin.      *)
(***************************************************************************)
EXTENDS Integers, FiniteSets, FiniteSetsExt

CONSTANTS Output,
          Amount,     \* Amount[o]
          Caller,     \* goroutines that build transactions
          Token,      \* client tokens
          None,
          Want,       \* amounts that are asked for
          Early,      \* whether a notification is heard before setState
          MaxTip,     \* bound on the blocks
          MaxRid      \* bound on the reservations

ASSUME ReserverAssumption ==
  /\ IsFiniteSet(Output) /\ Amount \in [Output -> Nat]
  /\ Want \subseteq Nat \ {0}
  /\ Early \in BOOLEAN
  /\ MaxTip \in Nat /\ MaxRid \in Nat
  /\ None \notin Token \cup Caller \cup [by : Caller \cup {None}]

VARIABLES tip,          \* the last block that is stored and announced
          applied,      \* the block of Chain.State, tip or one less
          born, died,   \* output -> the block that creates, spends it (0: none yet)
          rows,         \* table account_utxos
          pin,          \* height of the account pin
          cached, reserved, lastHeight,  \* sourceReserver; reserved[o] is a rid or 0
          nextRid,      \* reserver.nextReservationID
          reservations, \* reserver.reservations: [id, utxos, token]
          releasing,    \* reservations taken out of it: [res, pc]
          group,        \* idempotency.Group.m: token -> None or [by], by None when it is over
          call          \* caller -> [pc, want, token, rid, utxos, last, cur, of]

blockVars == <<tip, applied, born, died, rows, pin>>
sourceVars == <<cached, reserved, lastHeight>>
vars == <<blockVars, sourceVars, nextRid, reservations, releasing, group, call>>

Idle == [pc |-> "idle", want |-> 0, token |-> None, rid |-> 0, utxos |-> {},
         last |-> 0, cur |-> 0, of |-> None]

Init ==
  /\ tip = 0 /\ applied = 0
  /\ born = [o \in Output |-> 0] /\ died = [o \in Output |-> 0]
  /\ rows = {} /\ pin = 0
  /\ cached = {} /\ reserved = [o \in Output |-> 0] /\ lastHeight = 0
  /\ nextRid = 1
  /\ reservations = {} /\ releasing = {}
  /\ group = [t \in Token |-> None]
  /\ call = [c \in Caller |-> Idle]

Total(S) == MapThenSumSet(LAMBDA o : Amount[o], S)
Unspent(h) == {o \in Output : born[o] \in 1 .. h /\ died[o] \notin 1 .. h}

-----------------------------------------------------------------------------
(* Blocks, the chain's state and the indexer.                              *)

\* CommitAppliedBlock: the block is stored and announced ...
NewBlock(new, spent) ==
  /\ tip < MaxTip
  /\ applied = tip
  /\ new \subseteq {o \in Output : born[o] = 0}
  /\ spent \subseteq Unspent(tip)
  /\ tip' = tip + 1
  /\ born' = [o \in Output |-> IF o \in new THEN tip + 1 ELSE born[o]]
  /\ died' = [o \in Output |-> IF o \in spent THEN tip + 1 ELSE died[o]]
  /\ UNCHANGED <<applied, rows, pin, sourceVars, nextRid, reservations, releasing, group, call>>

\* ... and then becomes the state.
SetState ==
  /\ applied < tip
  /\ applied' = tip
  /\ UNCHANGED <<tip, born, died, rows, pin, sourceVars, nextRid, reservations, releasing, group, call>>

\* indexAccountUTXOs of block h.
IndexBlock(h) ==
  /\ h \in pin + 1 .. (IF Early THEN tip ELSE applied)
  /\ rows' = rows \cup {o \in Output : born[o] = h}
  /\ UNCHANGED <<tip, applied, born, died, pin, sourceVars, nextRid, reservations, releasing, group, call>>

\* The account pin moves over a block whose outputs are in the table.
MovePin ==
  /\ pin < tip
  /\ Early \/ pin < applied
  /\ {o \in Output : born[o] = pin + 1} \subseteq rows
  /\ pin' = pin + 1
  /\ UNCHANGED <<tip, applied, born, died, rows, sourceVars, nextRid, reservations, releasing, group, call>>

\* deleteSpentOutputs, which waits for the account pin.
DeleteSpent(h) ==
  /\ h \in 1 .. pin
  /\ rows' = rows \ {o \in Output : died[o] = h}
  /\ UNCHANGED <<tip, applied, born, died, pin, sourceVars, nextRid, reservations, releasing, group, call>>

-----------------------------------------------------------------------------
(* reserveFromCache, under sourceReserver.mu.                              *)

Spent(S) == {o \in S : o \notin Unspent(applied)}   \* those validFn refuses
Free == {o \in cached : reserved[o] = 0}
Good == Free \ Spent(Free)

\* Mutant: the outputs that are reserved already are not skipped.
FromCacheReserved(want, U, D) ==
  /\ U \subseteq cached \ Spent(cached)
  /\ D \subseteq Spent(Free)
  /\ \E o \in U : Total(U) >= want /\ Total(U \ {o}) < want

\* The loop over the map, in any order, stops when the outputs U it has met
\* are enough; it has met the spent outputs D and dropped them.
FromCache(want, U, D) ==
  /\ U \subseteq Good
  /\ D \subseteq Spent(Free)
  /\ \E o \in U : Total(U) >= want /\ Total(U \ {o}) < want

\* Or it runs to the end without success.
NotEnough(want) == Total(Good) < want
Insufficient(want) == Total(Good) + Total(cached \ Free) < want

\* The outputs U are marked with the caller's reservation ID.
Mark(c, U) ==
  /\ reserved' = [o \in Output |-> IF o \in U THEN call[c].rid ELSE reserved[o]]
  /\ call' = [call EXCEPT ![c].pc = "save", ![c].utxos = U]

-----------------------------------------------------------------------------
(* Calls, through idempotency.Group.Once when there is a client token.     *)

Goto(c, pc) == call' = [call EXCEPT ![c].pc = pc]

\* Once, when the function is to be run: nobody has, for this token.
Once(c, t) ==
  /\ call[c].pc = "idle"
  /\ t # None => group[t] = None
  /\ group' = IF t = None THEN group ELSE [group EXCEPT ![t] = [by |-> c]]

\* Once, when another caller runs it: this one waits for its result.
WaitOnce(c, t) ==
  /\ call[c].pc = "idle"
  /\ group[t] # None
  /\ group[t].by # None
  /\ call' = [call EXCEPT ![c] = [Idle EXCEPT !.pc = "wait", !.of = group[t].by]]
  /\ UNCHANGED <<blockVars, sourceVars, nextRid, reservations, releasing, group>>

\* The end of Once: an error makes it forget the token, and the callers that
\* wait for this call return with it.
Finish(c, ok) ==
  /\ LET t == call[c].token IN
     group' = IF t = None THEN group
              ELSE IF ~ok THEN [group EXCEPT ![t] = None]
              ELSE IF group[t] = [by |-> c] THEN [group EXCEPT ![t] = [by |-> None]]
              ELSE group
  /\ call' = [d \in Caller |-> IF d = c \/ call[d].of = c THEN Idle ELSE call[d]]

\* reserver.reserve
BeginReserve(c, want, t) ==
  /\ nextRid <= MaxRid
  /\ Once(c, t)
  /\ call' = [call EXCEPT ![c] = [Idle EXCEPT !.pc = "first", !.want = want, !.token = t,
                                             !.rid = nextRid]]
  /\ nextRid' = nextRid + 1
  /\ UNCHANGED <<blockVars, sourceVars, reservations, releasing>>

\* reserver.reserveUTXO
BeginOutput(c, o, t) ==
  /\ nextRid <= MaxRid
  /\ Once(c, t)
  /\ call' = [call EXCEPT ![c] = [Idle EXCEPT !.pc = "find", !.utxos = {o}, !.token = t]]
  /\ UNCHANGED <<blockVars, sourceVars, nextRid, reservations, releasing>>

\* findSpecificUTXO and checkUTXO
Find(c) ==
  /\ call[c].pc = "find"
  /\ IF nextRid <= MaxRid /\ call[c].utxos \subseteq rows \cap Unspent(applied)
     THEN /\ call' = [call EXCEPT ![c].pc = "one", ![c].rid = nextRid]
          /\ nextRid' = nextRid + 1
          /\ UNCHANGED group
     ELSE Finish(c, FALSE) /\ UNCHANGED nextRid
  /\ UNCHANGED <<blockVars, sourceVars, reservations, releasing>>

\* sourceReserver.reserveUTXO
ReserveOne(c) ==
  /\ call[c].pc = "one"
  /\ IF \A o \in call[c].utxos : reserved[o] = 0
     THEN Mark(c, call[c].utxos) /\ UNCHANGED group
     ELSE Finish(c, FALSE) /\ UNCHANGED reserved
  /\ UNCHANGED <<blockVars, cached, lastHeight, nextRid, reservations, releasing>>

\* sourceReserver.reserve: from the cache, or ...
ReserveCached(c) ==
  /\ call[c].pc \in {"first", "second"}
  /\ \E U \in SUBSET cached, D \in SUBSET cached :
       /\ FromCache(call[c].want, U, D)
       /\ Mark(c, U)
       /\ cached' = cached \ D
  /\ UNCHANGED <<blockVars, lastHeight, nextRid, reservations, releasing, group>>

\* ... not: the cache is refilled, or the call fails.
ReserveMisses(c) ==
  /\ call[c].pc \in {"first", "second"}
  /\ NotEnough(call[c].want)
  /\ cached' = cached \ Spent(Free)
  /\ IF call[c].pc = "first"
     THEN Goto(c, "refill") /\ UNCHANGED group
     ELSE Finish(c, FALSE)
  /\ UNCHANGED <<blockVars, reserved, lastHeight, nextRid, reservations, releasing>>

-----------------------------------------------------------------------------
(* refillCache: read the heights, query, store.                            *)

RefillHeights(c) ==
  /\ call[c].pc = "refill"
  /\ IF lastHeight >= pin
     THEN Goto(c, "second")
     ELSE call' = [call EXCEPT ![c].pc = "query", ![c].last = lastHeight, ![c].cur = pin]
  /\ UNCHANGED <<blockVars, sourceVars, nextRid, reservations, releasing, group>>

\* findMatchingUTXOs, which may fail.
RefillQuery(c) ==
  /\ call[c].pc = "query"
  /\ \/ /\ call' = [call EXCEPT ![c].pc = "store",
                                ![c].utxos = {o \in rows : born[o] > call[c].last}]
        /\ UNCHANGED group
     \/ Finish(c, FALSE)
  /\ UNCHANGED <<blockVars, sourceVars, nextRid, reservations, releasing>>

\* Mutant: the height of the pin is read after the query.
RefillStoreLate(c) ==
  /\ call[c].pc = "store"
  /\ lastHeight' = pin
  /\ cached' = cached \cup call[c].utxos
  /\ call' = [call EXCEPT ![c].pc = "second", ![c].utxos = {}]
  /\ UNCHANGED <<blockVars, reserved, nextRid, reservations, releasing, group>>

RefillStore(c) ==
  /\ call[c].pc = "store"
  /\ lastHeight' = IF call[c].cur > lastHeight THEN call[c].cur ELSE lastHeight
  /\ cached' = cached \cup call[c].utxos
  /\ call' = [call EXCEPT ![c].pc = "second", ![c].utxos = {}]
  /\ UNCHANGED <<blockVars, reserved, nextRid, reservations, releasing, group>>

-----------------------------------------------------------------------------
(* Reservations.                                                           *)

Reservation(c) == [id |-> call[c].rid, utxos |-> call[c].utxos, token |-> call[c].token]

\* The successful reservation is saved, then the call returns it.
Save(c) ==
  /\ call[c].pc = "save"
  /\ reservations' = reservations \cup {Reservation(c)}
  /\ Goto(c, "return")
  /\ UNCHANGED <<blockVars, sourceVars, nextRid, releasing, group>>

Return(c) ==
  /\ call[c].pc = "return"
  /\ Finish(c, TRUE)
  /\ UNCHANGED <<blockVars, sourceVars, nextRid, reservations, releasing>>

\* Mutant: the token is forgotten before the reservation is taken out.
ReleaseForgets(r) ==
  /\ r \in reservations
  /\ r.token # None /\ group[r.token] # None
  /\ group' = [group EXCEPT ![r.token] = None]
  /\ UNCHANGED <<blockVars, sourceVars, nextRid, reservations, releasing, call>>

\* Cancel, or ExpireReservations once its time is over: first the record ...
Release(r) ==
  /\ r \in reservations
  /\ reservations' = reservations \ {r}
  /\ releasing' = releasing \cup {[res |-> r, pc |-> "cancel"]}
  /\ UNCHANGED <<blockVars, sourceVars, nextRid, group, call>>

\* Mutant: the outputs stay reserved.
CancelKeeps(x) ==
  /\ x.pc = "cancel"
  /\ releasing' = (releasing \ {x}) \cup {[x EXCEPT !.pc = "forget"]}
  /\ UNCHANGED <<blockVars, sourceVars, nextRid, reservations, group, call>>

\* ... then the outputs (sourceReserver.cancel) ...
Cancel(x) ==
  /\ x.pc = "cancel"
  /\ reserved' = [o \in Output |-> IF o \in x.res.utxos THEN 0 ELSE reserved[o]]
  /\ releasing' = (releasing \ {x}) \cup {[x EXCEPT !.pc = "forget"]}
  /\ UNCHANGED <<blockVars, cached, lastHeight, nextRid, reservations, group, call>>

\* ... and last the token.
Forget(x) ==
  /\ x.pc = "forget"
  /\ releasing' = releasing \ {x}
  /\ group' = IF x.res.token = None THEN group ELSE [group EXCEPT ![x.res.token] = None]
  /\ UNCHANGED <<blockVars, sourceVars, nextRid, reservations, call>>

-----------------------------------------------------------------------------
Blockchain ==
  \/ \E new, spent \in SUBSET Output : NewBlock(new, spent)
  \/ SetState
  \/ MovePin
  \/ \E h \in 1 .. MaxTip : IndexBlock(h) \/ DeleteSpent(h)

Begin(c) ==
  \/ \E t \in Token \cup {None}, want \in Want : BeginReserve(c, want, t)
  \/ \E t \in Token \cup {None}, o \in Output : BeginOutput(c, o, t)
  \/ \E t \in Token : WaitOnce(c, t)

Step(c) ==
  \/ Find(c) \/ ReserveOne(c) \/ ReserveCached(c) \/ ReserveMisses(c)
  \/ RefillHeights(c) \/ RefillQuery(c) \/ RefillStore(c)
  \/ Save(c) \/ Return(c)

Releases ==
  \/ \E r \in reservations : Release(r)
  \/ \E x \in releasing : Cancel(x) \/ Forget(x)

Next ==
  \/ Blockchain
  \/ \E c \in Caller : Begin(c) \/ Step(c)
  \/ Releases

Spec == Init /\ [][Next]_vars

(***************************************************************************)
(* A goroutine in a call goes on, and the ticker of ExpireReservations     *)
(* gets to every reservation, all of which have an expiry.                 *)
(***************************************************************************)
FairSpec ==
  /\ Spec
  /\ \A c \in Caller : WF_vars(Step(c))
  /\ WF_vars(Releases)

-----------------------------------------------------------------------------
Pc == {"idle", "wait", "first", "second", "refill", "query", "store", "find", "one", "save", "return"}
Held == [id : Nat, utxos : SUBSET Output, token : Token \cup {None}]
Call == [pc : Pc, want : Nat, token : Token \cup {None}, rid : Nat, utxos : SUBSET Output,
         last : Nat, cur : Nat, of : Caller \cup {None}]

TypeOK ==
  /\ tip \in Nat /\ applied \in Nat /\ pin \in Nat
  /\ born \in [Output -> Nat] /\ died \in [Output -> Nat] /\ rows \subseteq Output
  /\ cached \subseteq Output /\ reserved \in [Output -> Nat] /\ lastHeight \in Nat
  /\ nextRid \in Nat \ {0}
  /\ reservations \subseteq Held
  /\ releasing \subseteq [res : Held, pc : {"cancel", "forget"}]
  /\ group \in [Token -> [by : Caller \cup {None}] \cup {None}]
  /\ call \in [Caller -> Call]

\* The reservations whose outputs are marked: saved, about to be, or being
\* taken back.
Owners ==
  reservations \cup {x.res : x \in {y \in releasing : y.pc = "cancel"}}
               \cup {Reservation(c) : c \in {d \in Caller : call[d].pc = "save"}}

(***************************************************************************)
(* An output is marked exactly when some reservation holds it, with that   *)
(* reservation's ID: none is leaked by the two-phase release, and none is  *)
(* released under somebody else's feet.                                    *)
(***************************************************************************)
ReservedIsOwned ==
  \A o \in Output :
    /\ reserved[o] # 0 => \E r \in Owners : r.id = reserved[o] /\ o \in r.utxos
    /\ \A r \in Owners : o \in r.utxos => reserved[o] = r.id

(***************************************************************************)
(* Two reservations never hold the same output: two transactions built at  *)
(* the same time do not compete.                                           *)
(***************************************************************************)
ReservationsDisjoint ==
  \A r, s \in reservations : r # s => r.utxos \cap s.utxos = {}

(***************************************************************************)
(* The "reserver ensures idempotency of reservations until the reservation *)
(* expiration": a token has at most one reservation, however calls with it *)
(* and releases interleave.                                                *)
(***************************************************************************)
OnePerToken ==
  \A r, s \in reservations : r.token # None /\ r.token = s.token => r = s

(***************************************************************************)
(* ErrInsufficient "indicates the account doesn't contain enough units":   *)
(* when a call returns it, all outputs in the state tree, up to the height *)
(* the cache claims to know, are less than the amount asked for.           *)
(***************************************************************************)
InsufficientIsReal ==
  \A c \in Caller :
    call[c].pc = "second" /\ Insufficient(call[c].want) =>
      Total({o \in Unspent(applied) : born[o] <= lastHeight}) < call[c].want

(***************************************************************************)
(* What is reserved is released in the end, by Cancel or by                *)
(* ExpireReservations: no output is locked for good.                       *)
(***************************************************************************)
ReservedReleased ==
  \A i \in 1 .. MaxRid :
    (\E o \in Output : reserved[o] = i) ~> (\A o \in Output : reserved[o] # i)
=============================================================================
