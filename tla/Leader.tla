------------------------------- MODULE Leader -------------------------------
(***************************************************************************)
(* core/leader: the processes of a core elect a leader through the single  *)
(* row of table leader, a lease that its holder renews.  A process has two *)
(* goroutines: leadershipChanges, which tries for the row and then renews  *)
(* it, and the loop of Run, which takes its news from an unbuffered        *)
(* channel and calls lead.  Times are what is left of a lease, in ticks of *)
(* half a second, on the clock of the database.                            *)
(***************************************************************************)
EXTENDS Integers

CONSTANTS Process,   \* by address, the leader_key
          Lease,     \* the second a lease lasts, in ticks
          MaxFail,   \* failed statements
          MaxStop,   \* restarts
          NoKey

ASSUME LeaderAssumption == Lease \in Nat

VARIABLES row,       \* [key, left]; left < 0: expired
          changes,   \* what leadershipChanges is at
          loop,      \* what the loop of Run is at
          state,     \* ProcessState
          contexts,  \* lead contexts that are not cancelled
          lease,     \* history: what is left of the lease the process knows of
          fails, stops

lvars == <<row, changes, loop, state, contexts, lease, fails, stops>>

LeaderInit ==
  /\ row = [key |-> NoKey, left |-> -1]
  /\ changes = [p \in Process |-> "try"] /\ loop = [p \in Process |-> "receive"]
  /\ state = [p \in Process |-> "Following"] /\ contexts = [p \in Process |-> 0]
  /\ lease = [p \in Process |-> -1]
  /\ fails = 0 /\ stops = 0

Shorter(n) == IF n < 0 THEN n ELSE n - 1
Tick ==
  /\ row' = [row EXCEPT !.left = Shorter(@)]
  /\ lease' = [p \in Process |-> Shorter(lease[p])]
  /\ row' # row
  /\ UNCHANGED <<changes, loop, state, contexts, fails, stops>>
-----------------------------------------------------------------------------
\* Mutants: a lease is over in its last tick; a row that is there is never taken.
FreeEarly == row.left <= 0
FreeOnce == row.key = NoKey

\* The WHERE of tryForLeadership, or no row at all.
Free == row.left < 0
tryForLeadership(p) ==
  /\ changes[p] = "try"
  /\ Free
  /\ row' = [key |-> p, left |-> Lease] /\ lease' = [lease EXCEPT ![p] = Lease]
  /\ changes' = [changes EXCEPT ![p] = "elected"]
  /\ UNCHANGED <<loop, state, contexts, fails, stops>>

Renewed(p) == row.key = p

\* The UPDATE does not ask whether the lease has expired.
maintainLeadership(p) ==
  /\ changes[p] = "maintain"
  /\ IF row.key = p
     THEN row' = [row EXCEPT !.left = Lease] /\ lease' = [lease EXCEPT ![p] = Lease]
     ELSE UNCHANGED <<row, lease>>
  /\ changes' = [changes EXCEPT ![p] = IF Renewed(p) THEN @ ELSE "demoted"]
  /\ UNCHANGED <<loop, state, contexts, fails, stops>>

\* A statement returns an error, whether or not the database has carried it out.
Fail(p) ==
  /\ changes[p] \in {"try", "maintain"} /\ fails < MaxFail
  /\ fails' = fails + 1
  /\ changes' = [changes EXCEPT ![p] = IF @ = "try" THEN "try" ELSE "demoted"]
  /\ \/ UNCHANGED row
     \/ (IF changes[p] = "try" THEN Free ELSE row.key = p) /\ row' = [key |-> p, left |-> Lease]
  /\ UNCHANGED <<loop, state, contexts, lease, stops>>
-----------------------------------------------------------------------------
\* Run receives true and calls lead, which returns later.
Elected(p) ==
  /\ changes[p] = "elected" /\ loop[p] = "receive"
  /\ changes' = [changes EXCEPT ![p] = "maintain"]
  /\ state' = [state EXCEPT ![p] = "Recovering"]
  /\ contexts' = [contexts EXCEPT ![p] = @ + 1]
  /\ loop' = [loop EXCEPT ![p] = "lead"]
  /\ UNCHANGED <<row, lease, fails, stops>>
LeadReturns(p) ==
  /\ loop[p] = "lead"
  /\ loop' = [loop EXCEPT ![p] = "receive"]
  /\ state' = [state EXCEPT ![p] = "Leading"]
  /\ UNCHANGED <<row, changes, contexts, lease, fails, stops>>

cancel(p) == contexts' = [contexts EXCEPT ![p] = @ - 1]

\* Run receives false.
Demoted(p) ==
  /\ changes[p] = "demoted" /\ loop[p] = "receive"
  /\ changes' = [changes EXCEPT ![p] = "try"]
  /\ state' = [state EXCEPT ![p] = "Following"] /\ cancel(p)
  /\ UNCHANGED <<row, loop, lease, fails, stops>>

\* A process ends and is started again under its address.
RestartProcess(p) ==
  /\ stops < MaxStop
  /\ stops' = stops + 1
  /\ changes' = [changes EXCEPT ![p] = "try"] /\ loop' = [loop EXCEPT ![p] = "receive"]
  /\ state' = [state EXCEPT ![p] = "Following"] /\ contexts' = [contexts EXCEPT ![p] = 0]
  /\ lease' = [lease EXCEPT ![p] = -1]
  /\ UNCHANGED <<row, fails>>

Statement(p) == tryForLeadership(p) \/ maintainLeadership(p)
Receive(p) == Elected(p) \/ Demoted(p)
LeaderNext ==
  \/ Tick
  \/ \E p \in Process : Statement(p) \/ Fail(p) \/ Receive(p) \/ LeadReturns(p) \/ RestartProcess(p)
LeaderSpec == LeaderInit /\ [][LeaderNext]_lvars
-----------------------------------------------------------------------------
\* No two processes know of a lease that has not expired, whatever statements fail or
\* are late and whoever is restarted (leader.go, tryForLeadership).
LeaseExclusive ==
  \A p, q \in Process : lease[p] >= 0 /\ lease[q] >= 0 => p = q

\* A process has one lead context that is not cancelled while it is Recovering or
\* Leading, and none while it is Following (leader.go, Run).
OneLeadContext ==
  \A p \in Process : contexts[p] = IF state[p] = "Following" THEN 0 ELSE 1

\* At most one process holds the lease, and it leads at most once at a time (leader.go).
LeadersExclusive == LeaseExclusive /\ OneLeadContext

\* There is a leading process again and again, though leaders stop (leader.go, Run).
AlwaysLedAgain == []<>(\E p \in Process : state[p] = "Leading")

\* A leader whose row was taken ends up Following (leader.go, maintainLeadership).
DeposedFollows ==
  \A p \in Process : (state[p] = "Leading" /\ row.key # p) ~> state[p] = "Following"
=============================================================================
