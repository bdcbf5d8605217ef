-------------------------------- MODULE Pin ---------------------------------
(***************************************************************************)
(* Block processors (core/pin).  A pin is a name and the height up to      *)
(* which its callback has handled every block.  ProcessBlocks starts one   *)
(* goroutine per block, Workers at a time; they run the callback in any    *)
(* order and complete() moves the pin over the blocks that are finished    *)
(* without a gap.  Callbacks wait for other pins (PinWaiter) as Needs      *)
(* says.  The table block_processors survives a restart.                   *)
(***************************************************************************)
EXTENDS Integers, FiniteSets

CONSTANTS Name,       \* the pins
          Needs,      \* <<p, q, d>>: p's callback for block h waits for q at h - d
          Workers,    \* processorWorkers
          MaxTip,     \* bound on the height of the chain
          MaxFail,    \* bound on the failures of complete's statements
          MaxRestart  \* bound on the restarts

ASSUME PinAssumption ==
  /\ Needs \subseteq Name \X Name \X Nat
  /\ Workers \in Nat /\ MaxTip \in Nat /\ MaxFail \in Nat /\ MaxRestart \in Nat

VARIABLES tip,        \* Chain.Height
          row,        \* table block_processors: pin -> height, or Absent
          height,     \* pin.height, or Absent when Store.pins has no such pin
          next,       \* ProcessBlocks' height, or Absent before it starts
          running,    \* heights whose goroutine is in its callback
          ran,        \* heights whose goroutine is about to complete
          completed,  \* pin.completed
          notes,      \* notifications on channel pin-<name> under way
          processed,  \* heights whose callback has returned nil, ever
          fails, restarts

vars == <<tip, row, height, next, running, ran, completed, notes, processed, fails, restarts>>

Absent == -1

Init ==
  /\ tip = 0
  /\ row = [p \in Name |-> Absent]
  /\ height = [p \in Name |-> Absent]
  /\ next = [p \in Name |-> Absent]
  /\ running = [p \in Name |-> {}]
  /\ ran = [p \in Name |-> {}]
  /\ completed = [p \in Name |-> {}]
  /\ notes = [p \in Name |-> {}]
  /\ processed = [p \in Name |-> {}]
  /\ fails = 0
  /\ restarts = 0

-----------------------------------------------------------------------------
NewBlock ==
  /\ tip < MaxTip
  /\ tip' = tip + 1
  /\ UNCHANGED <<row, height, next, running, ran, completed, notes, processed, fails, restarts>>

\* CreatePin at height 0; the row of an earlier process stays as it is.
CreatePin(p) ==
  /\ height[p] = Absent
  /\ row' = [row EXCEPT ![p] = IF @ = Absent THEN 0 ELSE @]
  /\ height' = [height EXCEPT ![p] = 0]
  /\ UNCHANGED <<tip, next, running, ran, completed, notes, processed, fails, restarts>>

\* ProcessBlocks gets the pin and its height.
ProcessBlocks(p) ==
  /\ height[p] # Absent
  /\ next[p] = Absent
  /\ next' = [next EXCEPT ![p] = height[p]]
  /\ UNCHANGED <<tip, row, height, running, ran, completed, notes, processed, fails, restarts>>

\* One round of its loop: the block is there and the semaphore has a place.
Spawn(p) ==
  /\ next[p] # Absent
  /\ tip >= next[p] + 1
  /\ Cardinality(running[p] \cup ran[p]) < Workers
  /\ next' = [next EXCEPT ![p] = @ + 1]
  /\ running' = [running EXCEPT ![p] = @ \cup {next[p] + 1}]
  /\ UNCHANGED <<tip, row, height, ran, completed, notes, processed, fails, restarts>>

\* Mutant: the callback waits for its own block too.
ReadyOwn(p, h) == \A n \in Needs : n[1] = p => height[n[2]] >= h

\* The PinWaiters the callback of p for block h goes through.
Ready(p, h) == \A n \in Needs : n[1] = p => height[n[2]] >= h - n[3]

\* The callback returns nil (one that fails is retried: nothing changes here).
Callback(p, h) ==
  /\ h \in running[p]
  /\ Ready(p, h)
  /\ running' = [running EXCEPT ![p] = @ \ {h}]
  /\ ran' = [ran EXCEPT ![p] = @ \cup {h}]
  /\ processed' = [processed EXCEPT ![p] = @ \cup {h}]
  /\ UNCHANGED <<tip, row, height, next, completed, notes, fails, restarts>>

\* Mutant: the pin moves to a completed height over the gap below it.
ReachedOverGap(C, from, max) == from <= max /\ max \in C

\* complete: max is the end of the run of completed heights above the pin.
Reached(C, from, max) ==
  /\ from <= max
  /\ (from + 1) .. max \subseteq C
  /\ max + 1 \notin C

\* The statements of complete: the update and the notification both run, or
\* one of them fails and the pin in memory stays behind.
Advance(p, C, max) ==
  LET updated  == [row EXCEPT ![p] = IF @ < max THEN max ELSE @]
      notified == [notes EXCEPT ![p] = @ \cup {max}]
  IN \/ /\ row' = updated
        /\ notes' = notified
        /\ height' = [height EXCEPT ![p] = max]
        /\ completed' = [completed EXCEPT ![p] = {k \in C : k > max}]
        /\ UNCHANGED fails
     \/ /\ fails < MaxFail
        /\ fails' = fails + 1
        /\ \/ row' \in {row, updated} /\ UNCHANGED notes
           \/ row' = updated /\ notes' = notified
        /\ completed' = [completed EXCEPT ![p] = C]
        /\ UNCHANGED height

\* A goroutine runs complete and gives its place in the semaphore back.
Complete(p, h) ==
  /\ h \in ran[p]
  /\ ran' = [ran EXCEPT ![p] = @ \ {h}]
  /\ \E max \in height[p] .. tip :
       LET C == completed[p] \cup {h} IN
       /\ Reached(C, height[p], max)
       /\ IF max = height[p]
          THEN /\ completed' = [completed EXCEPT ![p] = C]
               /\ UNCHANGED <<row, height, notes, fails>>
          ELSE Advance(p, C, max)
  /\ UNCHANGED <<tip, next, running, processed, restarts>>

\* The Listen goroutine hears of a height; it makes the pin if there is none.
Listen(p, h) ==
  /\ h \in notes[p]
  /\ notes' = [notes EXCEPT ![p] = @ \ {h}]
  /\ height' = [height EXCEPT ![p] = IF @ < h THEN h ELSE @]
  /\ UNCHANGED <<tip, row, next, running, ran, completed, processed, fails, restarts>>

\* The process ends, and another one loads the pins from the table (LoadAll).
Restart ==
  /\ restarts < MaxRestart
  /\ restarts' = restarts + 1
  /\ height' = row
  /\ next' = [p \in Name |-> Absent]
  /\ running' = [p \in Name |-> {}]
  /\ ran' = [p \in Name |-> {}]
  /\ completed' = [p \in Name |-> {}]
  /\ notes' = [p \in Name |-> {}]
  /\ UNCHANGED <<tip, row, processed, fails>>

-----------------------------------------------------------------------------
Process(p) ==
  \/ CreatePin(p)
  \/ ProcessBlocks(p)
  \/ Spawn(p)
  \/ \E h \in running[p] : Callback(p, h)
  \/ \E h \in ran[p] : Complete(p, h)

Next ==
  \/ NewBlock
  \/ \E p \in Name : Process(p)
  \/ \E p \in Name : \E h \in notes[p] : Listen(p, h)
  \/ Restart

Spec == Init /\ [][Next]_vars

(***************************************************************************)
(* Every goroutine that can take a step takes one in the end: the loop of  *)
(* ProcessBlocks, and each of the goroutines it has started.               *)
(***************************************************************************)
FairSpec ==
  /\ Spec
  /\ \A p \in Name :
       /\ WF_vars(CreatePin(p))
       /\ WF_vars(ProcessBlocks(p))
       /\ WF_vars(Spawn(p))
       /\ \A h \in 1 .. MaxTip : WF_vars(Callback(p, h)) /\ WF_vars(Complete(p, h))

-----------------------------------------------------------------------------
Height == Nat \cup {Absent}

TypeOK ==
  /\ tip \in Nat
  /\ row \in [Name -> Height] /\ height \in [Name -> Height] /\ next \in [Name -> Height]
  /\ running \in [Name -> SUBSET Nat] /\ ran \in [Name -> SUBSET Nat]
  /\ completed \in [Name -> SUBSET Nat] /\ notes \in [Name -> SUBSET Nat]
  /\ processed \in [Name -> SUBSET Nat]
  /\ fails \in Nat /\ restarts \in Nat

(***************************************************************************)
(* A pin never stands above a block its callback has not handled, neither  *)
(* in memory, where PinWaiter reads it, nor in the table a restart resumes *)
(* from, although blocks are handled out of order and complete may fail.   *)
(***************************************************************************)
NoGap ==
  \A p \in Name, h \in 1 .. tip :
    h <= height[p] \/ h <= row[p] => h \in processed[p]

(***************************************************************************)
(* A block is handled only after the blocks the PinWaiters of its callback *)
(* ask for: transactions are annotated after the assets and accounts of    *)
(* their block and after the transactions of the block below.              *)
(***************************************************************************)
NeedsMet ==
  \A n \in Needs, h \in 1 .. tip :
    h \in processed[n[1]] =>
      \A k \in 1 .. tip : k <= h - n[3] => k \in processed[n[2]]

(***************************************************************************)
(* Every pin reaches every block, across restarts, unless a statement of   *)
(* complete has failed: no worker waits for a pin that waits for it, and   *)
(* the semaphore is never held by waiters only.                            *)
(***************************************************************************)
PinsCatchUp ==
  \A p \in Name, h \in 1 .. MaxTip : (tip >= h) ~> (height[p] >= h \/ fails > 0)

(***************************************************************************)
(* IndexTransactions "saves all annotated transactions to the database":   *)
(* the callback of each pin handles every block in the end.                *)
(***************************************************************************)
AllProcessed ==
  \A p \in Name, h \in 1 .. MaxTip : (tip >= h) ~> (h \in processed[p])
=============================================================================
