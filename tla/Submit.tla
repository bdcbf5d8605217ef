------------------------------- MODULE Submit -------------------------------
(***************************************************************************)
(* core/transact.go and txbuilder/finalize.go: a core submits transactions *)
(* to the generator and waits until they are in a block.  A client may     *)
(* send a transaction several times, after a time-out too; submitted_txs   *)
(* has the height below which it cannot have been confirmed.  The block at *)
(* height h has timestamp h.                                               *)
(***************************************************************************)
EXTENDS Replica

CONSTANTS Request,      \* calls of submitSingle
          Args,         \* what they may be called with: functions to [tx, waitUntil]
          MaxTime,      \* the latest block a transaction can be in; 0: any
          Unsigned,     \* transactions that checkTxSighashCommitment refuses
          Invalid,      \* transactions that ValidateTx refuses, whatever the chain
          NoRow

ASSUME SubmitAssumption ==
  /\ MaxTime \in [Tx -> Nat]
  /\ Args \subseteq [Request -> [tx : Tx, waitUntil : {"none", "confirmed", "processed"}]]
  /\ NoRow \notin Nat

VARIABLES pool,           \* of the generator
          submitted_txs,  \* tx -> height, or NoRow
          processed,      \* the lowest pin
          request,        \* tx, waitUntil, height and what finalizeTxWait is at
          cleaned         \* history: transactions whose row was deleted

subvars == <<pool, submitted_txs, processed, request, cleaned>>
svars == <<rvars, subvars>>

SubmitInit ==
  /\ ReplicaInit
  /\ pool = {} /\ submitted_txs = [t \in Tx |-> NoRow] /\ processed = 0
  /\ \E args \in Args :
       request = [r \in Request |-> [at |-> "new", tx |-> args[r].tx, waitUntil |-> args[r].waitUntil, height |-> 0]]
  /\ cleaned = {}

OnChain(blocks) == UNION {blocks[h].txs : h \in DOMAIN blocks}
Expired(t, time) == MaxTime[t] > 0 /\ MaxTime[t] < time

\* The generator empties its pool.  A transaction is left out when one of another core
\* conflicts with it, or when the generator has lost its pool in a restart.
MakeBlock ==
  /\ \E txs \in SUBSET pool :
       /\ \A t \in txs : ~Expired(t, Len(chain) + 1) /\ t \notin OnChain(chain)
       /\ GeneratorBlock(txs, TRUE)
  /\ pool' = {}
  /\ UNCHANGED <<submitted_txs, processed, request, cleaned>>
-----------------------------------------------------------------------------
Goes(r, at) == request' = [request EXCEPT ![r].at = at]

\* finalizeTxWait up to recordSubmittedTx.
submitSingle(r) ==
  /\ request[r].at = "new"
  /\ request' = [request EXCEPT ![r].at = "record",
                                ![r].height = IF Len(applied) > generatorHeight THEN Len(applied) ELSE generatorHeight]
  /\ UNCHANGED <<rvars, pool, submitted_txs, processed, cleaned>>

\* Mutant: the height is always that of the newest request.
KeepNewest(old, new) == new

\* ON CONFLICT DO NOTHING.
Keep(old, new) == IF old = NoRow THEN new ELSE old
recordSubmittedTx(r) ==
  LET t == request[r].tx
  IN /\ request[r].at = "record"
     /\ submitted_txs' = [submitted_txs EXCEPT ![t] = Keep(@, request[r].height)]
     /\ Goes(r, IF submitted_txs[t] = NoRow THEN "finalize" ELSE "lookup")
     /\ UNCHANGED <<rvars, pool, processed, cleaned>>
LookupSubmittedTx(r) ==
  LET row == submitted_txs[request[r].tx]
  IN /\ request[r].at = "lookup"
     /\ request' = [request EXCEPT ![r].at = IF row = NoRow THEN "error" ELSE "finalize",
                                   ![r].height = IF row = NoRow THEN @ ELSE row]
     /\ UNCHANGED <<rvars, pool, submitted_txs, processed, cleaned>>

\* It waits for the first block, whatever the context says.
FinalizeTx(r, at) ==
  LET t == request[r].tx
  IN \/ t \in Unsigned /\ Goes(r, "error") /\ UNCHANGED pool
     \/ t \in Invalid \ Unsigned /\ applied # <<>> /\ Goes(r, "rejected") /\ UNCHANGED pool
     \/ /\ t \notin Invalid \cup Unsigned /\ applied # <<>>
        /\ pool' = pool \cup {t}
        /\ request' = [request EXCEPT ![r].at = at, ![r].height = IF at = "wait" THEN @ + 1 ELSE @]
finalizeTxWait(r) ==
  /\ request[r].at = "finalize"
  /\ FinalizeTx(r, IF request[r].waitUntil = "none" THEN "ok" ELSE "wait")
  /\ UNCHANGED <<rvars, submitted_txs, processed, cleaned>>

\* A transaction is given up when its block cannot come any more.
waitForTxInBlock(r) ==
  LET t == request[r].tx
      h == request[r].height
  IN /\ request[r].at = "wait"
     /\ h <= Len(applied)
     /\ CASE t \in applied[h].txs -> Goes(r, IF request[r].waitUntil = "confirmed" THEN "ok" ELSE "pins") /\ UNCHANGED pool
          [] t \notin applied[h].txs /\ Expired(t, h) -> Goes(r, "rejected") /\ UNCHANGED pool
          [] OTHER -> FinalizeTx(r, "wait")
     /\ UNCHANGED <<rvars, submitted_txs, processed, cleaned>>

AllPins(h) == processed >= h
AllWaiter(r) ==
  /\ request[r].at = "pins"
  /\ AllPins(request[r].height)
  /\ Goes(r, "ok")
  /\ UNCHANGED <<rvars, pool, submitted_txs, processed, cleaned>>

\* Mutant: the wait for a block does not watch the context.
WatchedOnce == {"record", "lookup", "pins"}

\* Where the context's end is noticed, or a statement or a call fails.
Watched == {"record", "lookup", "wait", "pins"}

\* A call of Submit may be under way.
Submitting(r) ==
  /\ request[r].at = "finalize" \/ (request[r].at = "wait" /\ request[r].height <= Len(applied))
  /\ request[r].tx \notin Invalid \cup Unsigned

\* The row or the transaction may have got through all the same.
Fails(r) ==
  LET t == request[r].tx
  IN /\ request[r].at \in Watched \/ (request[r].at = "finalize" /\ applied # <<>>)
     /\ Goes(r, "error")
     /\ \/ UNCHANGED <<pool, submitted_txs>>
        \/ request[r].at = "record" /\ submitted_txs' = [submitted_txs EXCEPT ![t] = Keep(@, request[r].height)] /\ UNCHANGED pool
        \/ Submitting(r) /\ pool' = pool \cup {t} /\ UNCHANGED submitted_txs
     /\ UNCHANGED <<rvars, processed, cleaned>>
-----------------------------------------------------------------------------
\* A row is deleted after a day.
cleanUpSubmittedTxs ==
  \E t \in Tx :
    /\ submitted_txs[t] # NoRow
    /\ submitted_txs' = [submitted_txs EXCEPT ![t] = NoRow]
    /\ cleaned' = cleaned \cup {t}
    /\ UNCHANGED <<rvars, pool, processed, request>>

ProcessBlock ==
  /\ processed < Len(applied)
  /\ processed' = processed + 1
  /\ UNCHANGED <<rvars, pool, submitted_txs, request, cleaned>>

Stepping(r) ==
  recordSubmittedTx(r) \/ LookupSubmittedTx(r) \/ finalizeTxWait(r) \/ waitForTxInBlock(r) \/ AllWaiter(r) \/ Fails(r)
SubmitNext ==
  \/ MakeBlock \/ ((Apply \/ updateGeneratorHeight) /\ UNCHANGED subvars) \/ cleanUpSubmittedTxs \/ ProcessBlock
  \/ \E r \in Request : submitSingle(r) \/ Stepping(r)
SubmitSpec == SubmitInit /\ [][SubmitNext]_svars
-----------------------------------------------------------------------------
\* A transaction is rejected only when no block has it or ever will: a client that sends
\* it again after a time-out is told that it is confirmed, as long as the row of the
\* first call is kept (transact.go, recordSubmittedTx, waitForTxInBlock).
RejectedIsNowhere ==
  \A r \in Request :
    LET t == request[r].tx
    IN (request[r].at = "rejected" /\ t \notin cleaned) => t \notin OnChain(chain)

\* A request that waited and succeeded has its transaction in a block of this core, and
\* if it waited for processing, the pins are past that block (transact.go,
\* finalizeTxWait).
OkIsConfirmed ==
  \A r \in Request :
    (request[r].at = "ok" /\ request[r].waitUntil # "none") =>
      \E h \in DOMAIN applied :
        /\ request[r].tx \in applied[h].txs
        /\ request[r].waitUntil = "processed" => processed >= h

\* What a client is told of its transaction is true, rejected or confirmed (transact.go).
AnswersAreTrue == RejectedIsNowhere /\ OkIsConfirmed

\* Once the core has a block, no request stays unanswered (transact.go, submit).
RequestsAnswered ==
  <>[](applied # <<>> => \A r \in Request : request[r].at \in {"new", "ok", "rejected", "error"})
=============================================================================
