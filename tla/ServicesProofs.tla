--------------------------- MODULE ServicesProofs ---------------------------
(***************************************************************************)
(* The services beside the chain, for every value of their constants:      *)
(* leader election, the submission of transactions, block fetching, and    *)
(* the arithmetic of math/checked.  No part uses facts of another.         *)
(***************************************************************************)
EXTENDS Leader, Submit, Fetch, Checked, TLAPS

-----------------------------------------------------------------------------
(***************************************************************************)
(* Leader election is safe for any number of processes, any lease and any  *)
(* number of failed statements and restarts.                               *)
(***************************************************************************)
ChangesAt == {"try", "elected", "maintain", "demoted"}

\* A lease a process knows of is the row's, and no longer than what is left of it.
LeaseInv ==
  /\ row \in [key : Process \cup {NoKey}, left : Int]
  /\ lease \in [Process -> Int]
  /\ changes \in [Process -> ChangesAt]
  /\ \A p \in Process : lease[p] <= Lease
  /\ \A p \in Process : lease[p] >= 0 => row.key = p /\ lease[p] <= row.left

\* A process is Following until Run hears that it is elected, and again once it has
\* heard that it is demoted.
RunInv ==
  /\ changes \in [Process -> ChangesAt]
  /\ loop \in [Process -> {"receive", "lead"}]
  /\ state \in [Process -> {"Following", "Recovering", "Leading"}]
  /\ contexts \in [Process -> Int]
  /\ \A p \in Process : state[p] = "Following" <=> changes[p] \in {"try", "elected"}
  /\ \A p \in Process : loop[p] = "lead" => state[p] # "Following"
  /\ OneLeadContext

\* Whatever fails, is late or is restarted, a lease that has not expired belongs to one
\* process (leader.go, tryForLeadership and maintainLeadership).
THEOREM LeaderLeaseExclusive == LeaderSpec => []LeaseExclusive
<1>1. LeaderInit => LeaseInv
  BY LeaderAssumption DEF LeaderInit, LeaseInv, ChangesAt
<1>2. LeaseInv /\ [LeaderNext]_lvars => LeaseInv'
  <2> SUFFICES ASSUME LeaseInv, [LeaderNext]_lvars
               PROVE  LeaseInv'
    BY Zenon
  <2> USE LeaderAssumption DEF LeaseInv, ChangesAt
  <2>1. CASE Tick
    <3>1. /\ row' = [row EXCEPT !.left = Shorter(@)]
          /\ lease' = [p \in Process |-> Shorter(lease[p])]
          /\ changes' = changes
      BY <2>1, Zenon DEF Tick
    <3>2. ASSUME NEW p \in Process
          PROVE  lease'[p] <= Lease /\ (lease'[p] >= 0 => row'.key = p /\ lease'[p] <= row'.left)
      BY <3>1 DEF Shorter
    <3> QED
      BY <3>1, <3>2 DEF Shorter
  <2>2. ASSUME NEW p \in Process, tryForLeadership(p)
        PROVE  LeaseInv'
    <3>1. \A q \in Process : ~(lease[q] >= 0)
      BY <2>2 DEF tryForLeadership, Free
    <3> QED
      BY <2>2, <3>1 DEF tryForLeadership, Free
  <2>3. ASSUME NEW p \in Process, maintainLeadership(p)
        PROVE  LeaseInv'
    <3>1. changes' \in [Process -> ChangesAt]
      BY <2>3, Zenon DEF maintainLeadership
    <3>2. CASE row.key = p
      BY <2>3, <3>1, <3>2 DEF maintainLeadership
    <3>3. CASE row.key # p
      BY <2>3, <3>1, <3>3, Zenon DEF maintainLeadership
    <3> QED
      BY <3>2, <3>3, Zenon
  <2>4. ASSUME NEW p \in Process, Fail(p)
        PROVE  LeaseInv'
    <3>1. lease' = lease /\ changes' \in [Process -> ChangesAt]
      BY <2>4, Zenon DEF Fail
    <3>2. CASE row' = row
      BY <3>1, <3>2, Zenon
    <3>3. CASE row' # row
      <4>1. row' = [key |-> p, left |-> Lease] /\ (Free \/ row.key = p)
        BY <2>4, <3>3, Zenon DEF Fail
      <4>2. CASE Free
        <5>1. \A q \in Process : ~(lease[q] >= 0)
          BY <4>2 DEF Free
        <5> QED
          BY <3>1, <4>1, <5>1
      <4>3. CASE row.key = p
        BY <3>1, <4>1, <4>3
      <4> QED
        BY <4>1, <4>2, <4>3, Zenon
    <3> QED
      BY <3>2, <3>3, Zenon
  <2>5. ASSUME NEW p \in Process, Elected(p) \/ Demoted(p) \/ LeadReturns(p)
        PROVE  LeaseInv'
    BY <2>5, Zenon DEF Elected, Demoted, LeadReturns
  <2>6. ASSUME NEW p \in Process, RestartProcess(p)
        PROVE  LeaseInv'
    BY <2>6 DEF RestartProcess
  <2>7. CASE UNCHANGED lvars
    BY <2>7, Zenon DEF lvars
  <2> QED
    BY <2>1, <2>2, <2>3, <2>4, <2>5, <2>6, <2>7, Zenon DEF LeaderNext, Statement, Receive
<1>3. LeaseInv => LeaseExclusive
  BY Zenon DEF LeaseInv, LeaseExclusive
<1> QED
  BY <1>1, <1>2, <1>3, PTL DEF LeaderSpec

\* A process that leads has one context for what it does as a leader, and none is left
\* when it follows, however elections, failures and restarts fall (leader.go, Run).
THEOREM LeaderOneContext == LeaderSpec => []OneLeadContext
<1>1. LeaderInit => RunInv
  BY DEF LeaderInit, RunInv, OneLeadContext, ChangesAt
<1>2. RunInv /\ [LeaderNext]_lvars => RunInv'
  <2> SUFFICES ASSUME RunInv, [LeaderNext]_lvars
               PROVE  RunInv'
    BY Zenon
  <2> USE DEF RunInv, OneLeadContext, ChangesAt
  <2>1. CASE Tick
    BY <2>1, Zenon DEF Tick
  <2>2. ASSUME NEW p \in Process, tryForLeadership(p)
        PROVE  RunInv'
    BY <2>2, Zenon DEF tryForLeadership
  <2>3. ASSUME NEW p \in Process, maintainLeadership(p)
        PROVE  RunInv'
    BY <2>3, Zenon DEF maintainLeadership
  <2>4. ASSUME NEW p \in Process, Fail(p)
        PROVE  RunInv'
    BY <2>4, Zenon DEF Fail
  <2>5. ASSUME NEW p \in Process, Elected(p)
        PROVE  RunInv'
    BY <2>5 DEF Elected
  <2>6. ASSUME NEW p \in Process, LeadReturns(p)
        PROVE  RunInv'
    BY <2>6, Zenon DEF LeadReturns
  <2>7. ASSUME NEW p \in Process, Demoted(p)
        PROVE  RunInv'
    BY <2>7 DEF Demoted, cancel
  <2>8. ASSUME NEW p \in Process, RestartProcess(p)
        PROVE  RunInv'
    BY <2>8 DEF RestartProcess
  <2>9. CASE UNCHANGED lvars
    BY <2>9, Zenon DEF lvars
  <2> QED
    BY <2>1, <2>2, <2>3, <2>4, <2>5, <2>6, <2>7, <2>8, <2>9, Zenon DEF LeaderNext, Statement, Receive
<1>3. RunInv => OneLeadContext
  BY Zenon DEF RunInv
<1> QED
  BY <1>1, <1>2, <1>3, PTL DEF LeaderSpec

\* At most one process holds the lease, and it leads at most once at a time, for any
\* number of processes, failed statements and restarts (leader.go).
THEOREM LeaderExclusive == LeaderSpec => []LeadersExclusive
<1>1. LeaseExclusive /\ OneLeadContext => LeadersExclusive
  BY Zenon DEF LeadersExclusive
<1> QED
  BY <1>1, LeaderLeaseExclusive, LeaderOneContext, PTL

-----------------------------------------------------------------------------
(***************************************************************************)
(* What a client is told about a transaction is true, for any number of    *)
(* requests, transactions and blocks and wherever calls fail.              *)
(***************************************************************************)
Block == [txs : SUBSET Tx, valid : BOOLEAN]
At == {"new", "record", "lookup", "finalize", "wait", "pins", "ok", "rejected", "error"}
Refused == Invalid \cup Unsigned

Types ==
  /\ chain \in Seq(Block) /\ applied \in Seq(Block)
  /\ generatorHeight \in Nat /\ processed \in Nat
  /\ pool \in SUBSET Tx /\ cleaned \in SUBSET Tx
  /\ submitted_txs \in [Tx -> Nat \cup {NoRow}]
  /\ request \in [Request -> [at : At, tx : Tx, waitUntil : {"none", "confirmed", "processed"}, height : Nat]]

\* The core's chain is a prefix of the generator's; blocks have nothing that was refused
\* or had expired.
ChainInv ==
  /\ Len(applied) <= Len(chain) /\ generatorHeight <= Len(chain)
  /\ \A h \in 1 .. Len(applied) : applied[h] = chain[h]
  /\ \A h \in 1 .. Len(chain) : \A t \in chain[h].txs : t \notin Refused /\ ~Expired(t, h)
  /\ \A t \in pool : t \notin Refused

\* No block up to h has t.
Absent(t, h) == \A k \in 1 .. Len(chain) : k <= h => t \notin chain[k].txs

\* The height in a row is a lower bound of the block the transaction is in; before
\* there is a row the transaction has not left the core.
RowInv ==
  \A t \in Tx : t \notin cleaned =>
    /\ submitted_txs[t] = NoRow => t \notin pool /\ Absent(t, Len(chain))
    /\ submitted_txs[t] # NoRow => submitted_txs[t] <= Len(chain) /\ Absent(t, submitted_txs[t])

\* A request has looked at every block from that bound on.
Scanned(q) ==
  /\ q.at \in {"lookup", "finalize", "wait"} => submitted_txs[q.tx] # NoRow
  /\ q.at = "finalize" => q.height <= Len(chain) /\ Absent(q.tx, q.height)
  /\ q.at = "wait" => q.height - 1 <= Len(chain) /\ Absent(q.tx, q.height - 1)
  /\ q.at = "rejected" => Absent(q.tx, Len(chain)) /\ (q.tx \in Refused \/ Expired(q.tx, Len(chain)))
Told(q) ==
  /\ q.at = "record" => q.height <= Len(chain)
  /\ q.at = "wait" => q.height >= 1
  /\ q.at = "pins" => q.height \in 1 .. Len(applied) /\ q.tx \in applied[q.height].txs
  /\ (q.at = "ok" /\ q.waitUntil # "none") =>
       \E h \in 1 .. Len(applied) : q.tx \in applied[h].txs /\ (q.waitUntil = "processed" => processed >= h)
RequestInv == \A r \in Request : Told(request[r]) /\ (request[r].tx \notin cleaned => Scanned(request[r]))

SubmitInv == Types /\ ChainInv /\ RowInv /\ RequestInv

\* No request has been made yet.
LEMMA InitInv == ASSUME SubmitInit PROVE SubmitInv
<1> USE DEF SubmitInit, ReplicaInit
<1>1. PICK args \in Args :
        request = [r \in Request |-> [at |-> "new", tx |-> args[r].tx, waitUntil |-> args[r].waitUntil, height |-> 0]]
  BY Zenon
<1>2. args \in [Request -> [tx : Tx, waitUntil : {"none", "confirmed", "processed"}]]
  BY SubmitAssumption, Zenon
<1>3. Types
  BY <1>1, <1>2 DEF Types, At, Block
<1>4. ChainInv /\ RowInv
  BY DEF ChainInv, RowInv, Absent
<1>5. RequestInv
  BY <1>1, Zenon DEF RequestInv, Told, Scanned
<1> QED
  BY <1>3, <1>4, <1>5, Zenon DEF SubmitInv

\* A block that the generator makes.
LEMMA MakeBlockInv == ASSUME SubmitInv, MakeBlock PROVE SubmitInv'
<1> USE SubmitAssumption DEF SubmitInv
<1>1. PICK txs \in SUBSET pool :
        /\ \A t \in txs : ~Expired(t, Len(chain) + 1) /\ t \notin OnChain(chain)
        /\ chain' = Append(chain, [txs |-> txs, valid |-> TRUE])
        /\ UNCHANGED <<applied, generatorHeight>>
  BY Zenon DEF MakeBlock, GeneratorBlock
<1>2. pool' = {} /\ UNCHANGED <<submitted_txs, processed, request, cleaned>>
  BY Zenon DEF MakeBlock
<1>3. /\ chain' \in Seq(Block) /\ Len(chain') = Len(chain) + 1
      /\ \A h \in 1 .. Len(chain) : chain'[h] = chain[h]
      /\ chain'[Len(chain) + 1].txs = txs
      /\ Len(chain) \in Nat
  BY <1>1 DEF Types, Block
<1>4. Types'
  BY <1>1, <1>2, <1>3, Zenon DEF Types
<1>5. ChainInv'
  BY <1>1, <1>2, <1>3 DEF ChainInv, Types, Expired
<1>6. ASSUME NEW t, NEW h \in Int, h <= Len(chain), Absent(t, h)
      PROVE  Absent(t, h)'
  BY <1>3, <1>6 DEF Absent
<1>7. ASSUME NEW t, Absent(t, Len(chain)), t \notin txs
      PROVE  Absent(t, Len(chain))'
  <2> SUFFICES ASSUME NEW k \in 1 .. Len(chain'), k <= Len(chain')
               PROVE  t \notin chain'[k].txs
    BY Zenon DEF Absent
  <2>1. CASE k = Len(chain) + 1
    BY <1>3, <1>7, <2>1, Zenon
  <2>2. CASE k # Len(chain) + 1
    BY <1>3, <1>7, <2>2 DEF Absent
  <2> QED
    BY <2>1, <2>2, Zenon
<1>8. RowInv'
  BY <1>1, <1>2, <1>3, <1>6, <1>7 DEF RowInv, Types
<1>9. ASSUME NEW r \in Request
      PROVE  Told(request[r])' /\ (request'[r].tx \notin cleaned' => Scanned(request[r])')
  <2>0. PICK q : q = request[r]
    BY Zenon
  <2>1. q.height \in Nat /\ q.tx \in Tx /\ request'[r] = q
    BY <1>2, <2>0, Zenon DEF Types
  <2>2. Told(q)'
    BY <1>1, <1>2, <1>3, <2>0, <2>1 DEF RequestInv, Told, Types
  <2>3. ASSUME q.tx \notin cleaned
        PROVE  Scanned(q)'
    <3>1. Scanned(q)
      BY <2>0, <2>3, Zenon DEF RequestInv
    <3>2. ASSUME q.at = "rejected"
          PROVE  Absent(q.tx, Len(chain))' /\ (q.tx \in Refused \/ Expired(q.tx, Len(chain))')
      <4>1. Absent(q.tx, Len(chain)) /\ (q.tx \in Refused \/ Expired(q.tx, Len(chain)))
        BY <3>1, <3>2, Zenon DEF Scanned
      <4>2. MaxTime[q.tx] \in Nat
        BY <2>1, Zenon
      <4>3. q.tx \notin txs
        BY <1>1, <1>3, <4>1, <4>2 DEF ChainInv, Expired
      <4> QED
        BY <1>3, <1>7, <4>1, <4>2, <4>3 DEF Expired
    <3>3. q.at = "finalize" => q.height <= Len(chain)' /\ Absent(q.tx, q.height)'
      BY <1>3, <1>6, <2>1, <3>1 DEF Scanned
    <3>4. q.at = "wait" => q.height - 1 <= Len(chain)' /\ Absent(q.tx, q.height - 1)'
      BY <1>3, <1>6, <2>1, <3>1 DEF Scanned
    <3> QED
      BY <1>2, <2>1, <3>1, <3>2, <3>3, <3>4, Zenon DEF Scanned
  <2> QED
    BY <1>2, <2>0, <2>1, <2>2, <2>3, Zenon
<1> QED
  BY <1>4, <1>5, <1>8, <1>9, Zenon DEF RequestInv

\* A block that the core applies.
LEMMA ApplyInv == ASSUME SubmitInv, Apply, UNCHANGED subvars PROVE SubmitInv'
<1> USE DEF SubmitInv, subvars
<1>1. /\ Len(applied) + 1 \in 1 .. Len(chain)
      /\ applied' = Append(applied, chain[Len(applied) + 1])
      /\ UNCHANGED <<chain, generatorHeight>>
  BY DEF Apply, Types, ChainInv
<1>2. /\ applied' \in Seq(Block) /\ Len(applied') = Len(applied) + 1
      /\ \A h \in 1 .. Len(applied) : applied'[h] = applied[h]
      /\ applied'[Len(applied) + 1] = chain[Len(applied) + 1]
  BY <1>1 DEF Types
<1>3. Types'
  BY <1>1, <1>2, Zenon DEF Types
<1>4. ChainInv'
  <2>1. \A h \in 1 .. Len(applied') : applied'[h] = chain'[h]
    BY <1>1, <1>2 DEF ChainInv, Types
  <2> QED
    BY <1>1, <1>2, <2>1 DEF ChainInv, Types
<1>5. RowInv'
  BY <1>1, Zenon DEF RowInv, Absent
<1>6. ASSUME NEW r \in Request
      PROVE  Told(request[r])' /\ (request'[r].tx \notin cleaned' => Scanned(request[r])')
  <2>1. Told(request[r])'
    <3>1. PICK q : q = request[r] /\ request'[r] = q
      BY Zenon
    <3>2. Told(q) /\ Len(applied) \in Nat
      BY <3>1 DEF RequestInv, Types
    <3>3. q.at = "pins" => q.height \in 1 .. Len(applied') /\ q.tx \in applied'[q.height].txs
      BY <1>2, <3>2 DEF Told
    <3>4. (q.at = "ok" /\ q.waitUntil # "none") =>
            \E h \in 1 .. Len(applied') : q.tx \in applied'[h].txs /\ (q.waitUntil = "processed" => processed >= h)
      BY <1>2, <3>2 DEF Told
    <3> QED
      BY <1>1, <3>1, <3>2, <3>3, <3>4, Zenon DEF Told
  <2>2. request[r].tx \notin cleaned => Scanned(request[r])'
    BY <1>1, Zenon DEF RequestInv, Scanned, Absent
  <2> QED
    BY <2>1, <2>2, Zenon
<1> QED
  BY <1>3, <1>4, <1>5, <1>6, Zenon DEF RequestInv

\* The generator's height is polled.
LEMMA PollInv == ASSUME SubmitInv, updateGeneratorHeight, UNCHANGED subvars PROVE SubmitInv'
<1> USE DEF SubmitInv, subvars, updateGeneratorHeight
<1>1. generatorHeight' = Len(chain) /\ Len(chain) \in Nat
  BY DEF Types
<1>2. Types'
  BY <1>1, Zenon DEF Types
<1>3. generatorHeight' <= Len(chain)
  BY <1>1
<1>4. ChainInv'
  BY <1>3, Zenon DEF ChainInv
<1>5. RowInv' /\ RequestInv'
  BY Zenon DEF RowInv, RequestInv, Told, Scanned, Absent
<1> QED
  BY <1>2, <1>4, <1>5, Zenon

\* What is known of a transaction is forgotten with its row.
LEMMA CleanInv == ASSUME SubmitInv, cleanUpSubmittedTxs PROVE SubmitInv'
<1> USE DEF SubmitInv
<1>1. PICK t \in Tx :
        /\ submitted_txs' = [submitted_txs EXCEPT ![t] = NoRow] /\ cleaned' = cleaned \cup {t}
        /\ UNCHANGED <<chain, applied, generatorHeight, pool, processed, request>>
  BY Zenon DEF cleanUpSubmittedTxs, rvars
<1>2. Types' /\ ChainInv'
  BY <1>1, Zenon DEF Types, ChainInv
<1>3. RowInv'
  BY <1>1, Zenon DEF RowInv, Absent, Types
<1>4. RequestInv'
  <2> SUFFICES ASSUME NEW r \in Request
               PROVE  Told(request[r])' /\ (request'[r].tx \notin cleaned' => Scanned(request[r])')
    BY Zenon DEF RequestInv
  <2>1. Told(request[r])'
    BY <1>1, Zenon DEF RequestInv, Told
  <2>2. request[r].tx \notin cleaned' => Scanned(request[r])'
    BY <1>1, Zenon DEF RequestInv, Scanned, Absent, Types
  <2> QED
    BY <1>1, <2>1, <2>2, Zenon
<1> QED
  BY <1>2, <1>3, <1>4, Zenon

\* A block processor moves the lowest pin.
LEMMA ProcessInv == ASSUME SubmitInv, ProcessBlock PROVE SubmitInv'
<1> USE DEF SubmitInv, ProcessBlock, rvars
<1>1. Types'
  BY DEF Types
<1>2. ChainInv'
  BY Zenon DEF ChainInv
<1>3. RowInv'
  BY Zenon DEF RowInv, Absent
<1>4. RequestInv'
  <2> SUFFICES ASSUME NEW r \in Request
               PROVE  Told(request[r])' /\ (request'[r].tx \notin cleaned' => Scanned(request[r])')
    BY Zenon DEF RequestInv
  <2>1. Told(request[r])'
    BY DEF RequestInv, Told, Types
  <2>2. request[r].tx \notin cleaned => Scanned(request[r])'
    BY Zenon DEF RequestInv, Scanned, Absent
  <2> QED
    BY <2>1, <2>2, Zenon
<1> QED
  BY <1>1, <1>2, <1>3, <1>4, Zenon
-----------------------------------------------------------------------------
RequestType == [at : At, tx : Tx, waitUntil : {"none", "confirmed", "processed"}, height : Nat]

\* A step of one request leaves what is known of the others as it is.
LEMMA OneRequest ==
  ASSUME SubmitInv, NEW r \in Request, NEW q \in RequestType,
         request' = [request EXCEPT ![r] = q],
         UNCHANGED <<rvars, processed, cleaned>>,
         \A t \in Tx : submitted_txs[t] # NoRow => submitted_txs'[t] # NoRow,
         Told(q)', q.tx \notin cleaned => Scanned(q)'
  PROVE  RequestInv' /\ request' \in [Request -> RequestType]
<1> USE DEF SubmitInv, rvars
<1>1. request \in [Request -> RequestType]
  BY Zenon DEF Types, RequestType
<1>2. ASSUME NEW s \in Request
      PROVE  Told(request[s])' /\ (request'[s].tx \notin cleaned' => Scanned(request[s])')
  <2>1. CASE s = r
    BY <1>1, <2>1, Zenon
  <2>2. CASE s # r
    <3>1. PICK p \in RequestType : p = request[s] /\ request'[s] = p
      BY <1>1, <2>2, Zenon
    <3>2. Told(p) /\ (p.tx \notin cleaned => Scanned(p))
      BY <3>1, Zenon DEF RequestInv
    <3>3. Told(p)'
      BY <3>2, Zenon DEF Told
    <3>4. p.tx \notin cleaned => Scanned(p)'
      BY <3>1, <3>2, Zenon DEF Scanned, Absent, RequestType
    <3> QED
      BY <3>1, <3>3, <3>4
  <2> QED
    BY <2>1, <2>2, Zenon
<1> QED
  BY <1>1, <1>2, Zenon DEF RequestInv

\* A step that touches nothing but requests.
LEMMA OnlyRequests ==
  ASSUME SubmitInv, UNCHANGED <<rvars, pool, submitted_txs, processed, cleaned>>,
         request' \in [Request -> RequestType], RequestInv'
  PROVE  SubmitInv'
<1> USE DEF SubmitInv, rvars
<1>1. Types'
  BY Zenon DEF Types, RequestType
<1>2. ChainInv'
  BY Zenon DEF ChainInv
<1>3. RowInv'
  BY Zenon DEF RowInv, Absent
<1> QED
  BY <1>1, <1>2, <1>3, Zenon

\* A transaction joins the pool once it has a row.
LEMMA Pooled ==
  ASSUME SubmitInv, UNCHANGED <<rvars, submitted_txs, processed, cleaned>>,
         NEW t \in Tx, t \notin Refused, t \notin cleaned => submitted_txs[t] # NoRow, pool' = pool \cup {t},
         request' \in [Request -> RequestType], RequestInv'
  PROVE  SubmitInv'
<1> USE DEF SubmitInv, rvars
<1>1. Types'
  BY Zenon DEF Types, RequestType
<1>2. ChainInv'
  BY Zenon DEF ChainInv
<1>3. RowInv'
  BY Zenon DEF RowInv, Absent
<1> QED
  BY <1>1, <1>2, <1>3, Zenon

\* A row is inserted, or is there already.
LEMMA Recorded ==
  ASSUME SubmitInv, UNCHANGED <<rvars, pool, processed, cleaned>>,
         NEW t \in Tx, NEW h \in Nat, h <= Len(chain),
         submitted_txs' = [submitted_txs EXCEPT ![t] = Keep(@, h)],
         request' \in [Request -> RequestType], RequestInv'
  PROVE  SubmitInv'
<1> USE DEF SubmitInv, rvars
<1>1. Types'
  BY Zenon DEF Types, RequestType, Keep
<1>2. ChainInv'
  BY Zenon DEF ChainInv
<1>3. RowInv'
  <2> SUFFICES ASSUME NEW u \in Tx, u \notin cleaned
               PROVE  /\ submitted_txs'[u] = NoRow => u \notin pool /\ Absent(u, Len(chain))
                      /\ submitted_txs'[u] # NoRow => submitted_txs'[u] <= Len(chain) /\ Absent(u, submitted_txs'[u])
    BY Zenon DEF RowInv, Absent
  <2>1. CASE u = t /\ submitted_txs[t] = NoRow
    <3>1. submitted_txs'[u] = h /\ Absent(u, Len(chain))
      BY <2>1, Zenon DEF RowInv, Types, Keep
    <3>2. Absent(u, h)
      BY <3>1 DEF Absent, Types
    <3> QED
      BY <3>1, <3>2, SubmitAssumption, Zenon
  <2>2. CASE ~(u = t /\ submitted_txs[t] = NoRow)
    <3>1. submitted_txs'[u] = submitted_txs[u]
      BY <2>2, Zenon DEF Types, Keep
    <3> QED
      BY <3>1, Zenon DEF RowInv
  <2> QED
    BY <2>1, <2>2, Zenon
<1> QED
  BY <1>1, <1>2, <1>3, Zenon
-----------------------------------------------------------------------------
\* submitSingle.
LEMMA SingleInv ==
  ASSUME SubmitInv, NEW r \in Request, submitSingle(r)
  PROVE  SubmitInv'
<1> USE DEF SubmitInv, rvars
<1>1. request[r] \in RequestType /\ Len(applied) \in Nat
  BY DEF Types, RequestType
<1>2. PICK q \in RequestType :
        q = [request[r] EXCEPT !.at = "record",
                               !.height = IF Len(applied) > generatorHeight THEN Len(applied) ELSE generatorHeight]
  BY <1>1, Zenon DEF Types, RequestType, At
<1>3. request' = [request EXCEPT ![r] = q] /\ UNCHANGED <<rvars, pool, submitted_txs, processed, cleaned>>
  BY <1>2, Zenon DEF submitSingle
<1>4. q.at = "record" /\ q.height <= Len(chain)
  BY <1>1, <1>2, Zenon DEF RequestType, ChainInv
<1>5. Told(q)' /\ Scanned(q)'
  BY <1>3, <1>4, Zenon DEF Told, Scanned
<1>6. RequestInv' /\ request' \in [Request -> RequestType]
  BY <1>3, <1>5, OneRequest, Zenon
<1> QED
  BY <1>3, <1>6, OnlyRequests, Zenon

\* recordSubmittedTx: the INSERT.
LEMMA RecordInv ==
  ASSUME SubmitInv, NEW r \in Request, recordSubmittedTx(r)
  PROVE  SubmitInv'
<1> USE DEF SubmitInv, rvars
<1>1. PICK p \in RequestType : p = request[r]
  BY Zenon DEF Types, RequestType
<1>2. p.at = "record" /\ p.tx \in Tx /\ p.height \in Nat /\ p.height <= Len(chain)
  BY <1>1, Zenon DEF recordSubmittedTx, RequestType, RequestInv, Told
<1>3. PICK q \in RequestType : q = [p EXCEPT !.at = IF submitted_txs[p.tx] = NoRow THEN "finalize" ELSE "lookup"]
  BY Zenon DEF RequestType, At
<1>4. /\ request' = [request EXCEPT ![r] = q]
      /\ submitted_txs' = [submitted_txs EXCEPT ![p.tx] = Keep(@, p.height)]
      /\ UNCHANGED <<rvars, pool, processed, cleaned>>
  BY <1>1, <1>3, Zenon DEF recordSubmittedTx, Goes
<1>5. /\ \A t \in Tx : submitted_txs[t] # NoRow => submitted_txs'[t] # NoRow
      /\ submitted_txs'[p.tx] # NoRow
  BY <1>2, <1>4, SubmitAssumption, Zenon DEF Keep, Types
<1>6. q.tx = p.tx /\ q.height = p.height /\ q.at \in {"finalize", "lookup"} /\ (q.at = "finalize" => submitted_txs[p.tx] = NoRow)
  BY <1>3, Zenon DEF RequestType
<1>7. Told(q)'
  BY <1>6, Zenon DEF Told
<1>8. q.tx \notin cleaned => Scanned(q)'
  <2>1. (q.tx \notin cleaned /\ q.at = "finalize") => Absent(q.tx, Len(chain))
    BY <1>2, <1>6, Zenon DEF RowInv
  <2>2. (q.tx \notin cleaned /\ q.at = "finalize") => Absent(q.tx, q.height)'
    BY <1>2, <1>4, <1>6, <2>1 DEF Absent, Types
  <2> QED
    BY <1>2, <1>4, <1>5, <1>6, <2>2, Zenon DEF Scanned
<1>9. RequestInv' /\ request' \in [Request -> RequestType]
  BY <1>4, <1>5, <1>7, <1>8, OneRequest, Zenon
<1> QED
  BY <1>2, <1>4, <1>9, Recorded, Zenon

\* recordSubmittedTx: the SELECT.
LEMMA LookupInv ==
  ASSUME SubmitInv, NEW r \in Request, LookupSubmittedTx(r)
  PROVE  SubmitInv'
<1> USE DEF SubmitInv, rvars
<1>1. PICK p \in RequestType : p = request[r]
  BY Zenon DEF Types, RequestType
<1>2. PICK seen : seen = submitted_txs[p.tx]
  BY Zenon
<1>3. p.tx \in Tx /\ seen \in Nat \cup {NoRow}
  BY <1>2, Zenon DEF Types, RequestType
<1>4. PICK q \in RequestType : q = [p EXCEPT !.at = IF seen = NoRow THEN "error" ELSE "finalize",
                                             !.height = IF seen = NoRow THEN @ ELSE seen]
  BY <1>3, Zenon DEF RequestType, At
<1>5. request' = [request EXCEPT ![r] = q] /\ UNCHANGED <<rvars, pool, submitted_txs, processed, cleaned>>
  BY <1>1, <1>2, <1>4, Zenon DEF LookupSubmittedTx
<1>6. Told(q)'
  BY <1>4, Zenon DEF Told, RequestType
<1>7. q.tx \notin cleaned => Scanned(q)'
  <2>1. q.tx = p.tx /\ q.at \in {"error", "finalize"} /\ (q.at = "finalize" => seen # NoRow /\ q.height = seen)
    BY <1>4, Zenon DEF RequestType
  <2>2. (q.tx \notin cleaned /\ q.at = "finalize") => q.height <= Len(chain) /\ Absent(q.tx, q.height)
    BY <1>2, <1>3, <2>1, Zenon DEF RowInv
  <2> QED
    BY <1>2, <1>5, <2>1, <2>2, Zenon DEF Scanned, Absent
<1>8. RequestInv' /\ request' \in [Request -> RequestType]
  BY <1>5, <1>6, <1>7, OneRequest, Zenon
<1> QED
  BY <1>5, <1>8, OnlyRequests, Zenon

\* A request that fails says nothing.
LEMMA Failed ==
  ASSUME SubmitInv, NEW r \in Request, Goes(r, "error"), UNCHANGED <<rvars, processed, cleaned>>,
         \A t \in Tx : submitted_txs[t] # NoRow => submitted_txs'[t] # NoRow
  PROVE  RequestInv' /\ request' \in [Request -> RequestType]
<1>1. PICK q \in RequestType : q = [request[r] EXCEPT !.at = "error"]
  BY Zenon DEF SubmitInv, Types, RequestType, At
<1>2. request' = [request EXCEPT ![r] = q] /\ q.at = "error"
  BY <1>1, Zenon DEF Goes, RequestType
<1>3. Told(q)' /\ Scanned(q)'
  BY <1>2, Zenon DEF Told, Scanned
<1> QED
  BY <1>2, <1>3, OneRequest, Zenon

\* FinalizeTx, on the first call and on the later ones: h is the height up to which the
\* request has looked for its transaction.
LEMMA FinalizeInv ==
  ASSUME SubmitInv, NEW r \in Request, NEW at \in {"ok", "wait"}, FinalizeTx(r, at),
         UNCHANGED <<rvars, submitted_txs, processed, cleaned>>,
         request[r].at \in {"finalize", "wait"},
         at = "ok" => request[r].waitUntil = "none",
         request[r].tx \notin cleaned => request[r].height <= Len(chain) /\ Absent(request[r].tx, request[r].height)
  PROVE  SubmitInv'
<1> USE DEF SubmitInv, rvars
<1>1. PICK p \in RequestType : p = request[r]
  BY Zenon DEF Types, RequestType
<1>2. p.tx \in Tx /\ p.height \in Nat
  BY Zenon DEF RequestType
<1>3. CASE p.tx \in Unsigned
  <2>1. Goes(r, "error") /\ UNCHANGED pool
    BY <1>1, <1>3, Zenon DEF FinalizeTx
  <2>2. RequestInv' /\ request' \in [Request -> RequestType]
    BY <2>1, Failed, Zenon
  <2> QED
    BY <2>1, <2>2, OnlyRequests, Zenon
<1>4. CASE p.tx \in Invalid \ Unsigned
  <2>1. Goes(r, "rejected") /\ UNCHANGED pool
    BY <1>1, <1>4, Zenon DEF FinalizeTx
  <2>2. PICK q \in RequestType : q = [p EXCEPT !.at = "rejected"]
    BY Zenon DEF RequestType, At
  <2>3. request' = [request EXCEPT ![r] = q] /\ q.at = "rejected" /\ q.tx = p.tx
    BY <1>1, <2>1, <2>2, Zenon DEF Goes, RequestType
  <2>4. q.tx \in Refused
    BY <1>4, <2>3, Zenon DEF Refused
  <2>5. Absent(q.tx, Len(chain))'
    BY <2>4, Zenon DEF Absent, ChainInv
  <2>6. Told(q)' /\ Scanned(q)'
    BY <2>3, <2>4, <2>5, Zenon DEF Told, Scanned, Refused
  <2>7. RequestInv' /\ request' \in [Request -> RequestType]
    BY <2>3, <2>6, OneRequest, Zenon
  <2> QED
    BY <2>1, <2>7, OnlyRequests, Zenon
<1>5. CASE p.tx \notin Invalid \cup Unsigned
  <2>1. /\ pool' = pool \cup {p.tx}
        /\ request' = [request EXCEPT ![r].at = at, ![r].height = IF at = "wait" THEN @ + 1 ELSE @]
    BY <1>1, <1>5, Zenon DEF FinalizeTx
  <2>2. PICK q \in RequestType : q = [p EXCEPT !.at = at, !.height = IF at = "wait" THEN @ + 1 ELSE @]
    <3>1. at \in At /\ p.height + 1 \in Nat
      BY <1>2 DEF At
    <3>2. [p EXCEPT !.at = at, !.height = IF at = "wait" THEN @ + 1 ELSE @] \in RequestType
      BY <1>2, <3>1, Zenon DEF RequestType
    <3> QED
      BY <3>2, Zenon
  <2>3. /\ request' = [request EXCEPT ![r] = q] /\ q.at = at /\ q.tx = p.tx /\ q.waitUntil = p.waitUntil
        /\ at = "wait" => q.height = p.height + 1
    BY <1>1, <2>1, <2>2, Zenon DEF RequestType
  <2>4. p.tx \notin cleaned => submitted_txs[p.tx] # NoRow
    BY <1>1, Zenon DEF RequestInv, Scanned
  <2>5. Told(q)'
    BY <1>1, <1>2, <2>3 DEF Told
  <2>6. q.tx \notin cleaned => Scanned(q)'
    <3>1. (q.tx \notin cleaned /\ q.at = "wait") => q.height - 1 <= Len(chain)' /\ Absent(q.tx, q.height - 1)'
      BY <1>1, <1>2, <2>3 DEF Absent
    <3> QED
      BY <2>3, <2>4, <3>1, Zenon DEF Scanned
  <2>7. RequestInv' /\ request' \in [Request -> RequestType]
    BY <2>3, <2>5, <2>6, OneRequest, Zenon
  <2> QED
    BY <1>2, <1>5, <2>1, <2>4, <2>7, Pooled, Zenon DEF Refused
<1> QED
  BY <1>3, <1>4, <1>5, Zenon

\* finalizeTxWait: the first FinalizeTx.
LEMMA FirstInv ==
  ASSUME SubmitInv, NEW r \in Request, finalizeTxWait(r)
  PROVE  SubmitInv'
<1>1. /\ request[r].at = "finalize"
      /\ UNCHANGED <<rvars, submitted_txs, processed, cleaned>>
      /\ FinalizeTx(r, IF request[r].waitUntil = "none" THEN "ok" ELSE "wait")
  BY Zenon DEF finalizeTxWait
<1>2. PICK at \in {"ok", "wait"} : at = (IF request[r].waitUntil = "none" THEN "ok" ELSE "wait")
  BY Zenon
<1>3. FinalizeTx(r, at) /\ (at = "ok" => request[r].waitUntil = "none")
  BY <1>1, <1>2, Zenon
<1> QED
  BY <1>1, <1>3, FinalizeInv, Zenon DEF SubmitInv, RequestInv, Scanned

\* waitForTxInBlock: one turn of the loop.
LEMMA WaitInv ==
  ASSUME SubmitInv, NEW r \in Request, waitForTxInBlock(r)
  PROVE  SubmitInv'
<1> USE DEF SubmitInv, rvars
<1>1. PICK p \in RequestType : p = request[r]
  BY Zenon DEF Types, RequestType
<1>2. /\ p.at = "wait" /\ p.tx \in Tx /\ p.height \in 1 .. Len(applied)
      /\ UNCHANGED <<rvars, submitted_txs, processed, cleaned>>
  BY <1>1 DEF waitForTxInBlock, RequestInv, Told, RequestType, Types
<1>3. /\ Len(applied) \in Nat /\ Len(chain) \in Nat
      /\ applied[p.height] = chain[p.height] /\ p.height \in 1 .. Len(chain)
  BY <1>2 DEF ChainInv, Types
<1>4. ASSUME p.tx \notin cleaned, p.tx \notin applied[p.height].txs
      PROVE  Absent(p.tx, p.height)
  <2>1. Absent(p.tx, p.height - 1)
    BY <1>1, <1>2, <1>4, Zenon DEF RequestInv, Scanned
  <2> QED
    BY <1>2, <1>3, <1>4, <2>1 DEF Absent
<1>5. CASE p.tx \in applied[p.height].txs
  <2>1. PICK at \in {"ok", "pins"} : at = IF p.waitUntil = "confirmed" THEN "ok" ELSE "pins"
    BY Zenon
  <2>2. Goes(r, at) /\ UNCHANGED pool
    BY <1>1, <1>5, <2>1, Zenon DEF waitForTxInBlock
  <2>3. PICK q \in RequestType : q = [p EXCEPT !.at = at]
    BY Zenon DEF RequestType, At
  <2>4. /\ request' = [request EXCEPT ![r] = q] /\ q.at = at /\ q.tx = p.tx
        /\ q.waitUntil = p.waitUntil /\ q.height = p.height
    BY <1>1, <2>2, <2>3, Zenon DEF Goes, RequestType
  <2>5. Told(q)'
    BY <1>2, <1>5, <2>1, <2>4, Zenon DEF Told
  <2>6. Scanned(q)'
    BY <2>1, <2>4, Zenon DEF Scanned
  <2>7. RequestInv' /\ request' \in [Request -> RequestType]
    BY <1>2, <2>4, <2>5, <2>6, OneRequest, Zenon
  <2> QED
    BY <1>2, <2>2, <2>7, OnlyRequests, Zenon
<1>6. CASE p.tx \notin applied[p.height].txs /\ Expired(p.tx, p.height)
  <2>1. Goes(r, "rejected") /\ UNCHANGED pool
    BY <1>1, <1>6, Zenon DEF waitForTxInBlock
  <2>2. PICK q \in RequestType : q = [p EXCEPT !.at = "rejected"]
    BY Zenon DEF RequestType, At
  <2>3. request' = [request EXCEPT ![r] = q] /\ q.at = "rejected" /\ q.tx = p.tx
    BY <1>1, <2>1, <2>2, Zenon DEF Goes, RequestType
  <2>4. MaxTime[p.tx] \in Nat
    BY <1>2, SubmitAssumption, Zenon
  <2>5. Expired(p.tx, Len(chain))
    BY <1>3, <1>6, <2>4 DEF Expired
  <2>6. ASSUME p.tx \notin cleaned
        PROVE  Absent(p.tx, Len(chain))
    <3> SUFFICES ASSUME NEW k \in 1 .. Len(chain)
                 PROVE  p.tx \notin chain[k].txs
      BY Zenon DEF Absent
    <3>1. CASE k <= p.height
      BY <1>4, <1>6, <2>6, <3>1, Zenon DEF Absent
    <3>2. CASE k > p.height
      BY <1>3, <1>6, <2>4, <3>2 DEF Expired, ChainInv
    <3> QED
      BY <1>3, <3>1, <3>2
  <2>7. Told(q)'
    BY <2>3, Zenon DEF Told
  <2>8. q.tx \notin cleaned => Scanned(q)'
    BY <1>2, <2>3, <2>5, <2>6, Zenon DEF Scanned, Absent
  <2>9. RequestInv' /\ request' \in [Request -> RequestType]
    BY <1>2, <2>3, <2>7, <2>8, OneRequest, Zenon
  <2> QED
    BY <1>2, <2>1, <2>9, OnlyRequests, Zenon
<1>7. CASE p.tx \notin applied[p.height].txs /\ ~Expired(p.tx, p.height)
  <2>1. FinalizeTx(r, "wait")
    BY <1>1, <1>7, Zenon DEF waitForTxInBlock
  <2>2. request[r].tx \notin cleaned => request[r].height <= Len(chain) /\ Absent(request[r].tx, request[r].height)
    BY <1>1, <1>3, <1>4, <1>7
  <2> QED
    BY <1>1, <1>2, <2>1, <2>2, FinalizeInv, Zenon
<1> QED
  BY <1>5, <1>6, <1>7, Zenon

\* finalizeTxWait: the wait for the pins.
LEMMA PinsInv ==
  ASSUME SubmitInv, NEW r \in Request, AllWaiter(r)
  PROVE  SubmitInv'
<1> USE DEF SubmitInv, rvars
<1>1. PICK p \in RequestType : p = request[r]
  BY Zenon DEF Types, RequestType
<1>2. PICK q \in RequestType : q = [p EXCEPT !.at = "ok"]
  BY Zenon DEF RequestType, At
<1>3. /\ request' = [request EXCEPT ![r] = q] /\ q.at = "ok" /\ q.tx = p.tx /\ q.height = p.height
      /\ UNCHANGED <<rvars, pool, submitted_txs, processed, cleaned>>
  BY <1>1, <1>2, Zenon DEF AllWaiter, Goes, RequestType
<1>4. processed >= q.height /\ q.height \in 1 .. Len(applied) /\ q.tx \in applied[q.height].txs
  BY <1>1, <1>3, Zenon DEF AllWaiter, AllPins, RequestInv, Told
<1>5. Told(q)' /\ Scanned(q)'
  BY <1>3, <1>4, Zenon DEF Told, Scanned
<1>6. RequestInv' /\ request' \in [Request -> RequestType]
  BY <1>3, <1>5, OneRequest, Zenon
<1> QED
  BY <1>3, <1>6, OnlyRequests, Zenon

\* A request that fails, wherever it is.
LEMMA FailsInv ==
  ASSUME SubmitInv, NEW r \in Request, Fails(r)
  PROVE  SubmitInv'
<1> USE DEF SubmitInv, rvars
<1>1. PICK p \in RequestType : p = request[r]
  BY Zenon DEF Types, RequestType
<1>2. p.tx \in Tx /\ p.height \in Nat /\ Goes(r, "error") /\ UNCHANGED <<rvars, processed, cleaned>>
  BY Zenon DEF Fails, RequestType
<1>3. CASE UNCHANGED <<pool, submitted_txs>>
  <2>1. RequestInv' /\ request' \in [Request -> RequestType]
    BY <1>2, <1>3, Failed, Zenon
  <2> QED
    BY <1>2, <1>3, <2>1, OnlyRequests, Zenon
<1>4. CASE p.at = "record" /\ submitted_txs' = [submitted_txs EXCEPT ![p.tx] = Keep(@, p.height)] /\ UNCHANGED pool
  <2>1. \A t \in Tx : submitted_txs[t] # NoRow => submitted_txs'[t] # NoRow
    BY <1>2, <1>4, Zenon DEF Keep, Types
  <2>2. RequestInv' /\ request' \in [Request -> RequestType]
    BY <1>2, <2>1, Failed, Zenon
  <2>3. p.height <= Len(chain)
    BY <1>1, <1>4, Zenon DEF RequestInv, Told
  <2> QED
    BY <1>2, <1>4, <2>2, <2>3, Recorded, Zenon
<1>5. CASE Submitting(r) /\ pool' = pool \cup {p.tx} /\ UNCHANGED submitted_txs
  <2>1. RequestInv' /\ request' \in [Request -> RequestType]
    BY <1>2, <1>5, Failed, Zenon
  <2>2. p.tx \notin Refused /\ (p.tx \notin cleaned => submitted_txs[p.tx] # NoRow)
    BY <1>1, <1>5, Zenon DEF Submitting, Refused, RequestInv, Scanned
  <2> QED
    BY <1>2, <1>5, <2>1, <2>2, Pooled, Zenon
<1> QED
  BY <1>1, <1>3, <1>4, <1>5, Zenon DEF Fails
-----------------------------------------------------------------------------
\* The invariant that links rows, requests and blocks holds whatever order requests, failures,
\* blocks and clean-ups come in (transact.go, finalize.go).
THEOREM SubmitInvariant == SubmitSpec => []SubmitInv
<1>1. SubmitInit => SubmitInv
  BY InitInv, Zenon
<1>2. SubmitInv /\ [SubmitNext]_svars => SubmitInv'
  <2> SUFFICES ASSUME SubmitInv, [SubmitNext]_svars
               PROVE  SubmitInv'
    BY Zenon
  <2>1. CASE UNCHANGED svars
    BY <2>1, Zenon DEF SubmitInv, Types, ChainInv, RowInv, RequestInv, Told, Scanned, Absent, svars, rvars, subvars
  <2>2. CASE MakeBlock \/ ((Apply \/ updateGeneratorHeight) /\ UNCHANGED subvars) \/ cleanUpSubmittedTxs \/ ProcessBlock
    BY <2>2, MakeBlockInv, ApplyInv, PollInv, CleanInv, ProcessInv, Zenon
  <2>3. ASSUME NEW r \in Request, submitSingle(r) \/ Stepping(r)
        PROVE  SubmitInv'
    BY <2>3, SingleInv, RecordInv, LookupInv, FirstInv, WaitInv, PinsInv, FailsInv, Zenon DEF Stepping
  <2> QED
    BY <2>1, <2>2, <2>3, Zenon DEF SubmitNext
<1> QED
  BY <1>1, <1>2, PTL DEF SubmitSpec

\* A client is told that a transaction is rejected only if no block has it or ever will,
\* as long as the row of its first submission is kept: with every pattern of repeated
\* requests, time-outs and lost answers (transact.go).
THEOREM SubmitRejected == SubmitSpec => []RejectedIsNowhere
<1>1. SubmitInv => RejectedIsNowhere
  BY DEF SubmitInv, RequestInv, Scanned, Absent, RejectedIsNowhere, OnChain, Types
<1> QED
  BY <1>1, SubmitInvariant, PTL

\* A client whose wait has succeeded finds its transaction in a block of this core, and
\* past the pins if it waited for them (transact.go, finalizeTxWait).
THEOREM SubmitOk == SubmitSpec => []OkIsConfirmed
<1>1. SubmitInv => OkIsConfirmed
  BY DEF SubmitInv, RequestInv, Told, OkIsConfirmed, Types
<1> QED
  BY <1>1, SubmitInvariant, PTL

\* What a client is told of its transaction is true, rejected or confirmed (transact.go).
THEOREM SubmitAnswers == SubmitSpec => []AnswersAreTrue
<1>1. RejectedIsNowhere /\ OkIsConfirmed => AnswersAreTrue
  BY Zenon DEF AnswersAreTrue
<1> QED
  BY <1>1, SubmitRejected, SubmitOk, PTL

-----------------------------------------------------------------------------
(***************************************************************************)
(* Fetching blocks follows the generator, wherever calls of the peer fail  *)
(* and whenever the core is restarted.                                     *)
(***************************************************************************)
Downloading == {"get", "block", "error"}

\* The block that is applied is the next of this core, the one that is downloaded comes
\* next or after it, and what has been downloaded is a block of the generator.
FetchInv ==
  /\ chain \in Seq(Block) /\ applied \in Seq(Block)
  /\ Len(applied) <= Len(chain)
  /\ \A h \in 1 .. Len(applied) : applied[h] = chain[h] /\ applied[h].valid
  /\ download \in [at : Downloading, height : Nat]
  /\ fetching \in {0, Len(applied) + 1}
  /\ download.height = Len(applied) + (IF fetching = 0 THEN 1 ELSE 2)
  /\ download.at = "block" => download.height <= Len(chain)
  /\ fetching <= Len(chain)

\* What does not touch the chains keeps what is said of them.
LEMMA FetchFrame ==
  ASSUME FetchInv, chain' = chain, applied' = applied,
         download' \in [at : Downloading, height : Nat], fetching' \in {0, Len(applied) + 1},
         download'.height = Len(applied) + (IF fetching' = 0 THEN 1 ELSE 2),
         download'.at = "block" => download'.height <= Len(chain), fetching' <= Len(chain)
  PROVE  FetchInv'
BY Zenon DEF FetchInv

LEMMA FetchStep == ASSUME FetchInv PROVE [FetchNext]_netvars => FetchInv' /\ [ReplicaNext]_rvars
<1> USE DEF rvars, fetchvars
<1>0. /\ Len(applied) \in Nat /\ Len(chain) \in Nat /\ download.height \in Nat /\ download.at \in Downloading
      /\ \A w \in Downloading : /\ [download EXCEPT !.at = w] \in [at : Downloading, height : Nat]
                                /\ [download EXCEPT !.at = w].height = download.height
                                /\ [download EXCEPT !.at = w].at = w
  BY DEF FetchInv
<1>1. ASSUME getBlock PROVE FetchInv' /\ [ReplicaNext]_rvars
  <2>1. /\ download.height <= Len(chain) /\ download' = [download EXCEPT !.at = "block"]
        /\ UNCHANGED <<rvars, fetching>> /\ "block" \in Downloading
    BY <1>1, Zenon DEF getBlock, Downloading
  <2> QED BY <1>0, <2>1, FetchFrame, Zenon DEF FetchInv
<1>2. ASSUME getBlockFails \/ ReceiveError PROVE FetchInv' /\ [ReplicaNext]_rvars
  <2>1. PICK w \in {"get", "error"} : download' = [download EXCEPT !.at = w]
    BY <1>2, Zenon DEF getBlockFails, ReceiveError
  <2>2. UNCHANGED <<rvars, fetching>> /\ w \in Downloading /\ w # "block"
    BY <1>2, Zenon DEF getBlockFails, ReceiveError, Downloading
  <2> QED BY <1>0, <2>1, <2>2, FetchFrame, Zenon DEF FetchInv
<1>3. ASSUME ReceiveBlock PROVE FetchInv' /\ [ReplicaNext]_rvars
  <2>1. /\ fetching = 0 /\ download.at = "block" /\ fetching' = download.height /\ UNCHANGED rvars
        /\ download' = [at |-> "get", height |-> download.height + 1] /\ "get" \in Downloading
    BY <1>3, Zenon DEF ReceiveBlock, Downloading
  <2>2. download.height = Len(applied) + 1 /\ download.height <= Len(chain)
    BY <2>1, Zenon DEF FetchInv
  <2> QED BY <1>0, <2>1, <2>2, FetchFrame
<1>4. ASSUME applyBlock PROVE FetchInv' /\ [ReplicaNext]_rvars
  <2>1. /\ fetching = Len(applied) + 1 /\ chain[Len(applied) + 1].valid
        /\ applied' = Append(applied, chain[Len(applied) + 1]) /\ fetching' = 0
        /\ UNCHANGED <<chain, generatorHeight, download>>
    BY <1>4, Zenon DEF applyBlock
  <2>2. Len(applied) + 1 \in 1 .. Len(chain) /\ chain[Len(applied) + 1] \in Block
    BY <1>0, <2>1 DEF FetchInv
  <2>3. /\ applied' \in Seq(Block) /\ Len(applied') = Len(applied) + 1
        /\ \A h \in 1 .. Len(applied) : applied'[h] = applied[h]
        /\ applied'[Len(applied) + 1] = chain[Len(applied) + 1]
    BY <2>1, <2>2 DEF FetchInv
  <2>4. \A h \in 1 .. Len(applied') : applied'[h] = chain[h] /\ applied'[h].valid
    BY <1>0, <2>1, <2>3 DEF FetchInv
  <2>5. Apply
    BY <1>0, <2>1, <2>2 DEF Apply
  <2> QED BY <1>0, <2>1, <2>2, <2>3, <2>4, <2>5 DEF FetchInv, ReplicaNext
<1>5. ASSUME Refetch PROVE FetchInv' /\ [ReplicaNext]_rvars
  <2>1. /\ download' = [at |-> "get", height |-> Len(applied) + 1] /\ fetching' = 0 /\ Restart
        /\ UNCHANGED <<chain, applied>> /\ "get" \in Downloading
    BY <1>5, Zenon DEF Refetch, StartHeight, Restart, Downloading
  <2> QED BY <1>0, <2>1, FetchFrame DEF ReplicaNext
<1>6. ASSUME updateGeneratorHeight, UNCHANGED fetchvars PROVE FetchInv' /\ [ReplicaNext]_rvars
  <2>1. UNCHANGED <<chain, applied>>
    BY <1>6, Zenon DEF updateGeneratorHeight
  <2> QED BY <1>6, <2>1, FetchFrame, Zenon DEF FetchInv, ReplicaNext
<1>7. ASSUME NEW valid \in BOOLEAN, GeneratorBlock({}, valid), UNCHANGED fetchvars
      PROVE  FetchInv' /\ [ReplicaNext]_rvars
  <2>1. chain' = Append(chain, [txs |-> {}, valid |-> valid]) /\ applied' = applied
    BY <1>7, Zenon DEF GeneratorBlock
  <2>2. [txs |-> {}, valid |-> valid] \in Block
    BY Zenon DEF Block
  <2>3. /\ chain' \in Seq(Block) /\ Len(chain') = Len(chain) + 1
        /\ \A h \in 1 .. Len(chain) : chain'[h] = chain[h]
    BY <2>1, <2>2 DEF FetchInv
  <2>4. \A h \in 1 .. Len(applied) : applied[h] = chain'[h] /\ applied[h].valid
    BY <1>0, <2>3 DEF FetchInv
  <2>5. FetchInv'
    BY <1>0, <1>7, <2>1, <2>3, <2>4 DEF FetchInv
  <2> QED BY <1>7, <2>5, Zenon DEF ReplicaNext
<1>8. ASSUME UNCHANGED netvars PROVE FetchInv' /\ [ReplicaNext]_rvars
  <2>1. UNCHANGED rvars /\ UNCHANGED fetchvars
    BY <1>8, Zenon DEF netvars
  <2> QED BY <2>1, FetchFrame, Zenon DEF FetchInv
<1> QED
  BY <1>1, <1>2, <1>3, <1>4, <1>5, <1>6, <1>7, <1>8, Zenon DEF FetchNext, Fetching

\* A core that fetches blocks does what Replica allows, step by step: it applies the
\* generator's blocks in their order and up to one that is not valid, whatever calls fail
\* and whenever it starts again (fetch.go, Fetch, DownloadBlocks).
THEOREM FetchIsReplica == FetchSpec => ReplicaInit /\ [][ReplicaNext]_rvars
<1>1. FetchInit => FetchInv /\ ReplicaInit
  BY DEF FetchInit, ReplicaInit, FetchInv, Downloading
<1> QED
  BY <1>1, FetchStep, PTL DEF FetchSpec

-----------------------------------------------------------------------------
(***************************************************************************)
(* math/checked agrees with exact arithmetic for integers of every width:  *)
(* addition, subtraction, negation, and the product of unsigned numbers.   *)
(* MCVM compares all the operations on 4-bit operands.                     *)
(***************************************************************************)
\* A type whose values are an interval around 0 (or from 0).
IsType(t) == t.min \in Int /\ t.max \in Int /\ t.min <= 0 /\ 0 <= t.max

\* Wrapping changes no value of the type.
LEMMA WrapFits ==
  ASSUME NEW t, IsType(t), NEW x \in Int, x \in Values(t)
  PROVE  Wrap(t, x) = x
BY Zenon DEF Wrap

\* AddInt64 and AddInt32 report overflow exactly when the sum does not fit,
\* and return the sum otherwise.
THEOREM AddIntExact ==
  ASSUME NEW t, IsType(t), NEW a \in Values(t), NEW b \in Values(t)
  PROVE  Fits(t, AddInt(t, a, b), a + b)
<1>1. a \in Int /\ b \in Int /\ t.min <= a /\ a <= t.max /\ t.min <= b /\ b <= t.max
  BY DEF IsType, Values
<1>2. CASE a + b \in Values(t)
  <2>1. ~(b > 0 /\ a > t.max - b) /\ ~(b < 0 /\ a < t.min - b)
    BY <1>1, <1>2 DEF IsType, Values
  <2>2. Wrap(t, a + b) = a + b
    BY <1>1, <1>2, WrapFits
  <2> QED BY <1>2, <2>1, <2>2, Zenon DEF Fits, AddInt
<1>3. CASE a + b \notin Values(t)
  <2>1. (b > 0 /\ a > t.max - b) \/ (b < 0 /\ a < t.min - b)
    BY <1>1, <1>3 DEF IsType, Values
  <2> QED BY <1>3, <2>1, Zenon DEF Fits, AddInt
<1> QED BY <1>2, <1>3, Zenon

\* The same for SubInt64 and SubInt32.
THEOREM SubIntExact ==
  ASSUME NEW t, IsType(t), NEW a \in Values(t), NEW b \in Values(t)
  PROVE  Fits(t, SubInt(t, a, b), a - b)
<1>1. a \in Int /\ b \in Int /\ t.min <= a /\ a <= t.max /\ t.min <= b /\ b <= t.max
  BY DEF IsType, Values
<1>2. CASE a - b \in Values(t)
  <2>1. ~(b > 0 /\ a < t.min + b) /\ ~(b < 0 /\ a > t.max + b)
    BY <1>1, <1>2 DEF IsType, Values
  <2>2. Wrap(t, a - b) = a - b
    BY <1>1, <1>2, WrapFits
  <2> QED BY <1>2, <2>1, <2>2, Zenon DEF Fits, SubInt
<1>3. CASE a - b \notin Values(t)
  <2>1. (b > 0 /\ a < t.min + b) \/ (b < 0 /\ a > t.max + b)
    BY <1>1, <1>3 DEF IsType, Values
  <2> QED BY <1>3, <2>1, Zenon DEF Fits, SubInt
<1> QED BY <1>2, <1>3, Zenon

\* NegateInt64 and NegateInt32 fail only on the least value of a two's
\* complement type, whose opposite is the one that does not fit.
THEOREM NegateIntExact ==
  ASSUME NEW t, IsType(t), t.min = -t.max - 1, NEW a \in Values(t)
  PROVE  Fits(t, NegateInt(t, a), -a)
<1>1. a \in Int /\ t.min <= a /\ a <= t.max
  BY DEF IsType, Values
<1>2. CASE a = t.min
  <2>1. -a \notin Values(t)
    BY <1>1, <1>2 DEF IsType, Values
  <2> QED BY <1>2, <2>1, Zenon DEF Fits, NegateInt
<1>3. CASE a # t.min
  <2>1. -a \in Values(t)
    BY <1>1, <1>3 DEF IsType, Values
  <2>2. Wrap(t, -a) = -a
    BY <1>1, <2>1, WrapFits
  <2> QED BY <1>3, <2>1, <2>2, Zenon DEF Fits, NegateInt
<1> QED BY <1>2, <1>3, Zenon

\* AddUint64 and AddUint32, whose test is t.max - a < b.
THEOREM AddUintExact ==
  ASSUME NEW t, IsType(t), t.min = 0, NEW a \in Values(t), NEW b \in Values(t)
  PROVE  Fits(t, AddUint(t, a, b), a + b)
<1>1. a \in Int /\ b \in Int /\ 0 <= a /\ a <= t.max /\ 0 <= b /\ b <= t.max
  BY DEF IsType, Values
<1>2. a + b \in Values(t) <=> ~(t.max - a < b)
  BY <1>1 DEF IsType, Values
<1>3. a + b \in Values(t) => Wrap(t, a + b) = a + b
  BY <1>1, WrapFits
<1> QED BY <1>2, <1>3, Zenon DEF Fits, AddUint

\* SubUint64 and SubUint32.
THEOREM SubUintExact ==
  ASSUME NEW t, IsType(t), t.min = 0, NEW a \in Values(t), NEW b \in Values(t)
  PROVE  Fits(t, SubUint(t, a, b), a - b)
<1>1. a \in Int /\ b \in Int /\ 0 <= a /\ a <= t.max /\ 0 <= b /\ b <= t.max
  BY DEF IsType, Values
<1>2. a - b \in Values(t) <=> ~(a < b)
  BY <1>1 DEF IsType, Values
<1>3. a - b \in Values(t) => Wrap(t, a - b) = a - b
  BY <1>1, WrapFits
<1> QED BY <1>2, <1>3, Zenon DEF Fits, SubUint

\* A number exceeds the quotient of m by b exactly when its product with b
\* exceeds m.
LEMMA QuotientBound ==
  ASSUME NEW m \in Nat, NEW a \in Nat, NEW b \in Nat, b > 0
  PROVE  a > m \div b <=> a * b > m
<1> DEFINE q == m \div b
<1>1. q \in Int /\ q * b <= m /\ m < q * b + b
  OBVIOUS
<1>2. CASE a > q
  <2>1. a >= q + 1
    BY <1>1, <1>2
  <2>2. a * b >= (q + 1) * b
    BY <1>1, <2>1
  <2>3. (q + 1) * b = q * b + b
    BY <1>1
  <2>4. a * b \in Int /\ q * b \in Int
    BY <1>1
  <2> QED BY <1>1, <1>2, <2>2, <2>3, <2>4
<1>3. CASE ~(a > q)
  <2>1. a <= q
    BY <1>1, <1>3
  <2>2. a * b <= q * b
    BY <1>1, <2>1
  <2>3. a * b \in Int /\ q * b \in Int
    BY <1>1
  <2> QED BY <1>1, <1>3, <2>2, <2>3
<1> QED BY <1>2, <1>3, Zenon

\* MulUint64 and MulUint32, whose test is a > t.max / b.
THEOREM MulUintExact ==
  ASSUME NEW t, IsType(t), t.min = 0, NEW a \in Values(t), NEW b \in Values(t)
  PROVE  Fits(t, MulUint(t, a, b), a * b)
<1>1. a \in Nat /\ b \in Nat /\ t.max \in Nat
  BY DEF IsType, Values
<1>2. a * b \in Nat
  BY <1>1
<1>3. a * b \in Values(t) <=> ~(b > 0 /\ a > Quo(t.max, b))
  <2>1. CASE b = 0
    <3>1. a * b = 0
      BY <1>1, <2>1
    <3> QED BY <1>1, <2>1, <3>1 DEF IsType, Values
  <2>2. CASE b > 0
    <3>1. Quo(t.max, b) = t.max \div b
      BY <1>1, <2>2 DEF Quo
    <3>2. a > t.max \div b <=> a * b > t.max
      BY <1>1, <2>2, QuotientBound, Zenon
    <3> QED BY <1>1, <1>2, <2>2, <3>1, <3>2 DEF IsType, Values
  <2> QED BY <1>1, <2>1, <2>2
<1>4. a * b \in Values(t) => Wrap(t, a * b) = a * b
  BY <1>2, WrapFits
<1> QED BY <1>3, <1>4, Zenon DEF Fits, MulUint
=============================================================================
