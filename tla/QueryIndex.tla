----------------------------- MODULE QueryIndex -----------------------------
(***************************************************************************)
(* core/query: the indexer that writes blocks to the annotated tables, one *)
(* statement after the other and outside any transaction, and the clients  *)
(* that page through transactions meanwhile, downwards from a time range   *)
(* or upwards with a long poll.  The callback waits for the pin of the     *)
(* block below, so one block is indexed at a time; when it fails or the    *)
(* process is restarted it starts over.  A filter is a list of conditions  *)
(* joined by OR, bracketed or not: on the transaction itself ("own"), on   *)
(* one of its inputs ("in") or on one of its outputs ("out").              *)
(***************************************************************************)
EXTENDS Integers, Sequences, FiniteSets

CONSTANTS Chain,        \* blocks: timestamp and transactions [own, ins, outs]
          Filter,       \* [any, bracketed]: what the clients may ask for
          TimeRange,    \* <<begin, end>> of a downward listing
          Limit,        \* page size
          LastPos,      \* math.MaxInt32, past every position
          Forever,      \* no upper bound: past every timestamp
          MaxRetry, MaxTimeout,
          NoPrevout     \* what an issuance spends

VARIABLES height,    \* Chain.Height
          pin,       \* pin "tx"
          step,      \* statement of IndexTransactions for block pin + 1 that is next
          query_blocks, annotated_txs, annotated_inputs,
          annotated_outputs,  \* position of an output -> its timespan
          list,      \* the client that pages downwards
          feed,      \* the client that polls upwards
          retries, timeouts

ivars == <<height, pin, step, query_blocks, annotated_txs, annotated_inputs, annotated_outputs, list, feed, retries, timeouts>>
tables == <<query_blocks, annotated_txs, annotated_inputs, annotated_outputs>>

Never == -1    \* no lower bound
Empty == <<0, 0>>
range(lo, hi) == IF lo >= hi THEN Empty ELSE <<lo, hi>>
lower(span) == IF span = Empty THEN Never ELSE span[1]

\* <<height, position>> of the transactions of a block, and their inputs and outputs.
TxsOf(h) == {<<h, p>> : p \in DOMAIN Chain[h].txs}
InputsOf(h) == UNION {{<<h, p, i>> : i \in DOMAIN Chain[h].txs[p].ins} : p \in DOMAIN Chain[h].txs}
OutputsOf(h) == UNION {{<<h, p, i>> : i \in DOMAIN Chain[h].txs[p].outs} : p \in DOMAIN Chain[h].txs}
TxAt(x) == Chain[x[1]].txs[x[2]]
InputAt(x) == TxAt(x).ins[x[3]]
OutputAt(x) == TxAt(x).outs[x[3]]
PrevoutIDs(h) == {InputAt(x).spends : x \in InputsOf(h)} \ {NoPrevout}

\* What the protocol ensures of a chain: timestamps increase, and what a block spends
\* was created no later, is not retired and is spent by no other block.
ASSUME IndexAssumption ==
  /\ Limit \in Nat \ {0} /\ LastPos \in Nat /\ Forever \in Nat /\ TimeRange \subseteq Int \X Int
  /\ \A f \in Filter : f.any \in Seq({"own", "in", "out"}) /\ f.any # <<>> /\ f.bracketed \in BOOLEAN
  /\ Len(Chain) \in Nat /\ DOMAIN Chain = 1 .. Len(Chain)
  /\ \A h \in DOMAIN Chain : Chain[h].ts \in 1 .. (Forever - 1) /\ DOMAIN Chain[h].txs \subseteq 1 .. (LastPos - 1)
  /\ \A h, k \in DOMAIN Chain : h < k => Chain[h].ts < Chain[k].ts /\ PrevoutIDs(h) \cap PrevoutIDs(k) = {}
  /\ \A h, k \in DOMAIN Chain : \A x \in OutputsOf(h) :
       OutputAt(x).id \in PrevoutIDs(k) => h <= k /\ ~OutputAt(x).retire

IndexInit ==
  /\ height = 0 /\ pin = 0 /\ step = "idle"
  /\ query_blocks = {} /\ annotated_txs = {} /\ annotated_inputs = {} /\ annotated_outputs = <<>>
  /\ \E f \in Filter : list = [filter |-> f, state |-> "new", from |-> <<0, 0>>, stop |-> 0, got |-> <<>>, asOf |-> 0, times |-> <<0, 0>>]
  /\ \E f \in Filter : feed = [filter |-> f, state |-> "idle", from |-> <<0, LastPos>>, wait |-> 0, got |-> <<>>]
  /\ retries = 0 /\ timeouts = 0
-----------------------------------------------------------------------------
NewBlock ==
  /\ height < Len(Chain)
  /\ height' = height + 1
  /\ UNCHANGED <<pin, step, tables, list, feed, retries, timeouts>>

\* The callback is past its PinWaiters.
IndexTransactions ==
  /\ step = "idle"
  /\ pin < height
  /\ step' = "block"
  /\ UNCHANGED <<height, pin, tables, list, feed, retries, timeouts>>

insertBlock ==
  /\ step = "block"
  /\ query_blocks' = query_blocks \cup {pin + 1}
  /\ step' = "txs"
  /\ UNCHANGED <<height, pin, annotated_txs, annotated_inputs, annotated_outputs, list, feed, retries, timeouts>>

insertAnnotatedTxs ==
  /\ step = "txs"
  /\ annotated_txs' = annotated_txs \cup TxsOf(pin + 1)
  /\ step' = "outputs"
  /\ UNCHANGED <<height, pin, query_blocks, annotated_inputs, annotated_outputs, list, feed, retries, timeouts>>

\* The INSERT of insertAnnotatedOutputs: a row that is there stays as it is.
insertAnnotatedOutputs ==
  LET ts == Chain[pin + 1].ts
      New(x) == IF OutputAt(x).retire THEN Empty ELSE range(ts, Forever)
  IN /\ step = "outputs"
     /\ annotated_outputs' = [x \in DOMAIN annotated_outputs \cup OutputsOf(pin + 1) |->
                                IF x \in DOMAIN annotated_outputs THEN annotated_outputs[x] ELSE New(x)]
     /\ step' = "spent"
     /\ UNCHANGED <<height, pin, query_blocks, annotated_txs, annotated_inputs, list, feed, retries, timeouts>>

\* Mutant: an output is closed at the time of the block it was created in.
SpentAtCreation(h) ==
  [x \in DOMAIN annotated_outputs |->
     IF OutputAt(x).id \in PrevoutIDs(h) THEN range(lower(annotated_outputs[x]), Chain[x[1]].ts) ELSE annotated_outputs[x]]

\* Its UPDATE: the outputs the block spends end with it.
Spent(h) ==
  [x \in DOMAIN annotated_outputs |->
     IF OutputAt(x).id \in PrevoutIDs(h) THEN range(lower(annotated_outputs[x]), Chain[h].ts) ELSE annotated_outputs[x]]
updateSpentOutputs ==
  /\ step = "spent"
  /\ annotated_outputs' = Spent(pin + 1)
  /\ step' = "inputs"
  /\ UNCHANGED <<height, pin, query_blocks, annotated_txs, annotated_inputs, list, feed, retries, timeouts>>

insertAnnotatedInputs ==
  /\ step = "inputs"
  /\ annotated_inputs' = annotated_inputs \cup InputsOf(pin + 1)
  /\ step' = "complete"
  /\ UNCHANGED <<height, pin, query_blocks, annotated_txs, annotated_outputs, list, feed, retries, timeouts>>

complete ==
  /\ step = "complete"
  /\ pin' = pin + 1
  /\ step' = "idle"
  /\ UNCHANGED <<height, tables, list, feed, retries, timeouts>>

\* A statement fails, or the process ends, and the callback is called again.
Retry ==
  /\ step # "idle"
  /\ retries < MaxRetry
  /\ retries' = retries + 1
  /\ step' = "block"
  /\ UNCHANGED <<height, pin, tables, list, feed, timeouts>>
-----------------------------------------------------------------------------
Before(x, y) == x[1] < y[1] \/ (x[1] = y[1] /\ x[2] < y[2])

\* Whether a row of annotated_txs meets one condition of a filter, as the tables are.
Meets(x, cond) ==
  CASE cond = "own" -> TxAt(x).own
    [] cond = "in" -> \E y \in annotated_inputs : y[1] = x[1] /\ y[2] = x[2] /\ InputAt(y).match
    [] cond = "out" -> \E y \in DOMAIN annotated_outputs : y[1] = x[1] /\ y[2] = x[2] /\ OutputAt(y).match

\* constructTransactionsQuery: AND binds the bounds to the last condition only, unless
\* the filter is in brackets of its own.  A feed has no upper bound.
Bounds(x, c, asc) ==
  IF asc THEN Before(c.from, x) ELSE Before(x, c.from) /\ x[1] >= c.stop
Selected(c, asc) ==
  LET last == Len(c.filter.any)
  IN {x \in annotated_txs :
        IF c.filter.bracketed THEN (\E i \in 1 .. last : Meets(x, c.filter.any[i])) /\ Bounds(x, c, asc)
        ELSE (\E i \in 1 .. (last - 1) : Meets(x, c.filter.any[i])) \/ (Meets(x, c.filter.any[last]) /\ Bounds(x, c, asc))}

\* fetchTransactions, ORDER BY and LIMIT: the row at place i has i - 1 rows before it.
InOrder(x, y, asc) == IF asc THEN Before(x, y) ELSE Before(y, x)
RowAt(rows, i, asc) == CHOOSE x \in rows : Cardinality({y \in rows : InOrder(y, x, asc)}) = i - 1
Page(c, asc) ==
  LET rows == Selected(c, asc)
      size == IF Cardinality(rows) < Limit THEN Cardinality(rows) ELSE Limit
  IN [i \in 1 .. size |-> RowAt(rows, i, asc)]
Past(c, page) ==
  [c EXCEPT !.got = @ \o page, !.from = IF page = <<>> THEN @ ELSE page[Len(page)]]

LookupTxAfter(times) ==
  LET blocks == {h \in query_blocks : Chain[h].ts \in times[1] .. times[2]}
      extreme == IF blocks = {} THEN {0} ELSE blocks
  IN [from |-> <<CHOOSE h \in extreme : \A k \in extreme : k <= h, LastPos>>, stop |-> CHOOSE h \in extreme : \A k \in extreme : h <= k]

\* listTransactions without an after; asOf is the pin at that moment.
ListFirst ==
  /\ list.state = "new"
  /\ \E times \in TimeRange :
       LET after == LookupTxAfter(times)
       IN list' = [list EXCEPT !.from = after.from, !.stop = after.stop, !.state = "paging", !.asOf = pin, !.times = times]
  /\ UNCHANGED <<height, pin, step, tables, feed, retries, timeouts>>

\* Transactions, then the page with its LastPage.
ListPage ==
  /\ list.state = "paging"
  /\ LET page == Page(list, FALSE)
     IN list' = [Past(list, page) EXCEPT !.state = IF Len(page) < Limit THEN "done" ELSE "paging"]
  /\ UNCHANGED <<height, pin, step, tables, feed, retries, timeouts>>

\* Mutant: the poll waits for the block after the newest one.
waitForNext == height + 1

\* waitForAndFetchTransactions.
waitFor == height
PollStart ==
  /\ feed.state = "idle"
  /\ feed' = [feed EXCEPT !.state = "waiting", !.wait = waitFor]
  /\ UNCHANGED <<height, pin, step, tables, list, retries, timeouts>>
PollFetch ==
  /\ feed.state = "waiting"
  /\ pin >= feed.wait
  /\ LET page == Page(feed, TRUE)
     IN feed' = IF page = <<>> THEN [feed EXCEPT !.wait = @ + 1] ELSE [Past(feed, page) EXCEPT !.state = "idle"]
  /\ UNCHANGED <<height, pin, step, tables, list, retries, timeouts>>
PollTimeout ==
  /\ feed.state = "waiting"
  /\ timeouts < MaxTimeout
  /\ timeouts' = timeouts + 1
  /\ feed' = [feed EXCEPT !.state = "idle"]
  /\ UNCHANGED <<height, pin, step, tables, list, retries>>
-----------------------------------------------------------------------------
Indexing ==
  \/ IndexTransactions \/ insertBlock \/ insertAnnotatedTxs \/ insertAnnotatedOutputs
  \/ updateSpentOutputs \/ insertAnnotatedInputs \/ complete
Polling == PollStart \/ PollFetch \/ PollTimeout
Listing == ListFirst \/ ListPage
IndexNext == NewBlock \/ Indexing \/ Retry
IndexSpec == IndexInit /\ [][IndexNext \/ Listing \/ Polling]_ivars
-----------------------------------------------------------------------------
AllTxs == UNION {TxsOf(h) : h \in DOMAIN Chain}
Has(x, cond) ==
  CASE cond = "own" -> TxAt(x).own
    [] cond = "in" -> \E k \in DOMAIN TxAt(x).ins : TxAt(x).ins[k].match
    [] cond = "out" -> \E k \in DOMAIN TxAt(x).outs : TxAt(x).outs[k].match
Matches(x, f) == \E i \in DOMAIN f.any : Has(x, f.any[i])
Uniform(f) == \A i, j \in DOMAIN f.any : f.any[i] = f.any[j]
Descending(s) == \A i, j \in DOMAIN s : i < j => Before(s[j], s[i])
Ascending(s) == \A i, j \in DOMAIN s : i < j => Before(s[i], s[j])

\* At every time up to the newest indexed block the index has the outputs that were
\* unspent then, whatever part of the next block is written and however often writing
\* was started over.  An output spent in the block that creates it is left out: a
\* second UPDATE reads the lower bound of an empty range (index.go).
SelfSpent(x) == OutputAt(x).id \in PrevoutIDs(x[1])
IndexedAt(t) == {x \in DOMAIN annotated_outputs : annotated_outputs[x][1] <= t /\ t < annotated_outputs[x][2]}
UnspentAt(t) ==
  {x \in UNION {OutputsOf(h) : h \in 1 .. pin} :
     /\ ~OutputAt(x).retire /\ Chain[x[1]].ts <= t
     /\ ~\E k \in 1 .. pin : Chain[k].ts <= t /\ OutputAt(x).id \in PrevoutIDs(k)}
Now == IF pin = 0 THEN 0 ELSE Chain[pin].ts
UnspentIsChain ==
  \A t \in 0 .. Now : {x \in IndexedAt(t) : ~SelfSpent(x)} = {x \in UnspentAt(t) : ~SelfSpent(x)}

\* The pages of a listing never repeat a transaction nor go back up, and together have
\* every transaction of the time range that was indexed when the listing began; the
\* filter has one condition or brackets, and blocks are indexed meanwhile
\* (transactions.go, query.go).
PagesComplete ==
  LET wanted == {x \in AllTxs : Matches(x, list.filter) /\ Chain[x[1]].ts \in list.times[1] .. list.times[2]}
      got == {list.got[i] : i \in DOMAIN list.got}
  IN /\ Descending(list.got)
     /\ got \subseteq wanted
     /\ list.state = "done" => {x \in wanted : x[1] <= list.asOf} \subseteq got

\* A feed has every matching transaction up to its cursor, once and in the order of the
\* chain, for a filter that looks at one table (transactions.go).
FeedHasAll ==
  /\ Ascending(feed.got)
  /\ {feed.got[i] : i \in DOMAIN feed.got} = {x \in AllTxs : Matches(x, feed.filter) /\ ~Before(feed.from, x) /\ x[1] > 0}
FeedComplete == Uniform(feed.filter) => FeedHasAll

\* What clients read of the index is what the chain has, although blocks are written
\* statement by statement and written again after a failure, and pages are read
\* meanwhile (index.go, transactions.go).
IndexIsChain == UnspentIsChain /\ PagesComplete /\ FeedComplete

\* A client that keeps polling is given every matching transaction of the chain
\* (waitForAndFetchTransactions).
FeedDelivers ==
  (height = Len(Chain) /\ Uniform(feed.filter)) ~>
    {x \in AllTxs : Matches(x, feed.filter)} \subseteq {feed.got[i] : i \in DOMAIN feed.got}
=============================================================================
