----------------------------- MODULE MCServices -----------------------------
(***************************************************************************)
(* The services beside the chain, one of them in each behaviour: the       *)
(* transaction feeds, the index with a client that lists or one that       *)
(* polls, leader election, block fetching, and the submission of           *)
(* transactions.                                                           *)
(***************************************************************************)
EXTENDS TxFeed, QueryIndex, Leader, Submit, TLC

CONSTANTS a, x, u, r1, r2

VARIABLES part,  \* the service that runs
          download, fetching, errors, restarts

\* Three blocks: outputs are created, spent in the same block or a later one, retired.
In(spends, match) == [spends |-> spends, match |-> match]
Out(id, retire, match) == [id |-> id, retire |-> retire, match |-> match]
TxOf(own, ins, outs) == [own |-> own, ins |-> ins, outs |-> outs]
MCChain == <<
  [ts |-> 2, txs |-> <<TxOf(TRUE, <<In(NoPrevout, TRUE)>>, <<Out("o1", FALSE, TRUE), Out("o2", FALSE, FALSE)>>),
                       TxOf(FALSE, <<In("o1", FALSE)>>, <<Out("o3", FALSE, TRUE)>>)>>],
  [ts |-> 4, txs |-> <<TxOf(FALSE, <<In("o2", TRUE)>>, <<Out("o4", TRUE, FALSE)>>),
                       TxOf(TRUE, <<In("o3", FALSE)>>, <<Out("o5", FALSE, TRUE)>>)>>],
  [ts |-> 5, txs |-> <<TxOf(FALSE, <<In("o5", TRUE)>>, <<Out("o6", FALSE, TRUE)>>)>>] >>
Single(cond) == [any |-> <<cond>>, bracketed |-> FALSE]
InOrOut(bracketed) == [any |-> <<"in", "out">>, bracketed |-> bracketed]
SafeFilters == {Single("own"), Single("in"), Single("out"), InOrOut(TRUE)}
OrFilter == {InOrOut(FALSE)}
MCTimes == {<<0, 9>>, <<3, 4>>}
MCStop == {"max"}

\* A client sends the same transaction twice; a cannot be in the third block.
Arg(t, w) == [tx |-> t, waitUntil |-> w]
Calls(c1, c2) == (r1 :> c1) @@ (r2 :> c2)
MCArgs ==
  {Calls(Arg(a, "processed"), Arg(a, "confirmed")), Calls(Arg(a, "none"), Arg(x, "none")), Calls(Arg(x, "confirmed"), Arg(u, "none"))}
MCMaxTime == (a :> 2) @@ (x :> 0) @@ (u :> 0)

F == INSTANCE Fetch WITH Tx <- {a}, MaxErrors <- 2, MaxRestarts <- 2

fetchvars == <<download, fetching, errors, restarts>>
netvars == <<rvars, fetchvars>>
vars == <<part, fvars, ivars, lvars, rvars, fetchvars, subvars>>

Parts == {"feeds", "list", "poll", "leader", "fetch", "submit"}
First(S1) == CHOOSE e \in S1 : TRUE
MCInit ==
  /\ part \in Parts
  /\ FeedInit /\ IndexInit /\ LeaderInit /\ F!FetchInit /\ SubmitInit
  /\ part # "list" => list.filter = First(Filter)
  /\ part # "poll" => feed.filter = First(Filter)
  /\ part # "submit" => request[r2].tx = u

MCNext ==
  \/ part = "feeds" /\ FeedNext /\ UNCHANGED <<part, ivars, lvars, rvars, fetchvars, subvars>>
  \/ part = "list" /\ (IndexNext \/ Listing) /\ UNCHANGED <<part, fvars, lvars, rvars, fetchvars, subvars>>
  \/ part = "poll" /\ (IndexNext \/ Polling) /\ UNCHANGED <<part, fvars, lvars, rvars, fetchvars, subvars>>
  \/ part = "leader" /\ LeaderNext /\ UNCHANGED <<part, fvars, ivars, rvars, fetchvars, subvars>>
  \/ part = "fetch" /\ F!FetchNext /\ UNCHANGED <<part, fvars, ivars, lvars, subvars>>
  \/ part = "submit" /\ SubmitNext /\ UNCHANGED <<part, fvars, ivars, lvars, fetchvars>>

(***************************************************************************)
(* Statements, remote calls and goroutines go on and lead returns; time    *)
(* passes; a client that polls goes on polling; the context of a request   *)
(* expires, so the request goes on unless FinalizeTx waits for a block.    *)
(***************************************************************************)
Fairness ==
  /\ WF_ivars(part = "poll" /\ Indexing) /\ WF_ivars(part = "poll" /\ PollStart) /\ WF_ivars(part = "poll" /\ PollFetch)
  /\ WF_lvars(part = "leader" /\ Tick)
  /\ \A p \in Process :
       /\ WF_lvars(part = "leader" /\ Statement(p))
       /\ WF_lvars(part = "leader" /\ Receive(p)) /\ WF_lvars(part = "leader" /\ LeadReturns(p))
  /\ WF_netvars(part = "fetch" /\ F!Fetching)
  /\ WF_rvars(part = "submit" /\ Apply)
  /\ \A r \in {r1, r2} : WF_subvars(part = "submit" /\ Stepping(r))
MCSpec == MCInit /\ [][MCNext]_vars /\ Fairness

\* A client lists transactions, without the other services.
ListSpec == MCInit /\ part = "list" /\ [][MCNext]_vars
-----------------------------------------------------------------------------
\* A client that keeps polling is given every matching transaction
\* (waitForAndFetchTransactions).
PollReturns == part = "poll" => FeedDelivers

\* Leadership settles: some process leads again and again, and one that was replaced
\* gives up (leader.go).
LeadershipSettles == (part = "leader" => AlwaysLedAgain) /\ DeposedFollows

\* Block fetching follows the generator's chain block by block (fetch.go).
ImplementsReplica == F!ImplementsReplica
=============================================================================
