------------------------------- MODULE TxFeed -------------------------------
(***************************************************************************)
(* core/txfeed and its handlers in core/txfeeds.go and core/query.go: the  *)
(* table of transaction feeds, each with the cursor up to which its        *)
(* consumers have acknowledged transactions.  Consumers share a feed and   *)
(* repeat requests; each SQL statement is one step.                        *)
(***************************************************************************)
EXTENDS Integers, FiniteSets

CONSTANTS Alias, Token,   \* what clients may send; Nil is the empty string
          MaxCursorHeight, MaxPos, Stop,  \* a cursor is [height, pos, stop]
          MaxID,          \* feeds created at most
          PageSize,
          Nil

ASSUME FeedAssumption == MaxCursorHeight \in Nat /\ MaxPos \in Nat /\ Stop # {} /\ MaxID \in Nat /\ PageSize \in Nat \ {0} /\ Nil \notin Token

VARIABLES chainHeight,
          feeds,     \* id -> [alias, token, after]
          nextID,    \* next_chain_id
          looking,   \* creates between INSERT and txfeedByClientToken
          pages,     \* a client that lists the feeds
          acked,     \* history: the updates that moved a cursor
          answered   \* history: the feed a create with the token was last answered with

fvars == <<chainHeight, feeds, nextID, looking, pages, acked, answered>>

ID == 1 .. MaxID
Cursor == [height : 0 .. MaxCursorHeight, pos : 0 .. MaxPos, stop : Stop]
Feed == [alias : Alias \cup {Nil}, token : Token \cup {Nil}, after : Cursor]

\* The order of the chain.
Earlier(a, b) == a.height < b.height \/ (a.height = b.height /\ a.pos < b.pos)

txAfterIsBefore(a, b) == a.height < b.height \/ (a.height = b.height /\ a.pos < b.pos)

FeedInit ==
  /\ chainHeight = 0 /\ feeds = [i \in {} |-> Nil] /\ nextID = 1 /\ looking = {}
  /\ pages = [state |-> "new", after |-> MaxID + 1, got |-> {}, base |-> {}]
  /\ acked = {} /\ answered = [t \in Token |-> 0]

AddBlock ==
  /\ chainHeight < MaxCursorHeight
  /\ chainHeight' = chainHeight + 1
  /\ UNCHANGED <<feeds, nextID, looking, pages, acked, answered>>
-----------------------------------------------------------------------------
Answer(token, id) == answered' = [t \in Token |-> IF t = token THEN id ELSE answered[t]]

\* createTxFeed, the INSERT of insertTxFeed: ON CONFLICT names the token only, so an
\* alias that is taken fails it.
Insert(alias, token, after) ==
  /\ feeds' = [i \in DOMAIN feeds \cup {nextID} |->
                 IF i = nextID THEN [alias |-> alias, token |-> token, after |-> after] ELSE feeds[i]]
  /\ nextID' = nextID + 1
  /\ Answer(token, nextID)
  /\ UNCHANGED <<chainHeight, looking, pages, acked>>

\* Mutant: the client token is not compared.
TokenTakenNever(token) == FALSE

TokenTaken(token) == token # Nil /\ \E i \in DOMAIN feeds : feeds[i].token = token
AliasTaken(alias) == alias # Nil /\ \E i \in DOMAIN feeds : feeds[i].alias = alias

createTxFeed ==
  /\ nextID <= MaxID
  /\ \E alias \in Alias \cup {Nil}, token \in Token \cup {Nil}, stop \in Stop :
       /\ ~TokenTaken(token) /\ ~AliasTaken(alias)
       /\ Insert(alias, token, [height |-> chainHeight, pos |-> MaxPos, stop |-> stop])
createRepeated ==
  \E token \in Token :
    /\ TokenTaken(token)
    /\ looking' = looking \cup {token}
    /\ UNCHANGED <<chainHeight, feeds, nextID, pages, acked, answered>>

\* The feed may be gone by now: then the request fails.
txfeedByClientToken ==
  \E token \in looking :
    /\ looking' = looking \ {token}
    /\ \/ \E i \in DOMAIN feeds : feeds[i].token = token /\ Answer(token, i)
       \/ ~TokenTaken(token) /\ UNCHANGED answered
    /\ UNCHANGED <<chainHeight, feeds, nextID, pages, acked>>

\* deleteTxFeed, by id or by alias.
deleteTxFeed ==
  \E i \in DOMAIN feeds :
    /\ feeds' = [j \in DOMAIN feeds \ {i} |-> feeds[j]]
    /\ UNCHANGED <<chainHeight, nextID, looking, pages, acked, answered>>
-----------------------------------------------------------------------------
\* Mutant: the new cursor is compared, the previous one is not.
FoundBelow(i, prev, after) == ~txAfterIsBefore(after, feeds[i].after)

\* WHERE id=$2 AND after=$3, or alias=$2: the alias is a key too.
Found(i, prev, after) == feeds[i].after = prev
updateTxFeed ==
  \E i \in DOMAIN feeds, prev \in Cursor, after \in Cursor :
    /\ ~txAfterIsBefore(after, prev)
    /\ Found(i, prev, after)
    /\ feeds' = [feeds EXCEPT ![i].after = after]
    /\ acked' = acked \cup {a \in {[id |-> i, prev |-> prev, after |-> after]} : Earlier(prev, after)}
    /\ UNCHANGED <<chainHeight, nextID, looking, pages, answered>>
-----------------------------------------------------------------------------
\* Mutant: a page starts at the last row of the page before.
BelowOrAt(after) == {i \in DOMAIN feeds : i <= after}

\* Query: the page of the feeds below after, newest first, and listTxFeeds' LastPage.
Below(after) == {i \in DOMAIN feeds : i < after}
listTxFeeds ==
  /\ pages.state # "done"
  /\ LET rows == {i \in Below(pages.after) : Cardinality({j \in Below(pages.after) : j > i}) < PageSize}
         last == IF rows = {} THEN pages.after ELSE CHOOSE i \in rows : \A j \in rows : i <= j
     IN pages' = [state |-> IF Cardinality(rows) < PageSize THEN "done" ELSE "paging",
                  after |-> last,
                  got |-> pages.got \cup {[id |-> i, from |-> pages.after] : i \in rows},
                  base |-> IF pages.state = "new" THEN DOMAIN feeds ELSE pages.base]
  /\ UNCHANGED <<chainHeight, feeds, nextID, looking, acked, answered>>

FeedNext ==
  \/ AddBlock \/ createTxFeed \/ createRepeated \/ txfeedByClientToken \/ deleteTxFeed
  \/ updateTxFeed \/ listTxFeeds
FeedSpec == FeedInit /\ [][FeedNext]_fvars
-----------------------------------------------------------------------------
\* The variables stay in their types (txfeed.go).
FeedTypeOK ==
  /\ chainHeight \in 0 .. MaxCursorHeight /\ nextID \in 1 .. (MaxID + 1)
  /\ feeds \in [DOMAIN feeds -> Feed] /\ DOMAIN feeds \subseteq 1 .. (nextID - 1)
  /\ looking \subseteq Token /\ answered \in [Token -> 0 .. MaxID]
  /\ acked \subseteq [id : 1 .. (nextID - 1), prev : Cursor, after : Cursor]

\* The cursor of a feed never goes back, whoever updates it (txfeeds.go, updateTxFeed).
AfterAdvances ==
  [][\A i \in DOMAIN feeds \cap DOMAIN feeds' : ~Earlier(feeds'[i].after, feeds[i].after)]_fvars

\* Of two acknowledgements of a feed, one begins where the other has ended or later:
\* no transaction is acknowledged twice, though consumers read the same cursor and
\* repeat requests (txfeed.go, Update).
AckedOnce ==
  \A a, b \in acked :
    (a # b /\ a.id = b.id) => ~Earlier(a.prev, b.after) \/ ~Earlier(b.prev, a.after)

\* As long as the feed a client token was answered with exists, later requests with the
\* token are answered with the same one (createTxFeed).
TokenNamesFeed ==
  [][\A t \in Token : answered[t] \in DOMAIN feeds => answered'[t] = answered[t]]_fvars

\* The pages of a listing name a feed once, and every feed that exists from the first
\* page to the last (listTxFeeds).
FeedsListed ==
  /\ \A r, s \in pages.got : r.id = s.id => r = s
  /\ pages.state = "done" => pages.base \cap DOMAIN feeds \subseteq {r.id : r \in pages.got}
=============================================================================
