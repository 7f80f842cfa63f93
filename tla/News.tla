-------------------------------- MODULE News --------------------------------
(***************************************************************************)
(* The ingestion of headlines (providers/news/rss.py), which the monitor   *)
(* and the embedded data service both run on the same table.  A cycle goes *)
(* through its feeds in order; each headline of a feed that answers is     *)
(* looked up in one transaction and stored in another.                     *)
(***************************************************************************)
EXTENDS Integers, Sequences

CONSTANTS
  Titles,    \* the titles that feeds may carry
  Ingesters  \* the processes that ingest

NoTitle == "no title"

ASSUME NewsAssumption == NoTitle \notin Titles

VARIABLES
  news,   \* rows of news in the order of their commits
  cycle   \* where the cycle of each process is

newsVars == <<news, cycle>>

NewsItem == [title : Titles, feed : Nat \ {0}, by : Ingesters]
Idle == [feed |-> 0, todo |-> <<>>, held |-> NoTitle]

NewsInit == news = <<>> /\ cycle = [p \in Ingesters |-> Idle]

(* Slip: the lookup is of title and source, as the docstring has it. *)
SlipExists(p, title) ==
  \E i \in DOMAIN news : news[i].title = title /\ news[i].feed = cycle[p].feed

(* headline_exists: the title alone decides, whatever its source. *)
Exists(p, title) == \E i \in DOMAIN news : news[i].title = title

BetweenFeeds(p) == cycle[p].todo = <<>> /\ cycle[p].held = NoTitle

(* A feed answers; the ones before it that did not, or carried nothing that
   can be read, are passed over. *)
Fetch(p, edition) ==
  /\ BetweenFeeds(p)
  /\ \E i \in cycle[p].feed + 1 .. Len(edition) :
       cycle' = [cycle EXCEPT ![p] = [feed |-> i, todo |-> edition[i], held |-> NoTitle]]
  /\ UNCHANGED news

LookUp(p) ==
  /\ cycle[p].todo # <<>> /\ cycle[p].held = NoTitle
  /\ LET title == Head(cycle[p].todo)
     IN  cycle' = [cycle EXCEPT ![p].todo = Tail(@),
                                ![p].held = IF Exists(p, title) THEN NoTitle ELSE title]
  /\ UNCHANGED news

StoreItem(p) ==
  /\ cycle[p].held # NoTitle
  /\ news' = Append(news, [title |-> cycle[p].held, feed |-> cycle[p].feed, by |-> p])
  /\ cycle' = [cycle EXCEPT ![p].held = NoTitle]

(* The store may raise, which ends the cycle for every feed yet to come. *)
ItemLost(p) ==
  /\ cycle[p].held # NoTitle
  /\ cycle' = [cycle EXCEPT ![p] = Idle]
  /\ UNCHANGED news

CycleEnds(p) ==
  /\ BetweenFeeds(p)
  /\ cycle' = [cycle EXCEPT ![p] = Idle]
  /\ UNCHANGED news

Ingests(p, edition) == Fetch(p, edition) \/ LookUp(p) \/ StoreItem(p)

(* The process stops in the middle of a cycle. *)
Forgotten(p) == cycle' = [cycle EXCEPT ![p] = Idle] /\ UNCHANGED news

NewsTypeOK ==
  /\ news \in Seq(NewsItem)
  /\ cycle \in [Ingesters -> [feed : Nat, todo : Seq(Titles), held : Titles \cup {NoTitle}]]

(* A process never stores a headline twice, whichever feeds carry it, however its
   cycles are cut short by a store that fails or by a restart: what it looked
   up and did not find is stored before it looks up anything else.  So a
   headline has at most one row for each process; two processes that both
   look before either stores do leave two (headline_exists, store_news_item). *)
HeadlineOncePerProcess ==
  \A i, j \in DOMAIN news :
    i # j /\ news[i].title = news[j].title => news[i].by # news[j].by
=============================================================================
