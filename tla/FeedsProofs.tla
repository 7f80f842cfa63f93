----------------------------- MODULE FeedsProofs -----------------------------
(***************************************************************************)
(* The tables that three writers fill, for any symbols, routes, intervals  *)
(* and numbers of quotes, failures and restarts.  FeedsIInv is what every  *)
(* step keeps; it has one part for each owner of state: the quotes and the *)
(* bars made of them (TableInv), the monitor's tick (MonitorInv), the      *)
(* stream and what it told (StreamInv), the alerts, the headlines (NewsInv)*)
(* and the rest.  There is one lemma per action.                           *)
(***************************************************************************)
EXTENDS Feeds, FiniteSetTheorems, SequenceTheorems, WellFoundedInduction, TLAPS

(* Induction over the naturals, for a set. *)
LEMMA Induct ==
  ASSUME NEW S, 0 \in S, \A n \in Nat : n \in S => n + 1 \in S
  PROVE  Nat \subseteq S
  <1> DEFINE T == Nat \ S
  <1>1. SUFFICES ASSUME T # {} PROVE FALSE
    OBVIOUS
  <1>2. PICK m \in T : \A k \in T : <<k, m>> \notin OpToRel(<, Nat)
    BY <1>1, NatLessThanWellFounded, WFMin, Zenon
  <1>3. \A k \in T : ~(k < m)
    BY <1>2 DEF OpToRel
  <1> QED
    BY <1>3

(* One element less. *)
LEMMA Without ==
  ASSUME NEW T, IsFiniteSet(T), NEW x \in T
  PROVE  /\ IsFiniteSet(T \ {x}) /\ Cardinality(T \ {x}) = Cardinality(T) - 1
         /\ Cardinality(T) \in Nat \ {0} /\ Cardinality(T \ {x}) \in Nat
  <1>1. IsFiniteSet(T \ {x}) /\ Cardinality(T \ {x}) = Cardinality(T) - 1
    BY FS_RemoveElement
  <1>2. Cardinality(T) \in Nat /\ Cardinality(T \ {x}) \in Nat
    BY <1>1, FS_CardinalityType
  <1>3. Cardinality(T) # 0
    BY FS_EmptySet
  <1> QED
    BY <1>1, <1>2, <1>3

(* Extremes of finite sets of integers. *)
LEMMA SomeHighest ==
  ASSUME NEW S, IsFiniteSet(S), S # {}, S \subseteq Int
  PROVE  \E x \in S : \A y \in S : x >= y
  <1> DEFINE K == {n \in Nat : \A T \in SUBSET S : Cardinality(T) = n /\ T # {} =>
                                  \E x \in T : \A y \in T : x >= y}
  <1>1. \A T \in SUBSET S : IsFiniteSet(T) /\ Cardinality(T) \in Nat
    BY FS_Subset, FS_CardinalityType
  <1>2. 0 \in K
    <2>1. ASSUME NEW T \in SUBSET S, Cardinality(T) = 0 PROVE T = {}
      <3>1. IsFiniteSet(T)
        BY <1>1
      <3> QED
        BY <2>1, <3>1, FS_EmptySet
    <2> QED
      BY <2>1
  <1>3. ASSUME NEW n \in Nat, n \in K PROVE n + 1 \in K
    <2> SUFFICES ASSUME NEW T \in SUBSET S, Cardinality(T) = n + 1, T # {}
                 PROVE  \E x \in T : \A y \in T : x >= y
      OBVIOUS
    <2>1. PICK z : z \in T
      OBVIOUS
    <2> DEFINE R == T \ {z}
    <2>2. R \in SUBSET S /\ Cardinality(R) = n
      BY <1>1, <2>1, Without
    <2>3. CASE R = {}
      <3>1. \A y \in T : y = z
        BY <2>3
      <3> QED
        BY <2>1, <3>1
    <2>4. CASE R # {}
      <3>1. PICK x \in R : \A y \in R : x >= y
        BY <1>3, <2>2, <2>4
      <3>2. x \in T /\ x \in Int /\ z \in Int
        BY <2>1
      <3>3. \A y \in T : y = z \/ y \in R
        OBVIOUS
      <3>4. \A y \in T : y \in Int
        OBVIOUS
      <3> HIDE DEF R
      <3>5. CASE x >= z
        BY <3>1, <3>2, <3>3, <3>5
      <3>6. CASE ~(x >= z)
        BY <2>1, <3>1, <3>2, <3>3, <3>4, <3>6
      <3> QED
        BY <3>5, <3>6
    <2> QED
      BY <2>3, <2>4
  <1>4. Nat \subseteq K
    <2> HIDE DEF K
    <2> QED
      BY <1>2, <1>3, Induct
  <1> QED
    BY <1>1, <1>4

LEMMA MaxIs ==
  ASSUME NEW S, IsFiniteSet(S), S # {}, S \subseteq Int
  PROVE  Max(S) \in S /\ \A y \in S : Max(S) >= y
  <1>1. \E x \in S : \A y \in S : x >= y
    BY SomeHighest
  <1> QED
    BY <1>1 DEF Max

LEMMA FiniteImage ==
  ASSUME NEW g, IsFiniteSet(DOMAIN g), g = [x \in DOMAIN g |-> g[x]]
  PROVE  IsFiniteSet({g[x] : x \in DOMAIN g})
  <1> DEFINE T == {g[x] : x \in DOMAIN g}
  <1>1. g \in [DOMAIN g -> T] /\ \A t \in T : \E x \in DOMAIN g : g[x] = t
    OBVIOUS
  <1> HIDE DEF T
  <1>2. g \in Surjection(DOMAIN g, T)
    BY <1>1 DEF Surjection
  <1>3. IsFiniteSet(T)
    BY <1>2, FS_Surjection
  <1> QED
    BY <1>3 DEF T

LEMMA MinIs ==
  ASSUME NEW S, IsFiniteSet(S), S # {}, S \subseteq Int
  PROVE  Min(S) \in S /\ \A y \in S : Min(S) <= y
  <1> DEFINE N == {-x : x \in S}
  <1> DEFINE g == [x \in S |-> -x]
  <1>1. IsFiniteSet(N)
    <2>1. g = [x \in DOMAIN g |-> g[x]] /\ DOMAIN g = S
      OBVIOUS
    <2>2. {g[x] : x \in DOMAIN g} = N
      OBVIOUS
    <2> HIDE DEF g, N
    <2>3. IsFiniteSet({g[x] : x \in DOMAIN g})
      BY <2>1, FiniteImage
    <2> QED
      BY <2>2, <2>3
  <1>2. N # {} /\ N \subseteq Int
    <2>1. N # {}
      OBVIOUS
    <2>2. \A x \in S : -x \in Int
      OBVIOUS
    <2> QED
      BY <2>1, <2>2
  <1>3. PICK m \in N : \A y \in N : m >= y
    <2> HIDE DEF N
    <2> QED
      BY <1>1, <1>2, SomeHighest
  <1>4. PICK x \in S : m = -x
    OBVIOUS
  <1>5. \A y \in S : x <= y
    <2> SUFFICES ASSUME NEW y \in S PROVE x <= y
      OBVIOUS
    <2>1. -x >= -y
      BY <1>3, <1>4
    <2> QED
      BY <2>1
  <1> QED
    BY <1>4, <1>5 DEF Min


-----------------------------------------------------------------------------
(* The constants. *)
LEMMA Numbers ==
  Prices \subseteq Nat /\ MaxTime \in Nat /\ Dedupe \in Nat /\ HealthyAge \in Nat
  BY FeedsAssumption, Zenon

LEMMA FrameFacts ==
  /\ Len(Frames) = 3 /\ DOMAIN Frames = 1..3
  /\ Frame = {Frames[i] : i \in 1..3}
  /\ Frames[1] # Frames[2] /\ Frames[1] # Frames[3] /\ Frames[2] # Frames[3]
  <1>1. Len(Frames) = 3 /\ DOMAIN Frames = 1..3
    BY DEF Frames
  <1>2. Frames[1] # Frames[2] /\ Frames[1] # Frames[3] /\ Frames[2] # Frames[3]
    BY DEF Frames
  <1> QED
    BY <1>1, <1>2 DEF Frame

LEMMA SupplyIs ==
  ASSUME NEW u \in Supplies PROVE u.quotes \in Nat /\ u.edition \in Seq(Seq(Titles))
  <1>1. Supplies \subseteq [quotes : Nat, edition : Seq(Seq(Titles))]
    BY FeedsAssumption, Zenon
  <1> QED
    BY <1>1

LEMMA RouteFacts ==
  /\ Len(Route) \in Nat \ {0} /\ DOMAIN Route = 1..Len(Route)
  /\ \A k \in 1..Len(Route) :
       /\ Route[k][1] \in Provider /\ Route[k][1] \in Writer /\ Route[k][1] # STREAM
       /\ Route[k][2] \in Symbols
  /\ \A p \in Provider : \E k \in 1..Len(Route) : p = Route[k][1]
  /\ \A k \in DOMAIN Routed :
       Routed[k][1] \in Writer /\ Routed[k][1] # STREAM /\ Routed[k][2] \in Symbols
  /\ STREAM \in Writer /\ STREAM \notin Provider
  <1>1. Route \in Seq(STRING \X Symbols) /\ Route # <<>> /\ STREAM \notin Provider
    BY FeedsAssumption
  <1>2. Len(Route) \in Nat \ {0} /\ DOMAIN Route = 1..Len(Route)
    BY <1>1
  <1>3. \A k \in 1..Len(Route) : Route[k][1] \in Provider /\ Route[k][2] \in Symbols
    BY <1>1, <1>2 DEF Provider
  <1>4. \A p \in Provider : \E k \in 1..Len(Route) : p = Route[k][1]
    BY <1>2 DEF Provider
  <1>5. \A k \in DOMAIN Routed : Routed[k][1] # STREAM /\ Routed[k] \in STRING \X Symbols
    BY FeedsAssumption
  <1>6. \A k \in DOMAIN Routed : Routed[k][1] \in Writer /\ Routed[k][2] \in Symbols
    BY <1>5 DEF Writer
  <1> QED
    BY <1>1, <1>2, <1>3, <1>4, <1>5, <1>6 DEF Writer

-----------------------------------------------------------------------------
(* Headlines. *)
(* A headline a process holds is not among those it has stored. *)
Unheld ==
  \A p \in Ingesters : cycle[p].held # NoTitle =>
    \A i \in DOMAIN news : news[i].by = p => news[i].title # cycle[p].held

(* A process that holds or has yet to look up a headline is within a feed. *)
Reading == \A p \in Ingesters : ~BetweenFeeds(p) => cycle[p].feed # 0

NewsInv == NewsTypeOK /\ Unheld /\ Reading /\ HeadlineOncePerProcess

CycleOK == [feed : Nat, todo : Seq(Titles), held : Titles \cup {NoTitle}]

LEMMA NewsFetched ==
  ASSUME NewsInv, NEW p \in Ingesters, NEW edition \in Seq(Seq(Titles)), Fetch(p, edition)
  PROVE  NewsInv'
  <1>1. PICK i \in cycle[p].feed + 1 .. Len(edition) :
          cycle' = [cycle EXCEPT ![p] = [feed |-> i, todo |-> edition[i], held |-> NoTitle]]
    BY DEF Fetch
  <1>2. news' = news /\ cycle \in [Ingesters -> CycleOK]
    BY DEF Fetch, NewsInv, NewsTypeOK, CycleOK
  <1>3. i \in Nat /\ edition[i] \in Seq(Titles)
    <2>1. cycle[p].feed \in Nat
      BY <1>2 DEF CycleOK
    <2> QED
      BY <1>1, <2>1
  <1>4. cycle' \in [Ingesters -> CycleOK]
    BY <1>1, <1>2, <1>3 DEF CycleOK
  <1>5. \A q \in Ingesters : cycle'[q].held # NoTitle => cycle'[q] = cycle[q]
    BY <1>1, <1>2
  <1>6. Reading'
    <2>1. i # 0
      BY <1>1, <1>2 DEF CycleOK
    <2>2. \A q \in Ingesters : q # p => cycle'[q] = cycle[q]
      BY <1>1, <1>2
    <2>3. cycle'[p].feed = i
      BY <1>1, <1>2
    <2> QED
      BY <2>1, <2>2, <2>3 DEF NewsInv, Reading, BetweenFeeds
  <1> QED
    BY <1>2, <1>4, <1>5, <1>6 DEF NewsInv, NewsTypeOK, Unheld, HeadlineOncePerProcess, CycleOK

LEMMA NewsLookedUp ==
  ASSUME NewsInv, NEW p \in Ingesters, LookUp(p)
  PROVE  NewsInv'
  <1> DEFINE title == Head(cycle[p].todo)
             held == IF Exists(p, title) THEN NoTitle ELSE title
  <1>1. news' = news /\ cycle \in [Ingesters -> CycleOK] /\ cycle[p].todo # <<>>
    BY DEF LookUp, NewsInv, NewsTypeOK, CycleOK
  <1>2. cycle' = [cycle EXCEPT ![p].todo = Tail(cycle[p].todo), ![p].held = held]
    BY DEF LookUp
  <1>3. title \in Titles /\ Tail(cycle[p].todo) \in Seq(Titles)
    <2>1. cycle[p].todo \in Seq(Titles)
      BY <1>1 DEF CycleOK
    <2> QED
      BY <1>1, <2>1
  <1>4. held \in Titles \cup {NoTitle} /\ (held # NoTitle => ~Exists(p, held))
    BY <1>3
  <1> HIDE DEF held, title
  <1>5. cycle' \in [Ingesters -> CycleOK]
    BY <1>1, <1>2, <1>3, <1>4 DEF CycleOK
  <1>6. /\ cycle'[p].held = held
        /\ \A q \in Ingesters : q # p => cycle'[q] = cycle[q]
    BY <1>1, <1>2 DEF CycleOK
  <1>7. Unheld'
    BY <1>1, <1>4, <1>6 DEF Unheld, NewsInv, Exists
  <1>8. Reading'
    <2>1. cycle'[p].feed = cycle[p].feed
      BY <1>1, <1>2 DEF CycleOK
    <2>2. cycle[p].feed # 0
      BY <1>1 DEF NewsInv, Reading, BetweenFeeds
    <2> QED
      BY <1>6, <2>1, <2>2 DEF NewsInv, Reading, BetweenFeeds
  <1> QED
    BY <1>1, <1>5, <1>7, <1>8 DEF NewsInv, NewsTypeOK, HeadlineOncePerProcess, CycleOK

LEMMA NewsStored ==
  ASSUME NewsInv, NEW p \in Ingesters, StoreItem(p)
  PROVE  NewsInv'
  <1> DEFINE row == [title |-> cycle[p].held, feed |-> cycle[p].feed, by |-> p]
             n == Len(news)
  <1>1. /\ news \in Seq(NewsItem) /\ cycle \in [Ingesters -> CycleOK]
        /\ cycle[p].held # NoTitle
        /\ news' = Append(news, row) /\ cycle' = [cycle EXCEPT ![p].held = NoTitle]
    BY DEF StoreItem, NewsInv, NewsTypeOK, CycleOK
  <1>2. row \in NewsItem
    <2>1. cycle[p].feed # 0
      BY <1>1 DEF NewsInv, Reading, BetweenFeeds
    <2>2. cycle[p].feed \in Nat \ {0} /\ cycle[p].held \in Titles
      BY <1>1, <2>1 DEF CycleOK
    <2> QED
      BY <2>2 DEF NewsItem
  <1>3. /\ news' \in Seq(NewsItem) /\ n \in Nat /\ DOMAIN news = 1..n
        /\ DOMAIN news' = 1..(n + 1) /\ news'[n + 1] = row
        /\ \A i \in 1..n : news'[i] = news[i]
    <2> HIDE DEF row
    <2> QED
      BY <1>1, <1>2
  <1>4. cycle' \in [Ingesters -> CycleOK]
    BY <1>1 DEF CycleOK
  <1>5. /\ cycle'[p].held = NoTitle
        /\ \A q \in Ingesters : q # p => cycle'[q] = cycle[q]
    BY <1>1 DEF CycleOK
  <1>6. row.title = cycle[p].held /\ row.by = p
    OBVIOUS
  <1>7. \A i \in 1..(n + 1) : i \in 1..n \/ i = n + 1
    BY <1>3
  <1> HIDE DEF row, n
  <1>8. Unheld'
    <2> SUFFICES ASSUME NEW q \in Ingesters, cycle'[q].held # NoTitle,
                        NEW i \in DOMAIN news', news'[i].by = q
                 PROVE  news'[i].title # cycle'[q].held
      BY DEF Unheld
    <2>1. q # p /\ cycle'[q] = cycle[q]
      BY <1>5
    <2>2. i \in 1..n /\ news'[i] = news[i]
      BY <1>3, <1>6, <1>7, <2>1
    <2> QED
      BY <1>3, <2>1, <2>2 DEF NewsInv, Unheld
  <1>9. HeadlineOncePerProcess'
    <2>1. \A i \in 1..n : news[i].by = p => news[i].title # row.title
      BY <1>1, <1>3, <1>6 DEF NewsInv, Unheld
    <2> SUFFICES ASSUME NEW i \in DOMAIN news', NEW j \in DOMAIN news', i # j,
                        news'[i].title = news'[j].title
                 PROVE  news'[i].by # news'[j].by
      BY DEF HeadlineOncePerProcess
    <2>2. CASE i \in 1..n /\ j \in 1..n
      BY <1>3, <2>2 DEF NewsInv, HeadlineOncePerProcess
    <2>3. CASE i = n + 1 /\ j \in 1..n
      BY <1>3, <1>6, <2>1, <2>3
    <2>4. CASE j = n + 1 /\ i \in 1..n
      BY <1>3, <1>6, <2>1, <2>4
    <2> QED
      BY <1>3, <1>7, <2>2, <2>3, <2>4
  <1>10. Reading'
    <2>1. cycle'[p].feed = cycle[p].feed /\ cycle[p].feed # 0
      BY <1>1 DEF NewsInv, Reading, BetweenFeeds, CycleOK
    <2> QED
      BY <1>5, <2>1 DEF NewsInv, Reading, BetweenFeeds
  <1> QED
    BY <1>3, <1>4, <1>8, <1>9, <1>10 DEF NewsInv, NewsTypeOK, CycleOK

LEMMA NewsDropped ==
  ASSUME NewsInv, NEW p \in Ingesters, ItemLost(p) \/ CycleEnds(p) \/ Forgotten(p)
  PROVE  NewsInv'
  <1>1. news' = news /\ cycle' = [cycle EXCEPT ![p] = Idle] /\ cycle \in [Ingesters -> CycleOK]
    BY DEF ItemLost, CycleEnds, Forgotten, NewsInv, NewsTypeOK, CycleOK
  <1>2. Idle \in CycleOK /\ Idle.held = NoTitle
    BY DEF Idle, CycleOK
  <1>3. cycle' \in [Ingesters -> CycleOK]
    BY <1>1, <1>2
  <1>4. \A q \in Ingesters : cycle'[q].held # NoTitle => cycle'[q] = cycle[q]
    BY <1>1, <1>2
  <1>5. Reading'
    <2>1. Idle.todo = <<>>
      BY DEF Idle
    <2>2. \A q \in Ingesters : cycle'[q] = Idle \/ cycle'[q] = cycle[q]
      BY <1>1
    <2> QED
      BY <1>2, <2>1, <2>2 DEF NewsInv, Reading, BetweenFeeds
  <1> QED
    BY <1>1, <1>3, <1>4, <1>5 DEF NewsInv, NewsTypeOK, Unheld, HeadlineOncePerProcess, CycleOK

LEMMA NewsKept ==
  ASSUME NewsInv, NEW p \in Ingesters, NEW edition \in Seq(Seq(Titles)),
         Ingests(p, edition) \/ ItemLost(p) \/ CycleEnds(p) \/ Forgotten(p)
  PROVE  NewsInv'
  BY NewsFetched, NewsLookedUp, NewsStored, NewsDropped DEF Ingests

LEMMA NewsAlone ==
  ASSUME NewsInv, UNCHANGED newsVars
  PROVE  NewsInv'
  BY DEF NewsInv, newsVars, NewsTypeOK, Unheld, Reading, BetweenFeeds, HeadlineOncePerProcess

-----------------------------------------------------------------------------
(* Rows of quotes. *)
LEMMA Prefix ==
  ASSUME NEW q \in Seq(Quote), NEW n \in 0..Len(q)
  PROVE  /\ SubSeq(q, 1, n) \in Seq(Quote) /\ Len(SubSeq(q, 1, n)) = n
         /\ DOMAIN SubSeq(q, 1, n) = 1..n
         /\ \A i \in 1..n : SubSeq(q, 1, n)[i] = q[i]
  <1>1. Len(q) \in Nat /\ n \in Nat /\ 1..n \subseteq 1..Len(q)
    OBVIOUS
  <1>2. \A i \in 1..n : q[i] \in Quote
    BY <1>1
  <1>3. /\ SubSeq(q, 1, n) \in Seq(Quote)
        /\ Len(SubSeq(q, 1, n)) = IF 1 <= n THEN n - 1 + 1 ELSE 0
        /\ \A i \in 1 .. n - 1 + 1 : SubSeq(q, 1, n)[i] = q[1 + i - 1]
    BY <1>1, <1>2, SubSeqProperties
  <1>4. Len(SubSeq(q, 1, n)) = n
    BY <1>1, <1>3
  <1>5. \A i \in 1..n : 1 + i - 1 = i /\ i \in 1 .. n - 1 + 1
    BY <1>1
  <1> QED
    BY <1>3, <1>4, <1>5, LenProperties

LEMMA SamePrefix ==
  ASSUME NEW q \in Seq(Quote), NEW r \in Seq(Quote), NEW n \in 0..Len(q), Len(r) >= Len(q),
         \A i \in 1..Len(q) : r[i] = q[i]
  PROVE  SubSeq(r, 1, n) = SubSeq(q, 1, n)
  <1>1. n \in 0..Len(r) /\ Len(q) \in Nat /\ \A i \in 1..n : i \in 1..Len(q)
    OBVIOUS
  <1>2. /\ SubSeq(q, 1, n) \in Seq(Quote) /\ Len(SubSeq(q, 1, n)) = n
        /\ SubSeq(r, 1, n) \in Seq(Quote) /\ Len(SubSeq(r, 1, n)) = n
        /\ \A i \in 1..n : SubSeq(r, 1, n)[i] = SubSeq(q, 1, n)[i]
    BY <1>1, Prefix
  <1> QED
    BY <1>2, SeqEqual

LEMMA RowIs ==
  ASSUME NEW rows \in Seq(Quote), NEW i \in DOMAIN rows
  PROVE  /\ rows[i].at \in Nat /\ rows[i].at <= MaxTime /\ rows[i].price \in Prices /\ rows[i].price \in Nat
         /\ i \in Int
  <1>1. rows[i] \in Quote /\ i \in Int
    OBVIOUS
  <1>2. rows[i].at \in 0..MaxTime /\ rows[i].price \in Prices
    BY <1>1 DEF Quote
  <1>3. rows[i].at \in Nat /\ rows[i].at <= MaxTime
    BY <1>2, Numbers
  <1>4. rows[i].price \in Nat
    BY <1>2, Numbers
  <1> QED
    BY <1>1, <1>2, <1>3, <1>4

LEMMA FiniteRows ==
  ASSUME NEW rows \in Seq(Quote), NEW group, group \subseteq DOMAIN rows
  PROVE  /\ IsFiniteSet(group) /\ group \subseteq Int
         /\ IsFiniteSet({rows[i].at : i \in group}) /\ IsFiniteSet({rows[i].price : i \in group})
  <1>1. Len(rows) \in Nat /\ DOMAIN rows = 1..Len(rows)
    OBVIOUS
  <1>2. IsFiniteSet(1..Len(rows))
    BY <1>1, FS_Interval
  <1>3. IsFiniteSet(group)
    BY <1>1, <1>2, FS_Subset
  <1>4. group \subseteq Int
    BY <1>1
  <1>5. IsFiniteSet({rows[i].at : i \in group})
    <2> DEFINE g == [i \in group |-> rows[i].at]
    <2>1. DOMAIN g = group /\ g = [i \in DOMAIN g |-> g[i]]
      OBVIOUS
    <2>2. {g[i] : i \in DOMAIN g} = {rows[i].at : i \in group}
      OBVIOUS
    <2> HIDE DEF g
    <2>3. IsFiniteSet({g[i] : i \in DOMAIN g})
      BY <1>3, <2>1, FiniteImage
    <2> QED
      BY <2>2, <2>3
  <1>6. IsFiniteSet({rows[i].price : i \in group})
    <2> DEFINE g == [i \in group |-> rows[i].price]
    <2>1. DOMAIN g = group /\ g = [i \in DOMAIN g |-> g[i]]
      OBVIOUS
    <2>2. {g[i] : i \in DOMAIN g} = {rows[i].price : i \in group}
      OBVIOUS
    <2> HIDE DEF g
    <2>3. IsFiniteSet({g[i] : i \in DOMAIN g})
      BY <1>3, <2>1, FiniteImage
    <2> QED
      BY <2>2, <2>3
  <1> QED
    BY <1>3, <1>4, <1>5, <1>6

(* The ends of a group exist: the earliest, and of those the first inserted. *)
LEMMA EndsOfGroup ==
  ASSUME NEW rows \in Seq(Quote), NEW group, group \subseteq DOMAIN rows, group # {}
  PROVE  Earliest(rows, group) \in group /\ Latest(rows, group) \in group
  <1> DEFINE times == {rows[i].at : i \in group}
             At0 == {i \in group : rows[i].at = Min(times)}
             At1 == {i \in group : rows[i].at = Max(times)}
  <1>1. IsFiniteSet(group) /\ group \subseteq Int /\ IsFiniteSet(times)
    BY FiniteRows
  <1>2. \A i \in group : rows[i].at \in Int
    BY RowIs
  <1>3. times # {} /\ times \subseteq Int
    BY <1>2
  <1>4. /\ Min(times) \in times /\ \A t \in times : Min(times) <= t
        /\ Max(times) \in times /\ \A t \in times : Max(times) >= t
    <2> HIDE DEF times
    <2> QED
      BY <1>1, <1>3, MinIs, MaxIs
  <1>5. At0 # {} /\ At1 # {} /\ At0 \subseteq Int /\ At1 \subseteq Int
    BY <1>1, <1>4
  <1>6. IsFiniteSet(At0) /\ IsFiniteSet(At1)
    <2>1. At0 \subseteq group /\ At1 \subseteq group
      OBVIOUS
    <2> HIDE DEF At0, At1
    <2> QED
      BY <1>1, <2>1, FS_Subset
  <1>7. PICK a \in At0 : \A i \in At0 : a <= i
    <2> HIDE DEF At0
    <2> QED
      BY <1>5, <1>6, MinIs
  <1>8. PICK z \in At1 : \A i \in At1 : z >= i
    <2> HIDE DEF At1
    <2> QED
      BY <1>5, <1>6, MaxIs
  <1>9. \A j \in group : rows[j].at \in times
    OBVIOUS
  <1>10. /\ a \in group /\ rows[a].at = Min(times) /\ z \in group /\ rows[z].at = Max(times)
         /\ Min(times) \in Int /\ Max(times) \in Int
    BY <1>3, <1>4
  <1> HIDE DEF times
  <1>11. \A j \in group : Before(rows, a, j)
    BY <1>2, <1>4, <1>7, <1>9, <1>10 DEF Before
  <1>12. \A j \in group : Before(rows, j, z)
    BY <1>2, <1>4, <1>8, <1>9, <1>10 DEF Before
  <1> QED
    BY <1>10, <1>11, <1>12 DEF Earliest, Latest

-----------------------------------------------------------------------------
(* Bars. *)
BarFields == [open : Nat, high : Nat, low : Nat, close : Nat]

LEMMA BarIs ==
  ASSUME NEW bar \in Bar \cup {NoBar} PROVE bar \in BarFields
  <1>1. ASSUME bar \in Bar PROVE bar \in BarFields
    <2>1. /\ bar = [open |-> bar.open, high |-> bar.high, low |-> bar.low, close |-> bar.close]
          /\ bar.open \in Prices /\ bar.high \in Prices /\ bar.low \in Prices /\ bar.close \in Prices
      BY <1>1 DEF Bar
    <2>2. bar.open \in Nat /\ bar.high \in Nat /\ bar.low \in Nat /\ bar.close \in Nat
      BY <2>1, Numbers
    <2> QED
      BY <2>1, <2>2 DEF BarFields
  <1>2. NoBar \in BarFields
    BY DEF NoBar, BarFields
  <1> QED
    BY <1>1, <1>2

LEMMA GroupIs ==
  ASSUME NEW rows \in Seq(Quote), NEW f \in Frame, NEW s \in Symbols, NEW b,
         Group(rows, f, s, b) # {}
  PROVE  LET group == Group(rows, f, s, b)
             new == OfQuotes(rows, group)
         IN  /\ new \in Bar
             /\ \A i \in group : new.low <= rows[i].price /\ rows[i].price <= new.high
             /\ new.high \in {rows[i].price : i \in group} /\ new.low \in {rows[i].price : i \in group}
             /\ \E i \in group : new.open = rows[i].price
  <1> DEFINE group == Group(rows, f, s, b)
             prices == {rows[i].price : i \in group}
  <1>1. group \subseteq DOMAIN rows /\ group # {}
    BY DEF Group
  <1> HIDE DEF group
  <1>2. IsFiniteSet(prices) /\ Earliest(rows, group) \in group /\ Latest(rows, group) \in group
    BY <1>1, FiniteRows, EndsOfGroup
  <1>3. \A i \in group : rows[i].price \in Prices /\ rows[i].price \in Nat
    BY <1>1, RowIs
  <1>4. prices # {} /\ prices \subseteq Int /\ prices \subseteq Prices
    BY <1>1, <1>3
  <1>5. /\ Min(prices) \in prices /\ \A p \in prices : Min(prices) <= p
        /\ Max(prices) \in prices /\ \A p \in prices : Max(prices) >= p
    <2> HIDE DEF prices
    <2> QED
      BY <1>2, <1>4, MinIs, MaxIs
  <1>6. \A i \in group : rows[i].price \in prices
    OBVIOUS
  <1> DEFINE new == OfQuotes(rows, group)
  <1>7. new = [open |-> rows[Earliest(rows, group)].price, high |-> Max(prices), low |-> Min(prices),
               close |-> rows[Latest(rows, group)].price]
    BY DEF OfQuotes
  <1> HIDE DEF new, prices
  <1>8. new \in Bar
    BY <1>2, <1>3, <1>4, <1>5, <1>7 DEF Bar
  <1>9. \A i \in group : new.low <= rows[i].price /\ rows[i].price <= new.high
    <2> SUFFICES ASSUME NEW i \in group PROVE new.low <= rows[i].price /\ rows[i].price <= new.high
      OBVIOUS
    <2>1. new.low = Min(prices) /\ new.high = Max(prices)
      BY <1>7
    <2>2. Min(prices) \in Int /\ Max(prices) \in Int /\ rows[i].price \in Int
      BY <1>3, <1>4, <1>5, Numbers
    <2>3. Min(prices) <= rows[i].price /\ Max(prices) >= rows[i].price
      BY <1>5, <1>6
    <2> QED
      BY <2>1, <2>2, <2>3
  <1>10. new.high \in prices /\ new.low \in prices
    BY <1>5, <1>7
  <1>11. \E i \in group : new.open = rows[i].price
    BY <1>2, <1>7
  <1> QED
    BY <1>8, <1>9, <1>10, <1>11 DEF new, prices, group

(* One cell of the candles against the quotes its timeframe has read. *)
CellOK(rows, f, s, b, bar) ==
  LET group == Group(rows, f, s, b)
  IN  IF group = {} THEN bar = NoBar
      ELSE /\ [bar EXCEPT !.open = 0] = [OfQuotes(rows, group) EXCEPT !.open = 0]
           /\ \E i \in group : bar.open = rows[i].price

Cells ==
  \A f \in Frame, s \in Symbols, b \in Buckets :
    CellOK(SubSeq(quotes, 1, seen[f]), f, s, b, bars[f][s][b])

LEMMA CellsAre ==
  BarsAreOfTheQuotes <=> Cells
  BY DEF Cells, BarsAreOfTheQuotes, CellOK

LEMMA GroupGrows ==
  ASSUME NEW more \in Seq(Quote), NEW n \in 0..Len(more), NEW f, NEW s, NEW b
  PROVE  Group(SubSeq(more, 1, n), f, s, b) \subseteq Group(more, f, s, b)
  <1>1. /\ DOMAIN SubSeq(more, 1, n) = 1..n /\ \A i \in 1..n : SubSeq(more, 1, n)[i] = more[i]
    BY Prefix
  <1>2. 1..n \subseteq DOMAIN more
    OBVIOUS
  <1> QED
    BY <1>1, <1>2 DEF Group

(* An upsert of what a query read of more quotes, on a bar of the first n. *)
LEMMA CellUpserted ==
  ASSUME NEW more \in Seq(Quote), NEW n \in 0..Len(more), NEW f \in Frame, NEW s \in Symbols, NEW b,
         NEW old \in Bar \cup {NoBar}, CellOK(SubSeq(more, 1, n), f, s, b, old),
         NEW bar, bar = IF Group(more, f, s, b) = {} THEN old
                        ELSE Upserted(old, OfQuotes(more, Group(more, f, s, b)))
  PROVE  CellOK(more, f, s, b, bar) /\ bar \in Bar \cup {NoBar}
  <1> DEFINE rows == SubSeq(more, 1, n)
             before == Group(rows, f, s, b)
             group == Group(more, f, s, b)
             new == OfQuotes(more, group)
  <1>1. /\ before \subseteq group /\ \A i \in 1..n : rows[i] = more[i]
        /\ before \subseteq 1..n
    BY GroupGrows, Prefix DEF Group
  <1>2. CASE group = {}
    <2>1. before = {} /\ bar = old
      BY <1>1, <1>2
    <2>2. old = NoBar
      BY <2>1 DEF CellOK
    <2> QED
      BY <1>2, <2>1, <2>2 DEF CellOK
  <1>3. CASE group # {}
    <2>1. new \in Bar /\ \E i \in group : new.open = more[i].price
      BY <1>3, GroupIs
    <2>2. bar = Upserted(old, new)
      BY <1>3
    <2>3. old # NoBar => \E i \in group : old.open = more[i].price
      <3>1. old # NoBar => \E i \in before : old.open = rows[i].price
        BY DEF CellOK
      <3> HIDE DEF rows, before, group
      <3> QED
        BY <1>1, <3>1
    <2>4. CellOK(more, f, s, b, bar) <=>
             /\ [bar EXCEPT !.open = 0] = [new EXCEPT !.open = 0]
             /\ \E i \in group : bar.open = more[i].price
      BY <1>3 DEF CellOK
    <2>5. old \in BarFields /\ new \in BarFields
      BY <2>1, BarIs
    <2> HIDE DEF new, group
    <2>6. CASE old = NoBar
      BY <2>1, <2>2, <2>4, <2>6 DEF Upserted
    <2>7. CASE old # NoBar
      <3>1. bar = [old EXCEPT !.high = new.high, !.low = new.low, !.close = new.close] /\ old \in Bar
        BY <2>2, <2>7 DEF Upserted
      <3>2. [bar EXCEPT !.open = 0] = [new EXCEPT !.open = 0] /\ bar.open = old.open
        BY <2>5, <3>1 DEF BarFields
      <3>3. bar \in Bar
        BY <2>1, <3>1 DEF Bar
      <3> QED
        BY <2>3, <2>4, <2>7, <3>2, <3>3
    <2> QED
      BY <2>6, <2>7
  <1> QED
    BY <1>2, <1>3

BarsTyped == bars \in [Frame -> [Symbols -> [Buckets -> Bar \cup {NoBar}]]]

(* The bars are those of the quotes their timeframe has read, and no timeframe
   has read more than there is. *)
TableInv ==
  /\ supply \in Supplies
  /\ quotes \in Seq(Quote) /\ Len(quotes) <= supply.quotes
  /\ BarsTyped
  /\ seen \in [Frame -> Nat] /\ \A f \in Frame : seen[f] <= Len(quotes)
  /\ BarsAreOfTheQuotes

LEMMA Aggregated ==
  ASSUME TableInv, NEW frame \in Frame, Aggregate(frame), UNCHANGED <<quotes, supply>>
  PROVE  TableInv' /\ seen' = [seen EXCEPT ![frame] = Len(quotes)]
  <1> DEFINE cell(s, b) == IF Group(quotes, frame, s, b) = {} THEN bars[frame][s][b]
                           ELSE Upserted(bars[frame][s][b], OfQuotes(quotes, Group(quotes, frame, s, b)))
             row == [s \in Symbols |-> [b \in Buckets |-> cell(s, b)]]
  <1>1. bars' = [bars EXCEPT ![frame] = row] /\ seen' = [seen EXCEPT ![frame] = Len(quotes)]
    BY DEF Aggregate
  <1>2. quotes \in Seq(Quote) /\ Len(quotes) \in Nat /\ seen \in [Frame -> Nat]
    BY DEF TableInv
  <1>3. \A s \in Symbols, b \in Buckets :
          CellOK(quotes, frame, s, b, cell(s, b)) /\ cell(s, b) \in Bar \cup {NoBar}
    <2> SUFFICES ASSUME NEW s \in Symbols, NEW b \in Buckets
                 PROVE  CellOK(quotes, frame, s, b, cell(s, b)) /\ cell(s, b) \in Bar \cup {NoBar}
      OBVIOUS
    <2>1. bars[frame][s][b] \in Bar \cup {NoBar}
      BY DEF TableInv, BarsTyped
    <2>2. seen[frame] \in 0..Len(quotes)
      BY <1>2 DEF TableInv
    <2>3. CellOK(SubSeq(quotes, 1, seen[frame]), frame, s, b, bars[frame][s][b])
      BY CellsAre DEF TableInv, Cells
    <2> QED
      BY <1>2, <2>1, <2>2, <2>3, CellUpserted
  <1> HIDE DEF cell
  <1>4. row \in [Symbols -> [Buckets -> Bar \cup {NoBar}]]
    BY <1>3
  <1>5. \A s \in Symbols, b \in Buckets : row[s][b] = cell(s, b)
    OBVIOUS
  <1> HIDE DEF row
  <1>6. BarsTyped'
    BY <1>1, <1>4 DEF TableInv, BarsTyped
  <1>7. \A f \in Frame, s \in Symbols, b \in Buckets :
          CellOK(SubSeq(quotes, 1, seen'[f]), f, s, b, bars'[f][s][b])
    <2> SUFFICES ASSUME NEW f \in Frame, NEW s \in Symbols, NEW b \in Buckets
                 PROVE  CellOK(SubSeq(quotes, 1, seen'[f]), f, s, b, bars'[f][s][b])
      OBVIOUS
    <2>1. CASE f = frame
      <3>1. seen'[f] = Len(quotes) /\ bars'[f] = row
        BY <1>1, <1>2, <2>1 DEF TableInv, BarsTyped
      <3>2. SubSeq(quotes, 1, seen'[f]) = quotes
        BY <1>2, <3>1, SubSeqFull
      <3> QED
        BY <1>3, <1>5, <2>1, <3>1, <3>2
    <2>2. CASE f # frame
      <3>1. seen'[f] = seen[f] /\ bars'[f] = bars[f]
        BY <1>1, <1>2, <2>2 DEF TableInv, BarsTyped
      <3>2. CellOK(SubSeq(quotes, 1, seen[f]), f, s, b, bars[f][s][b])
        BY CellsAre DEF TableInv, Cells
      <3> QED
        BY <3>1, <3>2
    <2> QED
      BY <2>1, <2>2
  <1>8. BarsAreOfTheQuotes'
    <2>1. Cells'
      BY <1>7 DEF Cells
    <2> QED
      BY <2>1, CellsAre, PTL
  <1>9. seen' \in [Frame -> Nat] /\ \A f \in Frame : seen'[f] <= Len(quotes)
    BY <1>1, <1>2 DEF TableInv
  <1> QED
    BY <1>1, <1>6, <1>8, <1>9 DEF TableInv

-----------------------------------------------------------------------------
(* Buckets within buckets. *)
LEMMA DivIs ==
  ASSUME NEW a \in Nat, NEW m \in Nat \ {0}
  PROVE  /\ a \div m \in Nat /\ m * (a \div m) <= a /\ a < m * (a \div m) + m
         /\ a \div m <= a
  OBVIOUS

LEMMA Times ==
  ASSUME NEW c \in Nat, NEW x \in Int, NEW y \in Int, x <= y
  PROVE  c * x \in Int /\ c * y \in Int /\ c * x <= c * y
  <1>1. c * (y - x) \in Nat
    <2>1. y - x \in Nat
      OBVIOUS
    <2> QED
      BY <2>1
  <1>2. c * (y - x) = c * y - c * x
    OBVIOUS
  <1>3. c * x \in Int /\ c * y \in Int
    OBVIOUS
  <1> QED
    BY <1>1, <1>2, <1>3


LEMMA Below ==
  ASSUME NEW m \in Nat \ {0}, NEW x \in Int, NEW y \in Int, NEW a \in Int, m * x <= a, a < m * y + m
  PROVE  x <= y
  <1> SUFFICES ASSUME y + 1 <= x PROVE FALSE
    OBVIOUS
  <1>1. m * (y + 1) <= m * x /\ m * (y + 1) \in Int /\ m * x \in Int
    BY Times
  <1>2. m * (y + 1) = m * y + m /\ m * y \in Int
    OBVIOUS
  <1> QED
    BY <1>1, <1>2

LEMMA Mult ==
  ASSUME NEW n \in Nat \ {0}, NEW m \in Nat \ {0}, n % m = 0
  PROVE  n = m * (n \div m) /\ n \div m \in Nat
  OBVIOUS

(* What one fine bucket holds, one coarse bucket holds. *)
LEMMA Coarser ==
  ASSUME NEW a \in Nat, NEW b \in Nat, NEW m \in Nat \ {0}, NEW n \in Nat \ {0}, n % m = 0,
         a \div m = b \div m
  PROVE  a \div n <= b \div n
  <1> DEFINE k == n \div m
             p == a \div m
             q == a \div n
             r == b \div n
  <1>1. k \in Nat /\ n = m * k
    BY Mult
  <1>2. /\ p \in Nat /\ q \in Nat /\ r \in Nat
        /\ n * q <= a /\ b < n * r + n /\ a < m * p + m /\ m * p <= b
    <2>1. p = b \div m
      OBVIOUS
    <2> HIDE DEF p, q, r
    <2> QED
      BY <2>1, DivIs DEF q, p, r
  <1> HIDE DEF k, p, q, r
  <1>3. n * q = m * (k * q) /\ k * q \in Int
    BY <1>1, <1>2
  <1>4. k * q <= p
    BY <1>1, <1>2, <1>3, Below
  <1>5. m * (k * q) <= m * p /\ m * (k * q) \in Int /\ m * p \in Int
    BY <1>2, <1>3, <1>4, Times
  <1>6. n * q <= b
    BY <1>1, <1>2, <1>3, <1>5
  <1>7. q <= r
    BY <1>2, <1>6, Below
  <1> QED
    BY <1>7 DEF q, r

LEMMA CellHigh ==
  ASSUME NEW rows \in Seq(Quote), NEW f \in Frame, NEW s \in Symbols, NEW b, NEW bar \in Bar \cup {NoBar},
         CellOK(rows, f, s, b, bar), Group(rows, f, s, b) # {}
  PROVE  LET group == Group(rows, f, s, b)
         IN  /\ \A i \in group : bar.low <= rows[i].price /\ rows[i].price <= bar.high
             /\ \E i \in group : bar.high = rows[i].price
             /\ \E i \in group : bar.low = rows[i].price
  <1> DEFINE group == Group(rows, f, s, b)
             new == OfQuotes(rows, group)
  <1>1. /\ new \in Bar
        /\ \A i \in group : new.low <= rows[i].price /\ rows[i].price <= new.high
        /\ new.high \in {rows[i].price : i \in group} /\ new.low \in {rows[i].price : i \in group}
    BY GroupIs
  <1>2. [bar EXCEPT !.open = 0] = [new EXCEPT !.open = 0]
    BY DEF CellOK
  <1>3. bar \in BarFields /\ new \in BarFields
    BY <1>1, BarIs
  <1> HIDE DEF new, group
  <1>4. bar.high = new.high /\ bar.low = new.low
    <2>1. [bar EXCEPT !.open = 0].high = bar.high /\ [bar EXCEPT !.open = 0].low = bar.low
      BY <1>3 DEF BarFields
    <2>2. [new EXCEPT !.open = 0].high = new.high /\ [new EXCEPT !.open = 0].low = new.low
      BY <1>3 DEF BarFields
    <2> QED
      BY <1>2, <2>1, <2>2
  <1> QED
    BY <1>1, <1>4 DEF group

(* A finer timeframe that has read no more than the coarser nests in it. *)
LEMMA Nested ==
  ASSUME TableInv, NEW j \in 1..2, seen[Frames[j]] <= seen[Frames[j + 1]]
  PROVE  Within(Frames[j], Frames[j + 1])
  <1> DEFINE f == Frames[j]
             g == Frames[j + 1]
             m == Seconds[f]
             n == Seconds[g]
  <1>1. f \in Frame /\ g \in Frame
    BY FrameFacts
  <1>2. m \in Nat \ {0} /\ n \in Nat \ {0} /\ n % m = 0
    <2>1. Seconds \in [Frame -> Nat \ {0}] /\ \A i \in 1..2 : Seconds[Frames[i + 1]] % Seconds[Frames[i]] = 0
      BY FeedsAssumption, Zenon
    <2>2. n % m = 0
      BY <2>1
    <2> HIDE DEF f, g
    <2> QED
      BY <1>1, <2>1, <2>2
  <1> DEFINE fine == SubSeq(quotes, 1, seen[f])
             coarse == SubSeq(quotes, 1, seen[g])
  <1>3. /\ seen[f] \in 0..Len(quotes) /\ seen[g] \in 0..Len(quotes) /\ quotes \in Seq(Quote)
        /\ seen[f] <= seen[g]
    BY <1>1 DEF TableInv
  <1>4. /\ fine \in Seq(Quote) /\ DOMAIN fine = 1..seen[f] /\ \A i \in 1..seen[f] : fine[i] = quotes[i]
        /\ coarse \in Seq(Quote) /\ DOMAIN coarse = 1..seen[g] /\ \A i \in 1..seen[g] : coarse[i] = quotes[i]
    BY <1>3, Prefix
  <1>5. \A i \in 1..seen[f] : i \in 1..seen[g]
    BY <1>3
  <1> HIDE DEF f, g, m, n, fine, coarse
  <1>same. \A u, v \in Nat : u \div m = v \div m => u \div n = v \div n
    <2> SUFFICES ASSUME NEW u \in Nat, NEW v \in Nat, u \div m = v \div m PROVE u \div n = v \div n
      OBVIOUS
    <2>1. u \div n <= v \div n /\ v \div n <= u \div n
      BY <1>2, Coarser
    <2>2. u \div n \in Nat /\ v \div n \in Nat
      BY <1>2, DivIs
    <2> QED
      BY <2>1, <2>2
  <1> SUFFICES ASSUME NEW s \in Symbols, NEW t \in Buckets, bars[f][s][Bucket(t, f)] # NoBar
               PROVE  /\ bars[f][s][Bucket(t, f)].high <= bars[g][s][Bucket(t, g)].high
                      /\ bars[g][s][Bucket(t, g)].low <= bars[f][s][Bucket(t, f)].low
    BY DEF Within, f, g
  <1> DEFINE b == Bucket(t, f)
             c == Bucket(t, g)
             inner == bars[f][s][b]
             outer == bars[g][s][c]
  <1>6. b = t \div m /\ c = t \div n /\ t \in Nat /\ b \in Buckets /\ c \in Buckets
    <2>1. t \in Nat /\ t <= MaxTime /\ MaxTime \in Nat
      BY Numbers DEF Buckets
    <2>2. b = t \div m /\ c = t \div n
      BY DEF Bucket, m, n
    <2>3. t \div m \in Nat /\ t \div m <= t /\ t \div n \in Nat /\ t \div n <= t
      BY <1>2, <2>1, DivIs
    <2> HIDE DEF b, c
    <2> QED
      BY <2>1, <2>2, <2>3 DEF Buckets
  <1>7. inner \in Bar \cup {NoBar} /\ outer \in Bar \cup {NoBar}
    <2> HIDE DEF b, c
    <2> QED
      BY <1>1, <1>6 DEF TableInv, BarsTyped
  <1>8. CellOK(fine, f, s, b, inner) /\ CellOK(coarse, g, s, c, outer)
    <2> HIDE DEF b, c
    <2> QED
      BY <1>1, <1>6, CellsAre DEF TableInv, Cells, fine, coarse
  <1> DEFINE G == Group(fine, f, s, b)
             H == Group(coarse, g, s, c)
  <1>9. G # {}
    BY <1>8 DEF CellOK
  <1>10. G \subseteq H /\ \A i \in G : fine[i] = coarse[i] /\ fine[i].price \in Int
    <2> SUFFICES ASSUME NEW i \in G PROVE i \in H /\ fine[i] = coarse[i] /\ fine[i].price \in Int
      OBVIOUS
    <2>1. /\ i \in 1..seen[f] /\ fine[i].symbol = s /\ fine[i].price > 0
          /\ fine[i].at \div m = t \div m
      BY <1>4 DEF Group, Bucket, m
    <2>2. i \in 1..seen[g] /\ coarse[i] = fine[i]
      BY <1>4, <1>5, <2>1
    <2>3. fine[i].at \in Nat /\ fine[i].price \in Int
      <3>1. i \in DOMAIN fine /\ fine \in Seq(Quote)
        BY <1>4, <2>1
      <3>2. fine[i].at \in Nat /\ fine[i].price \in Nat
        BY <3>1, RowIs, Zenon
      <3> QED
        BY <3>2
    <2>4. fine[i].at \div n = t \div n
      <3> DEFINE u == fine[i].at
      <3>1. u \in Nat /\ u \div m = t \div m
        BY <2>1, <2>3
      <3> HIDE DEF u
      <3>2. t \in Nat
        BY <1>6
      <3>3. u \div n = t \div n
        BY <3>1, <3>2, <1>same
      <3> QED
        BY <3>3 DEF u
    <2>5. i \in H
      BY <1>4, <2>1, <2>2, <2>4 DEF Group, Bucket, n
    <2> QED
      BY <2>2, <2>3, <2>5
  <1> HIDE DEF b, c, inner, outer
  <1>11. (\E x \in G : inner.high = fine[x].price) /\ (\E y \in G : inner.low = fine[y].price)
    <2>1. CellOK(fine, f, s, b, inner) /\ fine \in Seq(Quote) /\ inner \in Bar \cup {NoBar} /\ f \in Frame
      BY <1>1, <1>4, <1>7, <1>8
    <2>2. Group(fine, f, s, b) # {}
      BY <1>9
    <2> HIDE DEF G
    <2>3. /\ \E i \in Group(fine, f, s, b) : inner.high = fine[i].price
          /\ \E i \in Group(fine, f, s, b) : inner.low = fine[i].price
      BY <2>1, <2>2, CellHigh
    <2> QED
      BY <2>3 DEF G
  <1>12. \A i \in H : outer.low <= coarse[i].price /\ coarse[i].price <= outer.high
    BY <1>1, <1>4, <1>7, <1>8, <1>9, <1>10, CellHigh
  <1> HIDE DEF G, H
  <1>13. inner.high <= outer.high /\ outer.low <= inner.low
    <2>1. PICK x \in G : inner.high = fine[x].price
      BY <1>11
    <2>2. PICK y \in G : inner.low = fine[y].price
      BY <1>11
    <2> QED
      BY <1>10, <1>12, <2>1, <2>2
  <1> QED
    BY <1>13 DEF inner, outer, b, c

-----------------------------------------------------------------------------
(* What the writers add. *)
Grown ==
  /\ Len(quotes') >= Len(quotes) /\ quotes' \in Seq(Quote)
  /\ \A i \in DOMAIN quotes : i \in DOMAIN quotes' /\ quotes'[i] = quotes[i]

Added(w) ==
  /\ Grown
  /\ \E n \in DOMAIN quotes' : n = Len(quotes) + 1 /\ quotes'[n].by = w /\ quotes'[n].at <= now
  /\ \A i \in DOMAIN quotes' : i \in DOMAIN quotes \/ (quotes'[i].by = w /\ quotes'[i].at <= now)

LEMMA StoredOne ==
  ASSUME TableInv, now \in 0..MaxTime, NEW w \in Writer, NEW symbol \in Symbols, NEW price \in Prices,
         Stores(w, symbol, price), UNCHANGED <<bars, seen, supply>>
  PROVE  TableInv' /\ Added(w)
  <1>1. PICK at \in {now, now - 1} \cap Nat :
          quotes' = Append(quotes, [symbol |-> symbol, price |-> price, by |-> w, at |-> at])
    BY DEF Stores
  <1> DEFINE row == [symbol |-> symbol, price |-> price, by |-> w, at |-> at]
             n == Len(quotes)
  <1>2. row \in Quote /\ row.by = w /\ row.at <= now
    <2>1. at \in 0..MaxTime /\ at <= now
      BY Numbers
    <2> QED
      BY <2>1 DEF Quote
  <1>3. quotes \in Seq(Quote) /\ n \in Nat /\ DOMAIN quotes = 1..n /\ n < supply.quotes
    BY DEF TableInv, Stores
  <1>4. quotes' = Append(quotes, row)
    BY <1>1
  <1> HIDE DEF row
  <1>5. /\ quotes' \in Seq(Quote) /\ Len(quotes') = n + 1 /\ DOMAIN quotes' = 1..(n + 1)
        /\ quotes'[n + 1] = row /\ \A i \in 1..n : quotes'[i] = quotes[i]
    BY <1>2, <1>3, <1>4
  <1>6. Grown
    BY <1>3, <1>5 DEF Grown
  <1>7. Added(w)
    BY <1>2, <1>3, <1>5, <1>6 DEF Added
  <1>8. \A f \in Frame : SubSeq(quotes', 1, seen'[f]) = SubSeq(quotes, 1, seen[f])
    <2> SUFFICES ASSUME NEW f \in Frame PROVE SubSeq(quotes', 1, seen[f]) = SubSeq(quotes, 1, seen[f])
      OBVIOUS
    <2>1. seen[f] \in 0..Len(quotes) /\ Len(quotes') >= Len(quotes)
      BY <1>3, <1>5 DEF TableInv
    <2> QED
      BY <1>3, <1>5, <2>1, SamePrefix
  <1>9. Cells'
    <2>1. Cells
      BY CellsAre DEF TableInv
    <2> QED
      BY <1>8, <2>1 DEF Cells
  <1>10. BarsAreOfTheQuotes'
    BY <1>9, CellsAre, PTL
  <1>11. Len(quotes') <= supply.quotes
    <2>1. supply.quotes \in Nat
      BY SupplyIs DEF TableInv
    <2> QED
      BY <1>3, <1>5, <2>1
  <1> QED
    BY <1>3, <1>5, <1>7, <1>10, <1>11 DEF TableInv, BarsTyped

LEMMA TableAlone ==
  ASSUME TableInv, UNCHANGED <<quotes, bars, seen, supply>>
  PROVE  TableInv' /\ Grown
  <1>1. BarsAreOfTheQuotes'
    <2>1. Cells'
      BY CellsAre DEF TableInv, Cells
    <2> QED
      BY <2>1, CellsAre, PTL
  <1> QED
    BY <1>1 DEF TableInv, BarsTyped, Grown

-----------------------------------------------------------------------------
(* The monitor. *)
MonitorType == [at : Place, step : Nat \ {0}, count : 0..NewsEvery - 1,
                first : Nat, connected : [Provider -> BOOLEAN]]

Stored(provider) == \E i \in DOMAIN quotes : i >= monitor.first /\ quotes[i].by = provider

(* Whoever the tick has asked so far and is held connected has stored. *)
Answered ==
  \A k \in 1..Len(Route) :
    (monitor.at = "polling" => k < monitor.step) /\ monitor.connected[Route[k][1]] = TRUE
      => Stored(Route[k][1])

(* The last conjuncts are what is told of a provider and, while the last
   timeframe is rolled up, the order in which the others were read. *)
MonitorInv ==
  /\ monitor \in MonitorType
  /\ monitor.at = "polling" => monitor.step <= Len(Route)
  /\ monitor.at = "roll" => monitor.step <= 3
  /\ monitor.at = "roll" /\ monitor.step = 3 => seen[Frames[1]] <= seen[Frames[2]]
  /\ monitor.first <= Len(quotes) + 1
  /\ monitor.at \in {"polling", "closing"} => Answered

LEMMA MonitorAlone ==
  ASSUME TableInv, MonitorInv, Grown, UNCHANGED <<monitor, seen>>
  PROVE  MonitorInv'
  <1>1. monitor.first <= Len(quotes') + 1
    <2>1. Len(quotes) \in Nat /\ Len(quotes') \in Nat /\ monitor.first \in Nat
      BY DEF TableInv, Grown, MonitorInv, MonitorType
    <2> QED
      BY <2>1 DEF Grown, MonitorInv
  <1>2. \A p : Stored(p) => Stored(p)'
    BY DEF Stored, Grown
  <1>3. Answered => Answered'
    BY <1>2 DEF Answered
  <1> QED
    BY <1>1, <1>3 DEF MonitorInv

(* It leaves for a place where it is not in the middle of anything. *)
LEMMA MonitorMoves ==
  ASSUME TableInv, MonitorInv, Grown, monitor' \in MonitorType,
         \/ monitor'.at \in {"news", "asleep"}
         \/ monitor'.at = "roll" /\ monitor'.step = 1,
         monitor'.first = 0 \/ monitor'.first = monitor.first
  PROVE  MonitorInv'
  <1>1. monitor'.first <= Len(quotes') + 1
    <2>1. Len(quotes) \in Nat /\ Len(quotes') \in Nat /\ monitor.first \in Nat
      BY DEF TableInv, Grown, MonitorInv, MonitorType
    <2> QED
      BY <2>1 DEF Grown, MonitorInv
  <1> QED
    BY <1>1 DEF MonitorInv

LEMMA CountIs ==
  NewsEvery \in Nat \ {0} /\ RollEvery \in Nat \ {0} /\ 0 \in 0..NewsEvery - 1
    /\ \A c \in 0..NewsEvery - 1 : (c + 1) % NewsEvery \in 0..NewsEvery - 1
  <1>1. NewsEvery \in Nat \ {0} /\ RollEvery \in Nat \ {0}
    BY FeedsAssumption, Zenon
  <1> QED
    BY <1>1

LEMMA PlacedIs ==
  ASSUME MonitorInv, NEW place \in Place,
         monitor' = [monitor EXCEPT !.at = place, !.step = 1, !.first = 0]
  PROVE  monitor' \in MonitorType /\ monitor'.at = place /\ monitor'.step = 1 /\ monitor'.first = 0
  <1>1. monitor \in MonitorType
    BY DEF MonitorInv
  <1>2. monitor' \in MonitorType
    <2> DEFINE B == [Provider -> BOOLEAN]
               C == 0..NewsEvery - 1
               M == [at : Place, step : Nat \ {0}, count : C, first : Nat, connected : B]
    <2>1. monitor \in M /\ 1 \in Nat \ {0} /\ 0 \in Nat
      BY <1>1 DEF MonitorType
    <2> HIDE DEF B, C
    <2>2. monitor' \in M
      BY <2>1
    <2> QED
      BY <2>2 DEF MonitorType, B, C
  <1>3. monitor'.at = place /\ monitor'.step = 1 /\ monitor'.first = 0
    BY <1>1 DEF MonitorType
  <1> QED
    BY <1>2, <1>3

LEMMA SleepsIs ==
  ASSUME MonitorInv, Sleeps PROVE monitor' \in MonitorType /\ monitor'.at = "asleep" /\ monitor'.first = 0
  BY PlacedIs DEF Sleeps, Place

LEMMA RollsIfDueIs ==
  ASSUME MonitorInv, RollsIfDue
  PROVE  /\ monitor' \in MonitorType /\ monitor'.first = 0
         /\ monitor'.at = "asleep" \/ (monitor'.at = "roll" /\ monitor'.step = 1)
  <1>1. CASE monitor' = [monitor EXCEPT !.at = "roll", !.step = 1, !.first = 0]
    BY <1>1, PlacedIs DEF Place
  <1>2. CASE Sleeps
    BY <1>2, SleepsIs
  <1> QED
    BY <1>1, <1>2 DEF RollsIfDue

LEMMA StartedIs ==
  Started(0) \in MonitorType /\ Started(0).at = "news" /\ Started(0).first = 0
  BY CountIs DEF Started, MonitorType, Place

LEMMA HearsIs ==
  ASSUME MonitorInv, NEW ok \in BOOLEAN, NEW place \in Place, NEW step \in Nat \ {0}, Hears(ok, place, step)
  PROVE  /\ monitor' \in MonitorType /\ monitor'.at = place /\ monitor'.step = step
         /\ monitor'.first = monitor.first
         /\ Asked[1] \in Provider => monitor'.connected[Asked[1]] = ok
         /\ \A p \in Provider : p # Asked[1] => monitor'.connected[p] = monitor.connected[p]
  <1> DEFINE p == Asked[1]
             health == [monitor.connected EXCEPT ![p] = ok]
  <1>1. monitor' = [monitor EXCEPT !.at = place, !.step = step, !.connected = health]
    BY DEF Hears, Heard
  <1>2. monitor \in MonitorType /\ monitor.connected \in [Provider -> BOOLEAN]
    BY DEF MonitorInv, MonitorType
  <1>3. health \in [Provider -> BOOLEAN] /\ (p \in Provider => health[p] = ok)
        /\ \A q \in Provider : q # p => health[q] = monitor.connected[q]
    BY <1>2
  <1> HIDE DEF health, p
  <1>4. /\ monitor' \in MonitorType /\ monitor'.at = place /\ monitor'.step = step
        /\ monitor'.first = monitor.first /\ monitor'.connected = health
    BY <1>1, <1>2, <1>3 DEF MonitorType
  <1> QED
    BY <1>3, <1>4 DEF p

LEMMA Polled ==
  ASSUME TableInv, MonitorInv, Grown, monitor.at = "polling", NEW ok \in BOOLEAN, HearsAndGoesOn(ok),
         ok = TRUE => \E i \in DOMAIN quotes' : i >= monitor.first /\ quotes'[i].by = Asked[1]
  PROVE  MonitorInv'
  <1>1. monitor.step \in 1..Len(Route) /\ monitor.step \in Nat /\ Len(Route) \in Nat
    BY RouteFacts DEF MonitorInv, MonitorType
  <1>2. Asked = Route[monitor.step] /\ Asked[1] \in Provider
    BY <1>1, RouteFacts DEF Asked
  <1>3. \/ monitor.step < Len(Route) /\ Hears(ok, "polling", monitor.step + 1)
        \/ monitor.step = Len(Route) /\ Hears(ok, "closing", 1)
    BY <1>1 DEF HearsAndGoesOn
  <1>4. /\ monitor' \in MonitorType /\ monitor'.first = monitor.first
        /\ \/ monitor'.at = "polling" /\ monitor'.step = monitor.step + 1 /\ monitor.step < Len(Route)
           \/ monitor'.at = "closing" /\ monitor.step = Len(Route)
        /\ monitor'.connected[Asked[1]] = ok
        /\ \A p \in Provider : p # Asked[1] => monitor'.connected[p] = monitor.connected[p]
    <2>1. CASE monitor.step < Len(Route) /\ Hears(ok, "polling", monitor.step + 1)
      <3>1. "polling" \in Place /\ monitor.step + 1 \in Nat \ {0}
        BY <1>1 DEF Place
      <3> QED
        BY <1>2, <2>1, <3>1, HearsIs
    <2>2. CASE monitor.step = Len(Route) /\ Hears(ok, "closing", 1)
      <3>1. "closing" \in Place /\ 1 \in Nat \ {0}
        BY DEF Place
      <3> QED
        BY <1>2, <2>2, <3>1, HearsIs
    <2> QED
      BY <1>3, <2>1, <2>2
  <1>5. monitor'.first <= Len(quotes') + 1
    <2>1. Len(quotes) \in Nat /\ Len(quotes') \in Nat /\ monitor.first \in Nat
      BY DEF TableInv, Grown, MonitorInv, MonitorType
    <2> QED
      BY <1>4, <2>1 DEF Grown, MonitorInv
  <1>6. Answered'
    <2> SUFFICES ASSUME NEW k \in 1..Len(Route), monitor'.at = "polling" => k < monitor'.step,
                        monitor'.connected[Route[k][1]] = TRUE
                 PROVE  \E i \in DOMAIN quotes' : i >= monitor'.first /\ quotes'[i].by = Route[k][1]
      BY DEF Answered, Stored
    <2>1. CASE Route[k][1] = Asked[1]
      BY <1>4, <2>1
    <2>2. CASE Route[k][1] # Asked[1]
      <3>1. k # monitor.step
        BY <1>2, <2>2
      <3>2. k < monitor.step
        <4>1. k \in Nat /\ k <= Len(Route)
          BY <1>1
        <4>2. CASE monitor'.at = "polling"
          <5>1. k < monitor.step + 1
            BY <1>4, <4>2
          <5> QED
            BY <1>1, <3>1, <4>1, <5>1
        <4>3. CASE monitor'.at = "closing"
          BY <1>1, <1>4, <3>1, <4>1, <4>3
        <4> QED
          BY <1>4, <4>2, <4>3
      <3>3. monitor.connected[Route[k][1]] = TRUE
        BY <1>4, <2>2, RouteFacts
      <3>4. Stored(Route[k][1])
        BY <3>2, <3>3 DEF MonitorInv, Answered
      <3> QED
        BY <1>4, <3>4 DEF Stored, Grown
    <2> QED
      BY <2>1, <2>2
  <1>7. monitor'.at = "polling" => monitor'.step <= Len(Route)
    BY <1>1, <1>4
  <1> QED
    BY <1>4, <1>5, <1>6, <1>7 DEF MonitorInv

-----------------------------------------------------------------------------
(* The stream and what the health report goes by. *)
StreamType == [at : {"connecting", "open", "sleeping", "dead"},
               backoff : ReconnectMin..ReconnectMax, open : 0..MaxTime]

(* Nothing the stream stored is younger than when it was last open. *)
Streamed == \A i \in DOMAIN quotes : quotes[i].by = STREAM => quotes[i].at <= stream.open

StreamInv ==
  /\ now \in 0..MaxTime
  /\ stream \in StreamType
  /\ source \in [Provider \cup {STREAM} -> {"ABSENT", "CONNECTED", "DISCONNECTED"}]
  /\ stream.at = "sleeping" => source[STREAM] = "DISCONNECTED"
  /\ stream.open <= now
  /\ stream.at = "open" => stream.open = now
  /\ Streamed

LEMMA StreamAlone ==
  ASSUME StreamInv, UNCHANGED <<quotes, now, stream, source>> PROVE StreamInv'
  BY DEF StreamInv, Streamed

LEMMA OthersAdd ==
  ASSUME StreamInv, NEW w, w # STREAM, Added(w), UNCHANGED <<now, stream, source>> PROVE StreamInv'
  <1>1. Streamed'
    BY DEF StreamInv, Streamed, Added, Grown
  <1> QED
    BY <1>1 DEF StreamInv

LEMMA SourcesAre ==
  ASSUME StreamInv, MonitorInv, SourcesWritten, UNCHANGED <<quotes, now, stream>>
  PROVE  StreamInv' /\ \A p \in Provider : source'[p] = "CONNECTED" => monitor.connected[p] = TRUE
  <1> DEFINE status(w) == CASE w = STREAM                              -> source[w]
                            [] w \in Provider /\ monitor.connected[w]  -> "CONNECTED"
                            [] w \in Provider /\ ~monitor.connected[w] -> "DISCONNECTED"
  <1>1. DOMAIN source = Provider \cup {STREAM} /\ source[STREAM] \in {"ABSENT", "CONNECTED", "DISCONNECTED"}
    BY DEF StreamInv
  <1>2. source' = [w \in Provider \cup {STREAM} |-> status(w)]
    BY <1>1 DEF SourcesWritten
  <1>3. STREAM \notin Provider /\ monitor.connected \in [Provider -> BOOLEAN]
    BY RouteFacts DEF MonitorInv, MonitorType
  <1>4. status(STREAM) = source[STREAM]
    BY <1>3
  <1>5. \A w \in Provider : /\ status(w) \in {"CONNECTED", "DISCONNECTED"}
                            /\ status(w) = "CONNECTED" => monitor.connected[w] = TRUE
    BY <1>3
  <1> HIDE DEF status
  <1>6. source' \in [Provider \cup {STREAM} -> {"ABSENT", "CONNECTED", "DISCONNECTED"}]
    BY <1>1, <1>2, <1>4, <1>5
  <1>7. source'[STREAM] = source[STREAM] /\ \A p \in Provider : source'[p] = status(p)
    BY <1>2, <1>4
  <1>8. Streamed'
    BY DEF StreamInv, Streamed
  <1> QED
    BY <1>5, <1>6, <1>7, <1>8 DEF StreamInv

LEMMA Doubles ==
  ASSUME NEW x \in ReconnectMin..ReconnectMax
  PROVE  ReconnectMin \in Nat \ {0} /\ ReconnectMax \in Nat /\ ReconnectMin \in ReconnectMin..ReconnectMax
         /\ Doubled(x) \in ReconnectMin..ReconnectMax
  <1>1. ReconnectMin \in Nat \ {0} /\ ReconnectMax \in Nat /\ ReconnectMax >= ReconnectMin
    BY FeedsAssumption, Zenon
  <1>2. \E y \in {2 * x, ReconnectMax} : \A z \in {2 * x, ReconnectMax} : y <= z
    BY <1>1
  <1>3. Doubled(x) \in {2 * x, ReconnectMax} /\ Doubled(x) <= ReconnectMax
    BY <1>2 DEF Doubled, Min
  <1> QED
    BY <1>1, <1>3

LEMMA OutageIs ==
  ASSUME TableInv, StreamInv PROVE OutageShows
  <1> DEFINE rows == Evidence(STREAM)
             times == {quotes[i].at : i \in rows}
             last == Max(times)
  <1> SUFFICES ASSUME now - stream.open > HealthyAge PROVE FeedState(STREAM) # "HEALTHY"
    BY DEF OutageShows, StreamInv
  <1>1. CASE rows = {}
    BY <1>1 DEF FeedState
  <1>2. CASE rows # {}
    <2>1. rows \subseteq DOMAIN quotes /\ \A i \in rows : quotes[i].by = STREAM
      BY DEF Evidence
    <2>2. \A i \in rows : quotes[i].at \in Nat /\ quotes[i].at <= stream.open
      BY <2>1, RowIs DEF TableInv, StreamInv, Streamed
    <2>3. IsFiniteSet(times) /\ times # {} /\ times \subseteq Int
      <3> HIDE DEF rows
      <3>1. IsFiniteSet(times)
        BY <2>1, FiniteRows DEF TableInv
      <3> QED
        BY <1>2, <2>2, <3>1
    <2>4. last \in times
      <3> HIDE DEF times
      <3> QED
        BY <2>3, MaxIs
    <2>5. last \in Nat /\ last <= stream.open
      BY <2>2, <2>4
    <2>6. now \in Nat /\ stream.open \in Nat /\ HealthyAge \in Nat
      BY Numbers DEF StreamInv, StreamType
    <2>7. FeedState(STREAM) = Classify(now - last)
      BY <1>2 DEF FeedState
    <2> HIDE DEF last
    <2> DEFINE age == now - last
    <2>8. age \in Int /\ ~(age <= HealthyAge)
      BY <2>5, <2>6
    <2>9. FeedState(STREAM) = Classify(age)
      BY <2>7
    <2> HIDE DEF age
    <2> QED
      BY <2>8, <2>9 DEF Classify
  <1> QED
    BY <1>1, <1>2

-----------------------------------------------------------------------------
(* Alerts. *)
AlertInv == alerts \in Seq(0..MaxTime) /\ AlertSpacing

LEMMA Alerted ==
  ASSUME AlertInv, now \in 0..MaxTime, ~Silenced, alerts' = Append(alerts, now)
  PROVE  AlertInv'
  <1> DEFINE n == Len(alerts)
  <1>1. n \in Nat /\ DOMAIN alerts = 1..n /\ alerts \in Seq(0..MaxTime) /\ Dedupe \in Nat /\ now \in Int
    BY Numbers DEF AlertInv
  <1>2. \A i \in 1..n : alerts[i] \in Int
    BY <1>1, Numbers
  <1>3. /\ alerts' \in Seq(0..MaxTime) /\ DOMAIN alerts' = 1..(n + 1)
        /\ alerts'[n + 1] = now /\ \A i \in 1..n : alerts'[i] = alerts[i]
    BY <1>1
  <1>4. n > 0 => now - alerts[n] >= Dedupe
    <2> SUFFICES ASSUME n > 0 PROVE now - alerts[n] >= Dedupe
      OBVIOUS
    <2>1. LastAlert = alerts[n] /\ alerts[n] \in Int
      BY <1>1, <1>2 DEF LastAlert
    <2> QED
      BY <1>1, <2>1 DEF Silenced
  <1> HIDE DEF n
  <1>5. \A i \in 1..n : now - alerts[i] >= Dedupe
    <2> SUFFICES ASSUME NEW i \in 1..n PROVE now - alerts[i] >= Dedupe
      OBVIOUS
    <2>1. n > 0 /\ n \in 1..n /\ i \in DOMAIN alerts /\ n \in DOMAIN alerts /\ i \in Int
      BY <1>1
    <2>2. alerts[i] \in Int /\ alerts[n] \in Int
      BY <1>2, <2>1
    <2>3. i < n => alerts[n] - alerts[i] >= Dedupe
      BY <2>1 DEF AlertInv, AlertSpacing
    <2>4. i = n \/ i < n
      BY <1>1
    <2> QED
      BY <1>1, <1>4, <2>1, <2>2, <2>3, <2>4
  <1>6. AlertSpacing'
    <2> SUFFICES ASSUME NEW i \in 1..(n + 1), NEW j \in 1..(n + 1), i < j
                 PROVE  alerts'[j] - alerts'[i] >= Dedupe
      BY <1>3 DEF AlertSpacing
    <2>1. CASE j = n + 1
      <3>1. i \in 1..n
        BY <1>1, <2>1
      <3> QED
        BY <1>3, <1>5, <2>1, <3>1
    <2>2. CASE j # n + 1
      <3>1. i \in 1..n /\ j \in 1..n
        BY <1>1, <2>2
      <3> QED
        BY <1>1, <1>3, <3>1 DEF AlertInv, AlertSpacing
    <2> QED
      BY <2>1, <2>2
  <1> QED
    BY <1>3, <1>6 DEF AlertInv

-----------------------------------------------------------------------------
(* The inductive invariant. *)
RestInv ==
  /\ embedded \in [at : {"running", "news", "dead"}, step : Nat \ {0}]
  /\ deployed \in Deployments
  /\ faults \in 0..MaxFaults /\ restarts \in 0..MaxRestarts

FeedsIInv == TableInv /\ MonitorInv /\ StreamInv /\ AlertInv /\ RestInv /\ NewsInv

LEMMA Settled ==
  ASSUME FeedsIInv, UNCHANGED <<alerts, setting, embedded>>,
         faults' = faults \/ Faulty,
         restarts' = restarts \/ (restarts < MaxRestarts /\ restarts' = restarts + 1)
  PROVE  AlertInv' /\ RestInv'
  <1>1. MaxFaults \in Nat /\ MaxRestarts \in Nat
    BY FeedsAssumption, Zenon
  <1>2. faults' \in 0..MaxFaults /\ restarts' \in 0..MaxRestarts
    BY <1>1 DEF FeedsIInv, RestInv, Faulty
  <1> QED
    BY <1>2 DEF FeedsIInv, RestInv, AlertInv, AlertSpacing, setting

LEMMA EditionIs ==
  ASSUME FeedsIInv
  PROVE  supply.edition \in Seq(Seq(Titles)) /\ "monitor" \in Ingesters /\ "embedded" \in Ingesters
  <1>1. Ingesters = {"monitor", "embedded"}
    BY FeedsAssumption, Zenon
  <1> QED
    BY <1>1, SupplyIs DEF FeedsIInv, TableInv

LEMMA MonitorNewsKeeps ==
  ASSUME FeedsIInv, MonitorNews PROVE FeedsIInv'
  <1>1. UNCHANGED <<quotes, bars, seen, alerts, source, embedded, stream, deployed, supply, now, restarts>>
    BY DEF MonitorNews, tables, api, setting
  <1>2. AlertInv' /\ RestInv'
    BY <1>1, Settled DEF MonitorNews, setting
  <1>3. TableInv' /\ Grown
    BY <1>1, TableAlone DEF FeedsIInv
  <1>4. StreamInv'
    BY <1>1, StreamAlone DEF FeedsIInv
  <1>5. NewsInv'
    BY EditionIs, NewsKept DEF FeedsIInv, MonitorNews
  <1>6. MonitorInv'
    <2>1. CASE UNCHANGED monitor
      BY <1>1, <1>3, <2>1, MonitorAlone DEF FeedsIInv
    <2>2. CASE RollsIfDue
      BY <1>3, <2>2, RollsIfDueIs, MonitorMoves DEF FeedsIInv
    <2> QED
      BY <2>1, <2>2 DEF MonitorNews
  <1> QED
    BY <1>2, <1>3, <1>4, <1>5, <1>6 DEF FeedsIInv

LEMMA RollUpKeeps ==
  ASSUME FeedsIInv, RollUp PROVE FeedsIInv'
  <1>1. /\ UNCHANGED <<news, cycle, quotes, alerts, source, embedded, stream, deployed, supply, now, restarts>>
        /\ monitor.at = "roll"
    BY DEF RollUp, newsVars, api, setting, At
  <1>2. AlertInv' /\ RestInv'
    BY <1>1, Settled DEF RollUp, setting
  <1>3. StreamInv' /\ NewsInv'
    BY <1>1, StreamAlone, NewsAlone DEF FeedsIInv, newsVars
  <1>4. TableInv' /\ MonitorInv'
    <2>1. CASE Sleeps /\ UNCHANGED <<bars, seen>>
      <3>1. TableInv' /\ Grown
        BY <1>1, <2>1, TableAlone DEF FeedsIInv
      <3>2. MonitorInv'
        BY <2>1, <3>1, SleepsIs, MonitorMoves DEF FeedsIInv
      <3> QED
        BY <3>1, <3>2
    <2>2. CASE /\ Aggregate(FrameOrder(monitor.step))
               /\ IF monitor.step < Len(Frames)
                    THEN monitor' = [monitor EXCEPT !.step = @ + 1]
                    ELSE Sleeps
      <3>1. monitor.step \in 1..3 /\ FrameOrder(monitor.step) = Frames[monitor.step]
            /\ Frames[monitor.step] \in Frame
        <4>1. monitor.step \in 1..3
          BY <1>1 DEF FeedsIInv, MonitorInv, MonitorType
        <4> QED
          BY <4>1, FrameFacts DEF FrameOrder
      <3>2. TableInv' /\ seen' = [seen EXCEPT ![Frames[monitor.step]] = Len(quotes)]
        BY <1>1, <2>2, <3>1, Aggregated DEF FeedsIInv
      <3>3. Grown
        BY <1>1 DEF FeedsIInv, TableInv, Grown
      <3>4. CASE Sleeps
        BY <3>2, <3>3, <3>4, SleepsIs, MonitorMoves DEF FeedsIInv
      <3>5. CASE monitor.step < 3 /\ monitor' = [monitor EXCEPT !.step = @ + 1]
        <4>1. /\ monitor' \in MonitorType /\ monitor'.at = "roll" /\ monitor'.step = monitor.step + 1
              /\ monitor'.first = monitor.first
          <5> DEFINE B == [Provider -> BOOLEAN]
                     C == 0..NewsEvery - 1
                     M == [at : Place, step : Nat \ {0}, count : C, first : Nat, connected : B]
          <5>1. monitor \in M /\ monitor.step + 1 \in Nat \ {0}
            BY <3>1 DEF FeedsIInv, MonitorInv, MonitorType
          <5>2. monitor' = [monitor EXCEPT !.step = monitor.step + 1]
            BY <3>5
          <5> HIDE DEF B, C
          <5>3. monitor' \in M /\ monitor'.at = monitor.at /\ monitor'.step = monitor.step + 1
                /\ monitor'.first = monitor.first
            BY <5>1, <5>2
          <5> QED
            BY <1>1, <5>3 DEF MonitorType, B, C
        <4>2. monitor.step = 2 => seen'[Frames[1]] <= seen'[Frames[2]]
          <5> SUFFICES ASSUME monitor.step = 2 PROVE seen'[Frames[1]] <= seen'[Frames[2]]
            OBVIOUS
          <5>1. /\ Frames[1] \in Frame /\ Frames[2] \in Frame /\ Frames[1] # Frames[2]
                /\ seen \in [Frame -> Nat] /\ \A f \in Frame : seen[f] <= Len(quotes)
            BY FrameFacts DEF FeedsIInv, TableInv
          <5>2. seen'[Frames[2]] = Len(quotes) /\ seen'[Frames[1]] = seen[Frames[1]]
            BY <3>2, <5>1
          <5> QED
            BY <5>1, <5>2
        <4>3. monitor'.step <= 3 /\ (monitor'.step = 3 => monitor.step = 2)
          BY <3>1, <3>5, <4>1
        <4> QED
          BY <1>1, <3>2, <4>1, <4>2, <4>3 DEF FeedsIInv, MonitorInv
      <3> QED
        BY <2>2, <3>2, <3>4, <3>5, FrameFacts
    <2> QED
      BY <2>1, <2>2 DEF RollUp
  <1> QED
    BY <1>2, <1>3, <1>4 DEF FeedsIInv

LEMMA TickKeeps ==
  ASSUME FeedsIInv, Tick PROVE FeedsIInv'
  <1>1. UNCHANGED <<news, cycle, quotes, bars, seen, alerts, source, embedded, stream, deployed, supply, now,
                    faults, restarts>>
    BY DEF Tick, newsVars, tables, api, setting
  <1>2. AlertInv' /\ RestInv'
    BY <1>1, Settled DEF setting
  <1>3. TableInv' /\ StreamInv' /\ NewsInv'
    BY <1>1, TableAlone, StreamAlone, NewsAlone DEF FeedsIInv, newsVars
  <1>4. Len(quotes) \in Nat /\ Len(Route) \in Nat \ {0}
    BY RouteFacts DEF FeedsIInv, TableInv
  <1>5. /\ monitor' \in MonitorType /\ monitor'.at = "polling" /\ monitor'.step = 1
        /\ monitor'.first = Len(quotes) + 1
    <2> DEFINE B == [Provider -> BOOLEAN]
               C == 0..NewsEvery - 1
               M == [at : Place, step : Nat \ {0}, count : C, first : Nat, connected : B]
               next == (monitor.count + 1) % NewsEvery
    <2>1. monitor \in M /\ "polling" \in Place /\ 1 \in Nat \ {0} /\ Len(quotes) + 1 \in Nat
      BY <1>4 DEF FeedsIInv, MonitorInv, MonitorType, Place
    <2>2. next \in C
      <3>1. monitor.count \in C
        BY <2>1
      <3> QED
        BY <3>1, CountIs
    <2>3. monitor' = [monitor EXCEPT !.at = "polling", !.step = 1, !.count = next, !.first = Len(quotes) + 1]
      BY DEF Tick
    <2> HIDE DEF B, C, next
    <2>4. /\ monitor' \in M /\ monitor'.at = "polling" /\ monitor'.step = 1
          /\ monitor'.first = Len(quotes) + 1
      BY <2>1, <2>2, <2>3
    <2> QED
      BY <2>4 DEF MonitorType, B, C
  <1>6. Answered'
    BY <1>4, <1>5 DEF Answered
  <1>7. MonitorInv'
    BY <1>1, <1>4, <1>5, <1>6 DEF MonitorInv
  <1> QED
    BY <1>2, <1>3, <1>7 DEF FeedsIInv

LEMMA PollKeeps ==
  ASSUME FeedsIInv, Poll PROVE FeedsIInv'
  <1>1. /\ UNCHANGED <<news, cycle, bars, seen, source, embedded, stream, deployed, supply, now, restarts>>
        /\ monitor.at = "polling"
    BY DEF Poll, newsVars, api, setting, At
  <1>2. Asked[1] \in Writer /\ Asked[1] # STREAM /\ Asked[2] \in Symbols
    <2>1. monitor.step \in 1..Len(Route)
      BY <1>1, RouteFacts DEF FeedsIInv, MonitorInv, MonitorType
    <2> QED
      BY <2>1, RouteFacts DEF Asked
  <1>3. NewsInv'
    BY <1>1, NewsAlone DEF FeedsIInv, newsVars
  <1>4. RestInv'
    <2>1. faults' = faults \/ Faulty
      BY DEF Poll
    <2>2. MaxFaults \in Nat
      BY FeedsAssumption, Zenon
    <2> QED
      BY <1>1, <2>1, <2>2 DEF FeedsIInv, RestInv, Faulty
  <1>5. AlertInv'
    <2>1. CASE UNCHANGED alerts
      BY <2>1 DEF FeedsIInv, AlertInv, AlertSpacing
    <2>2. CASE ~Silenced /\ alerts' = Append(alerts, now)
      BY <2>2, Alerted DEF FeedsIInv, StreamInv
    <2> QED
      BY <2>1, <2>2 DEF Poll
  <1>6. CASE UNCHANGED quotes
    <2>1. TableInv' /\ Grown
      BY <1>1, <1>6, TableAlone DEF FeedsIInv
    <2>2. StreamInv'
      BY <1>1, <1>6, StreamAlone DEF FeedsIInv
    <2>3. MonitorInv'
      <3>1. CASE HearsAndGoesOn(FALSE)
        BY <1>1, <2>1, <3>1, Polled DEF FeedsIInv
      <3>2. CASE Hears(TRUE, "asleep", 1)
        <4>1. "asleep" \in Place /\ 1 \in Nat \ {0}
          BY DEF Place
        <4>2. monitor' \in MonitorType /\ monitor'.at = "asleep" /\ monitor'.first = monitor.first
          BY <3>2, <4>1, HearsIs DEF FeedsIInv
        <4> QED
          BY <2>1, <4>2, MonitorMoves DEF FeedsIInv
      <3>3. CASE \E price \in Prices : Stores(Asked[1], Asked[2], price)
        <4>1. PICK price \in Prices : Stores(Asked[1], Asked[2], price)
          BY <3>3
        <4>2. Added(Asked[1])
          BY <1>1, <1>2, <4>1, StoredOne DEF FeedsIInv, StreamInv
        <4>3. Len(quotes) + 1 \in DOMAIN quotes /\ quotes \in Seq(Quote)
          BY <1>6, <4>2 DEF Added, FeedsIInv, TableInv
        <4> QED
          BY <4>3
      <3> QED
        BY <3>1, <3>2, <3>3 DEF Poll
    <2> QED
      BY <1>3, <1>4, <1>5, <2>1, <2>2, <2>3 DEF FeedsIInv
  <1>7. CASE /\ \E price \in Prices : Stores(Asked[1], Asked[2], price)
             /\ HearsAndGoesOn(TRUE) \/ Hears(TRUE, "asleep", 1)
    <2>1. PICK price \in Prices : Stores(Asked[1], Asked[2], price)
      BY <1>7
    <2>2. TableInv' /\ Added(Asked[1])
      BY <1>1, <1>2, <2>1, StoredOne DEF FeedsIInv, StreamInv
    <2>3. StreamInv'
      BY <1>1, <1>2, <2>2, OthersAdd DEF FeedsIInv
    <2>4. Grown
      BY <2>2 DEF Added
    <2>5. MonitorInv'
      <3>1. CASE HearsAndGoesOn(TRUE)
        <4>1. PICK n \in DOMAIN quotes' : n = Len(quotes) + 1 /\ quotes'[n].by = Asked[1]
          BY <2>2 DEF Added
        <4>2. n >= monitor.first
          BY <4>1 DEF FeedsIInv, MonitorInv
        <4> QED
          BY <1>1, <2>4, <3>1, <4>1, <4>2, Polled DEF FeedsIInv
      <3>2. CASE Hears(TRUE, "asleep", 1)
        <4>1. "asleep" \in Place /\ 1 \in Nat \ {0}
          BY DEF Place
        <4>2. monitor' \in MonitorType /\ monitor'.at = "asleep" /\ monitor'.first = monitor.first
          BY <3>2, <4>1, HearsIs DEF FeedsIInv
        <4> QED
          BY <2>4, <4>2, MonitorMoves DEF FeedsIInv
      <3> QED
        BY <1>7, <3>1, <3>2
    <2> QED
      BY <1>3, <1>4, <1>5, <2>2, <2>3, <2>5 DEF FeedsIInv
  <1> QED
    BY <1>6, <1>7 DEF Poll

LEMMA SourcesNotWrittenKeeps ==
  ASSUME FeedsIInv, SourcesNotWritten PROVE FeedsIInv'
  <1>1. UNCHANGED <<news, cycle, quotes, bars, seen, alerts, source, embedded, stream, deployed, supply, now,
                    restarts>>
    BY DEF SourcesNotWritten, newsVars, tables, api, setting
  <1>2. AlertInv' /\ RestInv'
    BY <1>1, Settled DEF SourcesNotWritten, setting
  <1>3. TableInv' /\ Grown /\ StreamInv' /\ NewsInv'
    BY <1>1, TableAlone, StreamAlone, NewsAlone DEF FeedsIInv, newsVars
  <1>4. MonitorInv'
    BY <1>3, SleepsIs, MonitorMoves DEF FeedsIInv, SourcesNotWritten
  <1> QED
    BY <1>2, <1>3, <1>4 DEF FeedsIInv

LEMMA ScanKeeps ==
  ASSUME FeedsIInv, ScanRaises \/ ScanDone
  PROVE  /\ FeedsIInv' /\ monitor.at = "closing"
         /\ \A p \in Provider : source'[p] = "CONNECTED" => monitor.connected[p] = TRUE
  <1>1. /\ UNCHANGED <<news, cycle, quotes, bars, seen, alerts, embedded, stream, deployed, supply, now,
                       restarts>>
        /\ SourcesWritten /\ monitor.at = "closing" /\ (faults' = faults \/ Faulty)
    BY DEF ScanRaises, ScanDone, newsVars, tables, api, setting, At
  <1>2. AlertInv' /\ RestInv'
    BY <1>1, Settled DEF setting
  <1>3. TableInv' /\ Grown /\ NewsInv'
    BY <1>1, TableAlone, NewsAlone DEF FeedsIInv, newsVars
  <1>4. StreamInv' /\ \A p \in Provider : source'[p] = "CONNECTED" => monitor.connected[p] = TRUE
    BY <1>1, SourcesAre DEF FeedsIInv
  <1>5. MonitorInv'
    <2>1. CASE Sleeps
      BY <1>3, <2>1, SleepsIs, MonitorMoves DEF FeedsIInv
    <2>2. CASE RollsIfDue
      BY <1>3, <2>2, RollsIfDueIs, MonitorMoves DEF FeedsIInv
    <2>3. CASE monitor' = [monitor EXCEPT !.at = "news", !.step = 1, !.first = 0]
      <3>1. monitor' \in MonitorType /\ monitor'.at = "news" /\ monitor'.first = 0
        BY <2>3, PlacedIs DEF FeedsIInv, Place
      <3> QED
        BY <1>3, <3>1, MonitorMoves DEF FeedsIInv
    <2> QED
      BY <2>1, <2>2, <2>3 DEF ScanRaises, ScanDone
  <1> QED
    BY <1>1, <1>2, <1>3, <1>4, <1>5 DEF FeedsIInv

LEMMA EmbeddedRefreshKeeps ==
  ASSUME FeedsIInv, EmbeddedRefresh PROVE FeedsIInv'
  <1>1. UNCHANGED <<news, cycle, bars, seen, alerts, source, monitor, stream, deployed, supply, now, restarts>>
    BY DEF EmbeddedRefresh, newsVars, setting
  <1>2. embedded' \in [at : {"running", "news", "dead"}, step : Nat \ {0}]
    <2>1. embedded \in [at : {"running", "news", "dead"}, step : Nat \ {0}]
      BY DEF FeedsIInv, RestInv
    <2>2. CASE AfterRefresh
      <3>1. CASE embedded' = [embedded EXCEPT !.step = @ + 1]
        BY <2>1, <3>1
      <3>2. CASE \E place \in {"running", "news"} : embedded' = [at |-> place, step |-> 1]
        BY <3>2
      <3> QED
        BY <2>2, <3>1, <3>2 DEF AfterRefresh
    <2>3. CASE embedded' = [embedded EXCEPT !.at = "dead"]
      BY <2>1, <2>3
    <2> QED
      BY <2>2, <2>3 DEF EmbeddedRefresh
  <1>3. RestInv'
    <2>1. faults' = faults \/ Faulty
      BY DEF EmbeddedRefresh
    <2>2. MaxFaults \in Nat
      BY FeedsAssumption, Zenon
    <2> QED
      BY <1>1, <1>2, <2>1, <2>2 DEF FeedsIInv, RestInv, Faulty
  <1>4. AlertInv' /\ NewsInv'
    BY <1>1, NewsAlone DEF FeedsIInv, newsVars, AlertInv, AlertSpacing
  <1>5. CASE UNCHANGED quotes
    <2>1. TableInv' /\ Grown /\ StreamInv'
      BY <1>1, <1>5, TableAlone, StreamAlone DEF FeedsIInv
    <2>2. MonitorInv'
      BY <1>1, <2>1, MonitorAlone DEF FeedsIInv
    <2> QED
      BY <1>3, <1>4, <2>1, <2>2 DEF FeedsIInv
  <1>6. CASE /\ embedded.step \in DOMAIN Routed
             /\ \E price \in Prices : Stores(Routed[embedded.step][1], Routed[embedded.step][2], price)
    <2> DEFINE w == Routed[embedded.step][1]
    <2>1. w \in Writer /\ w # STREAM /\ Routed[embedded.step][2] \in Symbols
      BY <1>6, RouteFacts
    <2>2. PICK price \in Prices : Stores(w, Routed[embedded.step][2], price)
      BY <1>6
    <2> HIDE DEF w
    <2>3. TableInv' /\ Added(w)
      BY <1>1, <2>1, <2>2, StoredOne DEF FeedsIInv, StreamInv
    <2>4. StreamInv'
      BY <1>1, <2>1, <2>3, OthersAdd DEF FeedsIInv
    <2>5. MonitorInv'
      BY <1>1, <2>3, MonitorAlone DEF FeedsIInv, Added
    <2> QED
      BY <1>3, <1>4, <2>3, <2>4, <2>5 DEF FeedsIInv
  <1> QED
    BY <1>5, <1>6 DEF EmbeddedRefresh

LEMMA EmbeddedNewsKeeps ==
  ASSUME FeedsIInv, EmbeddedNews PROVE FeedsIInv'
  <1>1. UNCHANGED <<quotes, bars, seen, alerts, source, monitor, stream, deployed, supply, now, restarts>>
    BY DEF EmbeddedNews, tables, setting
  <1>2. RestInv'
    <2>1. embedded' \in [at : {"running", "news", "dead"}, step : Nat \ {0}]
      BY DEF EmbeddedNews, FeedsIInv, RestInv
    <2>2. faults' = faults \/ Faulty
      BY DEF EmbeddedNews
    <2>3. MaxFaults \in Nat
      BY FeedsAssumption, Zenon
    <2> QED
      BY <1>1, <2>1, <2>2, <2>3 DEF FeedsIInv, RestInv, Faulty
  <1>3. TableInv' /\ Grown /\ StreamInv'
    BY <1>1, TableAlone, StreamAlone DEF FeedsIInv
  <1>4. MonitorInv' /\ AlertInv'
    BY <1>1, <1>3, MonitorAlone DEF FeedsIInv, AlertInv, AlertSpacing
  <1>5. NewsInv'
    BY EditionIs, NewsKept DEF FeedsIInv, EmbeddedNews
  <1> QED
    BY <1>2, <1>3, <1>4, <1>5 DEF FeedsIInv

-----------------------------------------------------------------------------
(* The stream's actions, the restarts and the clock. *)
LEMMA StreamTickKeeps ==
  ASSUME FeedsIInv, StreamTick PROVE FeedsIInv'
  <1>1. /\ UNCHANGED <<news, cycle, bars, seen, alerts, source, monitor, embedded, stream, deployed, supply,
                       now, faults, restarts>>
        /\ stream.at = "open"
    BY DEF StreamTick, newsVars, api, setting, Streams
  <1>2. PICK symbol \in Symbols : \E price \in Prices : Stores(STREAM, symbol, price)
    BY DEF StreamTick
  <1>3. PICK price \in Prices : Stores(STREAM, symbol, price)
    BY <1>2
  <1>4. TableInv' /\ Added(STREAM)
    BY <1>1, <1>3, StoredOne, RouteFacts DEF FeedsIInv, StreamInv
  <1>5. StreamInv'
    <2>1. stream.open = now
      BY <1>1 DEF FeedsIInv, StreamInv
    <2>2. Streamed'
      BY <1>1, <1>4, <2>1 DEF FeedsIInv, StreamInv, Streamed, Added, Grown
    <2> QED
      BY <1>1, <2>2 DEF FeedsIInv, StreamInv
  <1>6. MonitorInv'
    BY <1>1, <1>4, MonitorAlone DEF FeedsIInv, Added
  <1>7. AlertInv' /\ RestInv'
    BY <1>1, Settled DEF setting
  <1> QED
    BY <1>1, <1>4, <1>5, <1>6, <1>7, NewsAlone DEF FeedsIInv, newsVars

(* The stream's own steps leave the quotes alone. *)
LEMMA StreamSteps ==
  ASSUME FeedsIInv, StreamInv', UNCHANGED <<news, cycle, quotes, bars, seen, alerts, monitor, embedded,
                                            deployed, supply, restarts>>,
         faults' = faults \/ Faulty
  PROVE  FeedsIInv'
  <1>1. TableInv' /\ Grown
    BY TableAlone DEF FeedsIInv
  <1>2. AlertInv' /\ RestInv'
    BY Settled DEF setting
  <1> QED
    BY <1>1, <1>2, MonitorAlone, NewsAlone DEF FeedsIInv, newsVars

LEMMA StreamConnectsKeeps ==
  ASSUME FeedsIInv, StreamConnects PROVE FeedsIInv'
  <1>1. /\ UNCHANGED <<news, cycle, quotes, bars, seen, alerts, monitor, embedded, deployed, supply, now,
                       faults, restarts>>
        /\ source' = [source EXCEPT ![STREAM] = "CONNECTED"]
        /\ stream' = [at |-> "open", backoff |-> ReconnectMin, open |-> now]
    BY DEF StreamConnects, newsVars, setting
  <1>2. StreamInv'
    <2>1. stream' \in StreamType
      BY <1>1, Doubles DEF FeedsIInv, StreamInv, StreamType
    <2>2. Streamed'
      <3>1. stream.open <= now /\ stream.open \in Int /\ now \in Int
        BY Numbers DEF FeedsIInv, StreamInv, StreamType
      <3>2. \A i \in DOMAIN quotes : quotes[i].at \in Int
        BY RowIs DEF FeedsIInv, TableInv
      <3> QED
        BY <1>1, <3>1, <3>2 DEF FeedsIInv, StreamInv, Streamed
    <2>3. now <= now
      BY Numbers DEF FeedsIInv, StreamInv
    <2> QED
      BY <1>1, <2>1, <2>2, <2>3 DEF FeedsIInv, StreamInv
  <1> QED
    BY <1>1, <1>2, StreamSteps

LEMMA StreamLostKeeps ==
  ASSUME FeedsIInv, StreamLost PROVE FeedsIInv'
  <1>1. /\ UNCHANGED <<news, cycle, quotes, bars, seen, alerts, monitor, embedded, deployed, supply, now,
                       restarts>>
        /\ faults' = faults \/ Faulty
        /\ \/ /\ source' = [source EXCEPT ![STREAM] = "DISCONNECTED"]
              /\ stream' = [stream EXCEPT !.at = "sleeping"]
           \/ stream' = [stream EXCEPT !.at = "dead"] /\ source' = source
    BY DEF StreamLost, newsVars, setting, Marked
  <1>2. stream' \in StreamType /\ stream'.open = stream.open
    BY <1>1 DEF FeedsIInv, StreamInv, StreamType
  <1>3. stream'.at = "sleeping" => source'[STREAM] = "DISCONNECTED"
    BY <1>1 DEF FeedsIInv, StreamInv, StreamType
  <1>4. stream'.at # "open"
    BY <1>1 DEF FeedsIInv, StreamInv, StreamType
  <1>5. StreamInv'
    BY <1>1, <1>2, <1>3, <1>4 DEF FeedsIInv, StreamInv, Streamed
  <1> QED
    BY <1>1, <1>5, StreamSteps

LEMMA StreamRetriesKeeps ==
  ASSUME FeedsIInv, StreamRetries PROVE FeedsIInv'
  <1>1. /\ UNCHANGED <<news, cycle, quotes, bars, seen, alerts, source, monitor, embedded, deployed, supply,
                       now, faults, restarts>>
        /\ stream' = [stream EXCEPT !.at = "connecting", !.backoff = Doubled(stream.backoff)]
    BY DEF StreamRetries, newsVars, tables, setting
  <1>2. stream.backoff \in ReconnectMin..ReconnectMax /\ stream \in StreamType
    BY DEF FeedsIInv, StreamInv, StreamType
  <1>3. Doubled(stream.backoff) \in ReconnectMin..ReconnectMax
    BY <1>2, Doubles
  <1>4. stream' \in StreamType /\ stream'.open = stream.open /\ stream'.at = "connecting"
    BY <1>1, <1>2, <1>3 DEF StreamType
  <1>5. StreamInv'
    BY <1>1, <1>4 DEF FeedsIInv, StreamInv, Streamed
  <1> QED
    BY <1>1, <1>5, StreamSteps

LEMMA ClockTickKeeps ==
  ASSUME FeedsIInv, ClockTick PROVE FeedsIInv'
  <1>1. /\ UNCHANGED <<news, cycle, quotes, bars, seen, alerts, source, monitor, embedded, deployed, supply,
                       faults, restarts>>
        /\ now < MaxTime /\ now' = now + 1
        /\ stream' = IF stream.at = "open" THEN [stream EXCEPT !.open = now + 1] ELSE stream
    BY DEF ClockTick, newsVars, tables, setting
  <1>2. now \in Nat /\ now' \in 0..MaxTime /\ stream \in StreamType /\ stream.open \in Nat /\ stream.open <= now
    BY <1>1, Numbers DEF FeedsIInv, StreamInv, StreamType
  <1>3. /\ stream' \in StreamType /\ stream'.at = stream.at
        /\ stream'.open = IF stream.at = "open" THEN now + 1 ELSE stream.open
    BY <1>1, <1>2 DEF StreamType
  <1>4. stream'.open <= now' /\ stream.open <= stream'.open /\ stream'.open \in Nat
    BY <1>1, <1>2, <1>3
  <1>5. Streamed'
    <2>1. \A i \in DOMAIN quotes : quotes[i].at \in Nat
      BY RowIs DEF FeedsIInv, TableInv
    <2> QED
      BY <1>1, <1>2, <1>4, <2>1 DEF FeedsIInv, StreamInv, Streamed
  <1>6. StreamInv'
    BY <1>1, <1>2, <1>3, <1>4, <1>5 DEF FeedsIInv, StreamInv
  <1> QED
    BY <1>1, <1>6, StreamSteps

LEMMA RestartMonitorKeeps ==
  ASSUME FeedsIInv, RestartMonitor PROVE FeedsIInv'
  <1>1. /\ UNCHANGED <<quotes, bars, seen, alerts, source, embedded, stream, deployed, supply, now, faults>>
        /\ restarts < MaxRestarts /\ restarts' = restarts + 1 /\ monitor' = Started(0)
    BY DEF RestartMonitor, tables, api, setting
  <1>2. AlertInv' /\ RestInv'
    BY <1>1, Settled DEF setting
  <1>3. TableInv' /\ Grown /\ StreamInv'
    BY <1>1, TableAlone, StreamAlone DEF FeedsIInv
  <1>4. MonitorInv'
    BY <1>1, <1>3, StartedIs, MonitorMoves DEF FeedsIInv
  <1>5. NewsInv'
    BY EditionIs, NewsKept DEF FeedsIInv, RestartMonitor
  <1> QED
    BY <1>2, <1>3, <1>4, <1>5 DEF FeedsIInv

LEMMA RestartApiKeeps ==
  ASSUME FeedsIInv, RestartApi PROVE FeedsIInv'
  <1>1. /\ UNCHANGED <<quotes, bars, seen, alerts, source, monitor, deployed, supply, now, faults>>
        /\ restarts < MaxRestarts /\ restarts' = restarts + 1
        /\ embedded' = [at |-> "running", step |-> 1]
        /\ stream' = [stream EXCEPT !.at = "connecting", !.backoff = ReconnectMin]
    BY DEF RestartApi, tables, setting
  <1>2. RestInv'
    <2>1. MaxRestarts \in Nat
      BY FeedsAssumption, Zenon
    <2> QED
      BY <1>1, <2>1 DEF FeedsIInv, RestInv
  <1>3. TableInv' /\ Grown
    BY <1>1, TableAlone DEF FeedsIInv
  <1>4. MonitorInv' /\ AlertInv'
    BY <1>1, <1>3, MonitorAlone DEF FeedsIInv, AlertInv, AlertSpacing
  <1>5. NewsInv'
    BY EditionIs, NewsKept DEF FeedsIInv, RestartApi
  <1>6. stream' \in StreamType /\ stream'.open = stream.open /\ stream'.at = "connecting"
    <2>1. stream \in StreamType /\ stream.backoff \in ReconnectMin..ReconnectMax
      BY DEF FeedsIInv, StreamInv, StreamType
    <2>2. ReconnectMin \in ReconnectMin..ReconnectMax
      BY <2>1, Doubles
    <2> QED
      BY <1>1, <2>1, <2>2 DEF StreamType
  <1>7. StreamInv'
    BY <1>1, <1>6 DEF FeedsIInv, StreamInv, Streamed
  <1> QED
    BY <1>2, <1>3, <1>4, <1>5, <1>7 DEF FeedsIInv

-----------------------------------------------------------------------------
LEMMA Initially == Init => FeedsIInv
  <1> SUFFICES ASSUME Init PROVE FeedsIInv
    OBVIOUS
  <1>1. /\ quotes = <<>> /\ alerts = <<>> /\ monitor = Started(0)
        /\ supply \in Supplies /\ deployed \in Deployments
        /\ now = 0 /\ faults = 0 /\ restarts = 0 /\ embedded = [at |-> "running", step |-> 1]
        /\ stream = [at |-> "connecting", backoff |-> ReconnectMin, open |-> 0]
        /\ source = [w \in Provider \cup {STREAM} |-> "ABSENT"]
        /\ seen = [f \in Frame |-> 0]
        /\ bars = [f \in Frame |-> [s \in Symbols |-> [b \in Buckets |-> NoBar]]]
        /\ NewsInit
    BY DEF Init
  <1>2. quotes \in Seq(Quote) /\ Len(quotes) = 0 /\ DOMAIN quotes = {}
    BY <1>1
  <1>3. TableInv
    <2>1. supply.quotes \in Nat
      BY <1>1, SupplyIs
    <2>2. \A f \in Frame : \A s, b : Group(SubSeq(quotes, 1, seen[f]), f, s, b) = {}
      <3>1. SubSeq(quotes, 1, 0) = <<>>
        BY SubSeqEmpty
      <3>2. \A f, s, b : Group(<<>>, f, s, b) = {}
        BY DEF Group
      <3>3. \A f \in Frame : seen[f] = 0
        BY <1>1
      <3> QED
        BY <3>1, <3>2, <3>3
    <2>3. \A f \in Frame, s \in Symbols, b \in Buckets : bars[f][s][b] = NoBar
      BY <1>1
    <2>4. Cells
      BY <2>2, <2>3 DEF Cells, CellOK
    <2>5. BarsTyped
      BY <1>1 DEF BarsTyped
    <2> QED
      BY <1>1, <1>2, <2>1, <2>4, <2>5, CellsAre DEF TableInv
  <1>4. MonitorInv
    <2>1. monitor \in MonitorType /\ monitor.at = "news" /\ monitor.first = 0
      BY <1>1, StartedIs
    <2> QED
      BY <1>2, <2>1 DEF MonitorInv
  <1>5. StreamInv
    <2>1. stream \in StreamType
      <3>1. ReconnectMin \in ReconnectMin..ReconnectMax
        <4>1. ReconnectMin \in Nat \ {0} /\ ReconnectMax \in Nat /\ ReconnectMax >= ReconnectMin
          BY FeedsAssumption, Zenon
        <4> QED
          BY <4>1
      <3> QED
        BY <1>1, <3>1, Numbers DEF StreamType
    <2>2. stream.at = "connecting" /\ stream.open = 0
      BY <1>1
    <2>3. Streamed
      BY <1>2 DEF Streamed
    <2> QED
      BY <1>1, <2>1, <2>2, <2>3, Numbers DEF StreamInv
  <1>6. AlertInv
    BY <1>1 DEF AlertInv, AlertSpacing
  <1>7. RestInv
    <2>1. MaxFaults \in Nat /\ MaxRestarts \in Nat
      BY FeedsAssumption, Zenon
    <2> QED
      BY <1>1, <2>1 DEF RestInv
  <1>8. NewsInv
    <2>1. news = <<>> /\ cycle = [p \in Ingesters |-> Idle]
      BY <1>1 DEF NewsInit
    <2>2. Idle \in CycleOK /\ Idle.held = NoTitle /\ Idle.todo = <<>>
      BY DEF Idle, CycleOK
    <2>3. cycle \in [Ingesters -> CycleOK] /\ \A p \in Ingesters : cycle[p] = Idle
      BY <2>1, <2>2
    <2>4. NewsTypeOK
      BY <2>1, <2>3 DEF NewsTypeOK, CycleOK
    <2>5. Unheld /\ Reading
      BY <2>2, <2>3 DEF Unheld, Reading, BetweenFeeds
    <2>6. HeadlineOncePerProcess
      BY <2>1 DEF HeadlineOncePerProcess
    <2> QED
      BY <2>4, <2>5, <2>6 DEF NewsInv
  <1> QED
    BY <1>3, <1>4, <1>5, <1>6, <1>7, <1>8 DEF FeedsIInv

(* Every action keeps the inductive invariant. *)
THEOREM FeedsInductive == Spec => []FeedsIInv
  <1>1. FeedsIInv /\ [Next]_vars => FeedsIInv'
    <2> SUFFICES ASSUME FeedsIInv, [Next]_vars PROVE FeedsIInv'
      OBVIOUS
    <2>1. CASE MonitorNews \/ RollUp \/ Tick \/ Poll \/ SourcesNotWritten \/ ScanRaises \/ ScanDone
      BY <2>1, MonitorNewsKeeps, RollUpKeeps, TickKeeps, PollKeeps, SourcesNotWrittenKeeps, ScanKeeps
    <2>2. CASE EmbeddedRefresh \/ EmbeddedNews
      BY <2>2, EmbeddedRefreshKeeps, EmbeddedNewsKeeps
    <2>3. CASE StreamConnects \/ StreamTick \/ StreamLost \/ StreamRetries
      BY <2>3, StreamConnectsKeeps, StreamTickKeeps, StreamLostKeeps, StreamRetriesKeeps
    <2>4. CASE RestartMonitor \/ RestartApi \/ ClockTick
      BY <2>4, RestartMonitorKeeps, RestartApiKeeps, ClockTickKeeps
    <2>5. CASE UNCHANGED vars
      <3>1. UNCHANGED <<news, cycle, quotes, bars, seen, alerts, source, monitor, embedded, stream, deployed,
                        supply, now, faults, restarts>>
        BY <2>5 DEF vars, tables, api, setting, newsVars
      <3> QED
        BY <3>1, StreamAlone, StreamSteps DEF FeedsIInv
    <2> QED
      BY <2>1, <2>2, <2>3, <2>4, <2>5 DEF Next
  <1> QED
    BY <1>1, Initially, PTL DEF Spec

(* Types, bars that say what their quotes say, and headlines that no process
   repeats, however the three writers interleave and whatever commit fails
   (aggregate_quotes_to_candles, ingest_news, PolymarketWSMonitor). *)
THEOREM TablesKept == Spec => []TablesInv
  <1>1. FeedsIInv => TablesInv
    <2> SUFFICES ASSUME FeedsIInv PROVE TablesInv
      OBVIOUS
    <2>1. seen \in [Frame -> 0..supply.quotes]
      <3>1. /\ seen \in [Frame -> Nat] /\ \A f \in Frame : seen[f] <= Len(quotes)
            /\ Len(quotes) <= supply.quotes /\ supply.quotes \in Nat /\ Len(quotes) \in Nat
        BY SupplyIs DEF FeedsIInv, TableInv
      <3> QED
        BY <3>1
    <2>2. TypeOK
      BY <2>1 DEF TypeOK, FeedsIInv, TableInv, BarsTyped, MonitorInv, MonitorType, StreamInv, StreamType,
                  AlertInv, RestInv, NewsInv
    <2> QED
      BY <2>2 DEF TablesInv, FeedsIInv, TableInv, NewsInv
  <1> QED
    BY <1>1, FeedsInductive, PTL

(* Two alerts of the rule are Dedupe apart, across restarts (_alert). *)
THEOREM AlertsApart == Spec => []AlertSpacing
  <1>1. FeedsIInv => AlertSpacing
    BY DEF FeedsIInv, AlertInv
  <1> QED
    BY <1>1, FeedsInductive, PTL

(* Nobody is told of a connection while the stream sleeps, and an outage longer
   than HealthyAge shows in the health report wherever the task is
   (PolymarketWSMonitor.run_forever, /system/health). *)
THEOREM OutagesShow == Spec => []OutageShows
  <1>1. FeedsIInv => OutageShows
    BY OutageIs DEF FeedsIInv
  <1> QED
    BY <1>1, FeedsInductive, PTL

(* A provider shown CONNECTED has stored a quote in the tick that says so
   (OrionMonitor.tick, _upsert_sources). *)
THEOREM ConnectedTellsTheTick == Spec => ConnectedHasStored
  <1> DEFINE Told == ScanRaises \/ ScanDone =>
        \A p \in Provider : source'[p] = "CONNECTED" =>
          \E i \in DOMAIN quotes : i >= monitor.first /\ quotes[i].by = p
  <1>1. FeedsIInv /\ [Next]_vars => Told
    <2> SUFFICES ASSUME FeedsIInv, ScanRaises \/ ScanDone,
                        NEW p \in Provider, source'[p] = "CONNECTED"
                 PROVE  \E i \in DOMAIN quotes : i >= monitor.first /\ quotes[i].by = p
      OBVIOUS
    <2>1. monitor.connected[p] = TRUE /\ monitor.at = "closing"
      BY ScanKeeps
    <2>2. PICK k \in 1..Len(Route) : p = Route[k][1]
      BY RouteFacts
    <2>3. Stored(p)
      BY <2>1, <2>2 DEF FeedsIInv, MonitorInv, Answered
    <2> QED
      BY <2>3 DEF Stored
  <1>2. FeedsIInv /\ [Next]_vars => [Told]_vars
    BY <1>1
  <1> QED
    BY <1>2, FeedsInductive, PTL DEF Spec, ConnectedHasStored

(* The finer timeframes were read first. *)
InOrder == seen[Frames[1]] <= seen[Frames[2]] /\ seen[Frames[2]] <= seen[Frames[3]]

LEMMA NestedIn ==
  FeedsIInv /\ InOrder => \A i \in 1..2 : Within(Frames[i], Frames[i + 1])
  <1> SUFFICES ASSUME FeedsIInv, InOrder, NEW i \in 1..2 PROVE Within(Frames[i], Frames[i + 1])
    OBVIOUS
  <1>1. i = 1 \/ i = 2
    OBVIOUS
  <1>2. seen[Frames[i]] <= seen[Frames[i + 1]]
    BY <1>1 DEF InOrder
  <1> QED
    BY <1>2, Nested DEF FeedsIInv

(* When a rollup completes, every bar lies within the coarser bar around it: the
   timeframes are read in that order, and a bucket of one lies within a bucket
   of the next (backfill_all_timeframes). *)
THEOREM FinerBarsNest == Spec => BarsNest
  <1> DEFINE Ends == RollUp /\ monitor.step = Len(Frames) /\ faults' = faults
  <1>1. FeedsIInv /\ Ends => InOrder'
    <2> SUFFICES ASSUME FeedsIInv, Ends PROVE InOrder'
      OBVIOUS
    <2>1. /\ Frames[1] \in Frame /\ Frames[2] \in Frame /\ Frames[3] \in Frame
          /\ Frames[1] # Frames[3] /\ Frames[2] # Frames[3] /\ monitor.step = 3
      BY FrameFacts
    <2>2. ~Faulty
      BY DEF FeedsIInv, RestInv, Faulty
    <2>3. Aggregate(Frames[3]) /\ monitor.at = "roll"
      BY <2>1, <2>2 DEF RollUp, At, FrameOrder
    <2>4. seen[Frames[1]] <= seen[Frames[2]] /\ seen[Frames[2]] <= Len(quotes) /\ seen \in [Frame -> Nat]
      BY <2>1, <2>3 DEF FeedsIInv, MonitorInv, TableInv
    <2>5. seen' = [seen EXCEPT ![Frames[3]] = Len(quotes)]
      BY <2>3 DEF Aggregate
    <2>6. /\ seen'[Frames[1]] = seen[Frames[1]] /\ seen'[Frames[2]] = seen[Frames[2]]
          /\ seen'[Frames[3]] = Len(quotes)
      BY <2>1, <2>4, <2>5
    <2> QED
      BY <2>4, <2>6 DEF InOrder
  <1>2. FeedsIInv' /\ InOrder' => (\A i \in 1..2 : Within(Frames[i], Frames[i + 1]))'
    BY NestedIn, PTL
  <1>3. FeedsIInv /\ FeedsIInv' => [Ends => (\A i \in 1..2 : Within(Frames[i], Frames[i + 1]))']_vars
    BY <1>1, <1>2
  <1> QED
    BY <1>3, FeedsInductive, PTL DEF BarsNest
=============================================================================
