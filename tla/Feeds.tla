-------------------------------- MODULE Feeds --------------------------------
(***************************************************************************)
(* What fills the market tables: the monitor process (apps/monitor/main.py)*)
(* which polls, alerts, scans and rolls candles up, and, in the process of *)
(* the API, the embedded data service (apps/api/background.py) and the     *)
(* Polymarket stream (apps/monitor/polymarket_ws.py).  The three write the *)
(* same quotes; the rollup (core/memory/candles.py) reads them all, one    *)
(* query and one commit per timeframe.  The monitor and the service also   *)
(* ingest headlines (News).                                                *)
(*                                                                         *)
(* A commit is where the writers meet, so a step is what a task does up to *)
(* its next commit, request or sleep.  Any commit may fail.                *)
(***************************************************************************)
EXTENDS News, FiniteSetsExt

CONSTANTS
  Symbols,
  Prices,         \* prices a feed may report; one of 0 is stored and not rolled
  Route,          \* the monitor's provider and symbol pairs, in its order
  Routed,         \* the embedded service's, after the registry has routed them
  Deployments,    \* the sets of tasks that may be running, by configuration
  RollEvery,      \* CANDLE_INTERVAL_TICKS
  NewsEvery,      \* NEWS_INTERVAL_TICKS
  Seconds,        \* TIMEFRAME_SECONDS, in clock units
  Dedupe,         \* the 10 minutes between two alerts, in clock units
  EnoughBars,     \* H1 bars below which the scanner does not look for a sweep
  ReconnectMin, ReconnectMax,
  HealthyAge,     \* age up to which a service is HEALTHY
  Supplies,       \* what may come from outside: at most so many quotes, and the
                  \* titles that each news feed carries
  MaxTime,        \* bound on the clock
  MaxFaults,      \* bound on the commits that fail
  MaxRestarts     \* bound on the restarts of either process

Frames == <<"M15", "H1", "H4">>
Frame == {Frames[i] : i \in DOMAIN Frames}
STREAM == "polymarket-rtds"
Provider == {pair[1] : pair \in {Route[i] : i \in DOMAIN Route}}
Writer == Provider \cup {STREAM} \cup {Routed[i][1] : i \in DOMAIN Routed}

ASSUME FeedsAssumption ==
  /\ Prices \subseteq Nat
  /\ Route \in Seq(STRING \X Symbols) \ {<<>>}
  /\ Routed \in Seq(STRING \X Symbols)
  /\ STREAM \notin Provider
  /\ Deployments \subseteq SUBSET {"monitor", "embedded", "stream"}
  /\ \A i \in DOMAIN Routed : Routed[i][1] # STREAM
  /\ Ingesters = {"monitor", "embedded"}
  /\ Supplies \subseteq [quotes : Nat, edition : Seq(Seq(Titles))]
  /\ RollEvery \in Nat \ {0} /\ NewsEvery \in Nat \ {0} /\ NewsEvery % RollEvery = 0
  /\ Dedupe \in Nat /\ EnoughBars \in Nat
  /\ Seconds \in [Frame -> Nat \ {0}]
  /\ \A i \in 1..2 : Seconds[Frames[i + 1]] % Seconds[Frames[i]] = 0
  /\ ReconnectMin \in Nat \ {0} /\ ReconnectMax \in Nat /\ ReconnectMax >= ReconnectMin
  /\ HealthyAge \in Nat
  /\ MaxTime \in Nat
  /\ MaxFaults \in Nat /\ MaxRestarts \in Nat

VARIABLES
  quotes,     \* rows of quotes in the order of their commits
  bars,       \* rows of candles by timeframe, symbol and bucket
  seen,       \* history: the quotes a timeframe's last rollup has read
  alerts,     \* when each row of alerts was stored
  source,     \* the status in each row of sources
  monitor,    \* where the monitor is, and what it keeps in memory
  embedded,   \* where the embedded service is
  stream,     \* where the stream is, its backoff, and when it was last open
  deployed,   \* the tasks that run
  supply,     \* what comes from outside
  now,
  faults, restarts

tables == <<quotes, bars, seen, alerts, source>>
api == <<embedded, stream>>
setting == <<deployed, supply>>
vars == <<tables, newsVars, monitor, api, setting, now, faults, restarts>>

Quote == [symbol : Symbols, price : Prices, by : Writer, at : 0..MaxTime]
Bar == [open : Prices, high : Prices, low : Prices, close : Prices]
NoBar == [open |-> 0, high |-> 0, low |-> 0, close |-> 0]
Buckets == 0..MaxTime

(* A process starts with the cycles before its loop; nothing is in memory. *)
Started(count) ==
  [at |-> "news", step |-> 1, count |-> count, first |-> 0,
   connected |-> [p \in Provider |-> FALSE]]

Init ==
  /\ quotes = <<>>
  /\ bars = [f \in Frame |-> [s \in Symbols |-> [b \in Buckets |-> NoBar]]]
  /\ seen = [f \in Frame |-> 0]
  /\ alerts = <<>>
  /\ source = [w \in Provider \cup {STREAM} |-> "ABSENT"]
  /\ monitor = Started(0)
  /\ embedded = [at |-> "running", step |-> 1]
  /\ stream = [at |-> "connecting", backoff |-> ReconnectMin, open |-> 0]
  /\ NewsInit
  /\ deployed \in Deployments
  /\ supply \in Supplies
  /\ now = 0
  /\ faults = 0
  /\ restarts = 0

Faulty == faults < MaxFaults /\ faults' = faults + 1

(* session.add and commit: the default of ts_received is taken before the
   insert waits for the writer's lock, so rows need not commit in its order. *)
Stores(writer, symbol, price) ==
  /\ Len(quotes) < supply.quotes
  /\ \E at \in {now, now - 1} \cap Nat :
       quotes' = Append(quotes, [symbol |-> symbol, price |-> price, by |-> writer, at |-> at])

-----------------------------------------------------------------------------
(* The rollup. *)

Bucket(t, frame) == t \div Seconds[frame]

(* What a query returns of one bucket, as positions: prices of 0 are skipped. *)
Group(rows, frame, symbol, bucket) ==
  {i \in DOMAIN rows :
    /\ rows[i].symbol = symbol
    /\ rows[i].price > 0
    /\ Bucket(rows[i].at, frame) = bucket}

(* The order of the query: ts_received, then the order of the inserts. *)
Before(rows, i, j) ==
  rows[i].at < rows[j].at \/ (rows[i].at = rows[j].at /\ i <= j)
Earliest(rows, group) == CHOOSE i \in group : \A j \in group : Before(rows, i, j)
Latest(rows, group) == CHOOSE i \in group : \A j \in group : Before(rows, j, i)

OfQuotes(rows, group) ==
  LET prices == {rows[i].price : i \in group}
  IN  [open  |-> rows[Earliest(rows, group)].price,
       high  |-> Max(prices), low |-> Min(prices),
       close |-> rows[Latest(rows, group)].price]

(* Slip: the low is left out of the update. *)
SlipUpserted(old, new) ==
  IF old = NoBar THEN new
  ELSE [old EXCEPT !.high = new.high, !.close = new.close]

(* on_conflict_do_update leaves the open of a bar as it was first stored. *)
Upserted(old, new) ==
  IF old = NoBar THEN new
  ELSE [old EXCEPT !.high = new.high, !.low = new.low, !.close = new.close]

(* aggregate_quotes_to_candles for one timeframe.  Quotes committed between its
   query and its commit are left to the next one. *)
Aggregate(frame) ==
  /\ bars' = [bars EXCEPT ![frame] = [s \in Symbols |-> [b \in Buckets |->
       LET group == Group(quotes, frame, s, b)
       IN  IF group = {} THEN bars[frame][s][b]
           ELSE Upserted(bars[frame][s][b], OfQuotes(quotes, group))]]]
  /\ seen' = [seen EXCEPT ![frame] = Len(quotes)]

-----------------------------------------------------------------------------
(* The monitor. *)

At(place) == "monitor" \in deployed /\ monitor.at = place
Sleeps == monitor' = [monitor EXCEPT !.at = "asleep", !.step = 1, !.first = 0]

(* Slip: the coarsest timeframe first. *)
SlipFrameOrder(i) == Frames[Len(Frames) + 1 - i]

FrameOrder(i) == Frames[i]

(* _rollup_candles: M15, then H1, then H4; a commit that fails ends it there. *)
RollUp ==
  /\ At("roll")
  /\ \/ /\ Aggregate(FrameOrder(monitor.step))
        /\ IF monitor.step < Len(Frames)
             THEN monitor' = [monitor EXCEPT !.step = @ + 1]
             ELSE Sleeps
        /\ UNCHANGED faults
     \/ Faulty /\ Sleeps /\ UNCHANGED <<bars, seen>>
  /\ UNCHANGED <<newsVars, quotes, alerts, source, api, setting, now, restarts>>

(* The loop comes round: a tick counts itself before anything else. *)
Tick ==
  /\ At("asleep")
  /\ monitor' = [monitor EXCEPT !.at = "polling", !.step = 1,
                 !.count = (@ + 1) % NewsEvery, !.first = Len(quotes) + 1]
  /\ UNCHANGED <<newsVars, tables, api, setting, now, faults, restarts>>

Asked == Route[monitor.step]

(* Slip: a failure does not end a connection. *)
SlipHeard(health, provider, ok) == [health EXCEPT ![provider] = ok \/ @]

(* The provider answered (record_success) or did not (record_failure). *)
Heard(health, provider, ok) == [health EXCEPT ![provider] = ok]

Hears(ok, place, step) ==
  monitor' = [monitor EXCEPT !.at = place, !.step = step,
              !.connected = Heard(@, Asked[1], ok)]

HearsAndGoesOn(ok) ==
  IF monitor.step < Len(Route) THEN Hears(ok, "polling", monitor.step + 1)
                               ELSE Hears(ok, "closing", 1)

(* _alert: the latest alert of the rule, whatever the symbol, silences it for
   ten minutes. *)
LastAlert == IF alerts = <<>> THEN -Dedupe ELSE alerts[Len(alerts)]

(* Slip: without its time zone the stored time looks older than it is. *)
SlipSilenced == now + 1 - LastAlert < Dedupe

Silenced == now - LastAlert < Dedupe

(* One provider and symbol of the tick: no answer; or a quote that is stored,
   and an alert when it is stale and the rule is not silenced.  A commit that
   fails takes the rest of the tick, and its cycles, with it. *)
Poll ==
  /\ At("polling")
  /\ \/ HearsAndGoesOn(FALSE) /\ UNCHANGED <<quotes, alerts, faults>>
     \/ Faulty /\ Hears(TRUE, "asleep", 1) /\ UNCHANGED <<quotes, alerts>>
     \/ /\ \E price \in Prices : Stores(Asked[1], Asked[2], price)
        /\ \/ HearsAndGoesOn(TRUE) /\ UNCHANGED <<alerts, faults>>
           \/ /\ ~Silenced /\ HearsAndGoesOn(TRUE)
              /\ alerts' = Append(alerts, now) /\ UNCHANGED faults
           \/ /\ ~Silenced /\ Faulty /\ Hears(TRUE, "asleep", 1)
              /\ UNCHANGED alerts
  /\ UNCHANGED <<newsVars, bars, seen, source, api, setting, now, restarts>>

(* The end of the tick: _upsert_sources, the risk snapshot, and the scan. *)
SourcesWritten ==
  source' = [w \in DOMAIN source |->
    CASE w = STREAM                              -> source[w]
      [] w \in Provider /\ monitor.connected[w]  -> "CONNECTED"
      [] w \in Provider /\ ~monitor.connected[w] -> "DISCONNECTED"]

SourcesNotWritten ==
  /\ At("closing")
  /\ Faulty
  /\ Sleeps
  /\ UNCHANGED <<newsVars, tables, api, setting, now, restarts>>

(* Slip: the remainder is compared with the interval. *)
SlipRollDue == monitor.count % RollEvery = RollEvery

RollDue == monitor.count % RollEvery = 0
NewsDue == monitor.count = 0

RollsIfDue ==
  IF RollDue THEN monitor' = [monitor EXCEPT !.at = "roll", !.step = 1, !.first = 0]
             ELSE Sleeps

(* _news_cycle, on a start and every NewsEvery ticks: whatever ends it, the
   rollup comes next if it is due. *)
MonitorNews ==
  /\ At("news")
  /\ \/ Ingests("monitor", supply.edition) /\ UNCHANGED <<monitor, faults>>
     \/ CycleEnds("monitor") /\ RollsIfDue /\ UNCHANGED faults
     \/ ItemLost("monitor") /\ RollsIfDue /\ Faulty
  /\ UNCHANGED <<tables, api, setting, now, restarts>>

(* The H1 bars the scanner finds for a symbol. *)
BarsOf(symbol) == {b \in Buckets : bars["H1"][symbol][b] # NoBar}

(* What follows the source rows raises: the risk snapshot or the scan, at one of
   their commits, or scan_once for a symbol that has bars enough and no sweep,
   which depends on their prices.  News and a rollup that are due are skipped. *)
ScanRaises ==
  /\ At("closing")
  /\ SourcesWritten
  /\ \/ \E s \in Symbols : Cardinality(BarsOf(s)) >= EnoughBars /\ UNCHANGED faults
     \/ Faulty
  /\ Sleeps
  /\ UNCHANGED <<newsVars, quotes, bars, seen, alerts, api, setting, now, restarts>>

ScanDone ==
  /\ At("closing")
  /\ SourcesWritten
  /\ IF NewsDue
       THEN monitor' = [monitor EXCEPT !.at = "news", !.step = 1, !.first = 0]
       ELSE RollsIfDue
  /\ UNCHANGED <<newsVars, quotes, bars, seen, alerts, api, setting, now,
                 faults, restarts>>

MonitorStep == MonitorNews \/ RollUp \/ Tick \/ Poll \/ SourcesNotWritten \/ ScanRaises \/ ScanDone

RestartMonitor ==
  /\ "monitor" \in deployed
  /\ restarts < MaxRestarts
  /\ restarts' = restarts + 1
  /\ monitor' = Started(0)
  /\ Forgotten("monitor")
  /\ UNCHANGED <<tables, api, setting, now, faults>>

-----------------------------------------------------------------------------
(* The tasks of the API process. *)

(* refresh_quotes: a symbol (there may be none) is skipped, stored, or its store
   raises, which ends the task: neither the cycle nor the loop catches it.  After
   the last symbol the headlines may be due, or the task waits and starts over. *)
AfterRefresh ==
  IF embedded.step < Len(Routed) THEN embedded' = [embedded EXCEPT !.step = @ + 1]
  ELSE \E place \in {"running", "news"} : embedded' = [at |-> place, step |-> 1]

EmbeddedRefresh ==
  /\ "embedded" \in deployed
  /\ embedded.at = "running"
  /\ \/ AfterRefresh /\ UNCHANGED <<quotes, faults>>
     \/ /\ embedded.step \in DOMAIN Routed
        /\ LET pair == Routed[embedded.step]
           IN  \E price \in Prices : Stores(pair[1], pair[2], price)
        /\ AfterRefresh
        /\ UNCHANGED faults
     \/ /\ embedded.step \in DOMAIN Routed
        /\ Faulty
        /\ embedded' = [embedded EXCEPT !.at = "dead"]
        /\ UNCHANGED quotes
  /\ UNCHANGED <<newsVars, bars, seen, alerts, source, monitor, stream, setting, now,
                 restarts>>

(* refresh_news: it catches what a cycle raises, and the task goes on. *)
EmbeddedNews ==
  /\ "embedded" \in deployed
  /\ embedded.at = "news"
  /\ \/ Ingests("embedded", supply.edition) /\ UNCHANGED <<embedded, faults>>
     \/ /\ embedded' = [embedded EXCEPT !.at = "running"]
        /\ \/ CycleEnds("embedded") /\ UNCHANGED faults
           \/ ItemLost("embedded") /\ Faulty
  /\ UNCHANGED <<tables, monitor, stream, setting, now, restarts>>

Streams(place) == "stream" \in deployed /\ stream.at = place

(* Connected and subscribed, the stream says so in its source row and starts its
   backoff over. *)
StreamConnects ==
  /\ Streams("connecting")
  /\ source' = [source EXCEPT ![STREAM] = "CONNECTED"]
  /\ stream' = [at |-> "open", backoff |-> ReconnectMin, open |-> now]
  /\ UNCHANGED <<newsVars, quotes, bars, seen, alerts, monitor, embedded, setting,
                 now, faults, restarts>>

(* A frame carries a tick. *)
StreamTick ==
  /\ Streams("open")
  /\ \E symbol \in Symbols, price \in Prices : Stores(STREAM, symbol, price)
  /\ UNCHANGED <<newsVars, bars, seen, alerts, source, monitor, api, setting,
                 now, faults, restarts>>

(* Slip: the status is left as it is. *)
SlipMarked == source[STREAM]

(* What follows any exception in the try: no connection, a socket that breaks or
   closes, or a commit that fails (and costs a fault).  The row is corrected
   outside the try, where a commit that fails ends the task. *)
Marked == "DISCONNECTED"

StreamLost ==
  /\ Streams("connecting") \/ Streams("open")
  /\ \/ /\ source' = [source EXCEPT ![STREAM] = Marked]
        /\ stream' = [stream EXCEPT !.at = "sleeping"]
        /\ UNCHANGED faults \/ Faulty
     \/ /\ stream' = [stream EXCEPT !.at = "dead"]
        /\ Faulty
        /\ UNCHANGED source
  /\ UNCHANGED <<newsVars, quotes, bars, seen, alerts, monitor, embedded, setting,
                 now, restarts>>

(* Slip: the limit is applied before the doubling. *)
SlipDoubled(seconds) == IF seconds >= ReconnectMax THEN seconds ELSE 2 * seconds

Doubled(seconds) == Min({2 * seconds, ReconnectMax})

StreamRetries ==
  /\ Streams("sleeping")
  /\ stream' = [stream EXCEPT !.at = "connecting", !.backoff = Doubled(@)]
  /\ UNCHANGED <<newsVars, tables, monitor, embedded, setting, now, faults, restarts>>

(* The API stops, cancelling both tasks where they are, and starts again: a
   source row that says CONNECTED is left so. *)
RestartApi ==
  /\ deployed \cap {"embedded", "stream"} # {}
  /\ restarts < MaxRestarts
  /\ restarts' = restarts + 1
  /\ embedded' = [at |-> "running", step |-> 1]
  /\ Forgotten("embedded")
  /\ stream' = [stream EXCEPT !.at = "connecting", !.backoff = ReconnectMin]
  /\ UNCHANGED <<tables, monitor, setting, now, faults>>

-----------------------------------------------------------------------------

(* Slip: any row will do, as for the embedded service. *)
SlipEvidence(provider) == DOMAIN quotes

(* /system/health: a feed is judged by the age of the last of its rows. *)
Evidence(provider) == {i \in DOMAIN quotes : quotes[i].by = provider}

Classify(age) ==
  CASE age <= HealthyAge      -> "HEALTHY"
    [] age \in HealthyAge + 1 .. 5 * HealthyAge -> "DEGRADED"
    [] age \in 5 * HealthyAge + 1 .. 30 * HealthyAge -> "STALE"
    [] OTHER                  -> "FAILED"

FeedState(provider) ==
  IF Evidence(provider) = {} THEN "FAILED"
  ELSE Classify(now - Max({quotes[i].at : i \in Evidence(provider)}))

ClockTick ==
  /\ now < MaxTime
  /\ now' = now + 1
  /\ stream' = IF stream.at = "open" THEN [stream EXCEPT !.open = now'] ELSE stream
  /\ UNCHANGED <<newsVars, tables, monitor, embedded, setting, faults, restarts>>

Next ==
  \/ MonitorNews \/ RollUp \/ Tick \/ Poll \/ SourcesNotWritten \/ ScanRaises \/ ScanDone
  \/ EmbeddedRefresh \/ EmbeddedNews
  \/ StreamConnects \/ StreamTick \/ StreamLost \/ StreamRetries
  \/ RestartMonitor \/ RestartApi
  \/ ClockTick

Spec == Init /\ [][Next]_vars

(* The heartbeat is a sleep that ends, and the requests of the monitor have
   timeouts: it goes on.  Nothing makes the market move, a server answer or a
   process stop. *)
Fairness == WF_vars(MonitorStep)

FairSpec == Spec /\ Fairness

-----------------------------------------------------------------------------
(* Properties. *)

Place == {"news", "roll", "polling", "closing", "asleep"}

TypeOK ==
  /\ NewsTypeOK
  /\ quotes \in Seq(Quote) /\ Len(quotes) <= supply.quotes
  /\ bars \in [Frame -> [Symbols -> [Buckets -> Bar \cup {NoBar}]]]
  /\ seen \in [Frame -> 0..supply.quotes]
  /\ alerts \in Seq(0..MaxTime)
  /\ source \in [Provider \cup {STREAM} -> {"ABSENT", "CONNECTED", "DISCONNECTED"}]
  /\ monitor \in [at : Place, step : Nat \ {0}, count : 0..NewsEvery - 1,
                  first : Nat, connected : [Provider -> BOOLEAN]]
  /\ embedded \in [at : {"running", "news", "dead"}, step : Nat \ {0}]
  /\ stream \in [at : {"connecting", "open", "sleeping", "dead"},
                 backoff : ReconnectMin..ReconnectMax, open : 0..MaxTime]
  /\ deployed \in Deployments /\ supply \in Supplies
  /\ now \in 0..MaxTime
  /\ faults \in 0..MaxFaults /\ restarts \in 0..MaxRestarts

(* What a bar says is what its quotes say: however often it was rolled up while
   three writers went on, and whatever failed in between, its high, low and
   close are those of all the quotes of the bucket that its timeframe has seen,
   and there is a bar wherever there is such a quote (the upsert of
   aggregate_quotes_to_candles keeps the rest of the row it finds). *)
BarsAreOfTheQuotes ==
  \A f \in Frame, s \in Symbols, b \in Buckets :
    LET rows  == SubSeq(quotes, 1, seen[f])
        group == Group(rows, f, s, b)
        bar   == bars[f][s][b]
    IN  IF group = {} THEN bar = NoBar
        ELSE /\ [bar EXCEPT !.open = 0] = [OfQuotes(rows, group) EXCEPT !.open = 0]
             /\ \E i \in group : bar.open = rows[i].price

(* A bar of a finer timeframe lies within the coarser bar around it when a
   rollup completes, though each timeframe reads the quotes anew and other
   writers commit in between: the finer is read first (the order of
   backfill_all_timeframes). *)
Within(fine, coarse) ==
  \A s \in Symbols, t \in Buckets :
    LET inner == bars[fine][s][Bucket(t, fine)]
        outer == bars[coarse][s][Bucket(t, coarse)]
    IN  inner # NoBar => inner.high <= outer.high /\ outer.low <= inner.low

BarsNest ==
  [][RollUp /\ monitor.step = Len(Frames) /\ faults' = faults =>
      (\A i \in 1..2 : Within(Frames[i], Frames[i + 1]))']_vars

(* One alert of a rule in ten minutes, across restarts of the monitor, which
   keeps nothing of them in memory (_alert). *)
AlertSpacing ==
  \A i, j \in DOMAIN alerts : i < j => alerts[j] - alerts[i] >= Dedupe

(* When a tick has written the source rows, a provider shown CONNECTED has stored
   a quote in that very tick: its state does not outlive the connection, and
   one symbol that answers does not speak for another that fails after it
   (FeedHealth is per provider, the last symbol of the tick decides). *)
ConnectedHasStored ==
  [][ScanRaises \/ ScanDone =>
      \A p \in Provider : source'[p] = "CONNECTED" =>
        \E i \in DOMAIN quotes : i >= monitor.first /\ quotes[i].by = p]_vars

(* While the stream sleeps before its next attempt nobody is told it is
   connected, and an outage longer than HealthyAge shows in the health report
   even where the source row was never corrected: after the task died, or was
   cancelled with the API. *)
OutageShows ==
  /\ stream.at = "sleeping" => source[STREAM] = "DISCONNECTED"
  /\ now - stream.open > HealthyAge => FeedState(STREAM) # "HEALTHY"

MostQuotes == Max({u.quotes : u \in Supplies})

(* Every quote reaches every timeframe, whoever stored it and whatever commit
   fails or process stops, provided the scans stop raising: a scan that raises on
   the ticks whose rollup is due postpones it every time (run_forever swallows
   what a tick raises, and _rollup_candles what a rollup does). *)
QuotesReachTheBars ==
  "monitor" \in deployed /\ <>[][~ScanRaises]_vars =>
    \A n \in 1..MostQuotes :
      (Len(quotes) >= n) ~> (\A f \in Frame : seen[f] >= n)

(* The state invariant of the tables: types, a backoff within its bounds, bars
   that say what their quotes say, and headlines that no process repeats
   (StreamRetries, aggregate_quotes_to_candles, ingest_news). *)
TablesInv == TypeOK /\ BarsAreOfTheQuotes /\ HeadlineOncePerProcess
=============================================================================
