# ORION in TLA+

A verification project for the ORION institutional trading desk: TLA+ modules
translated from the Python source, TLC instances that check them, and TLAPS proofs
of the properties that carry the desk's promises. Every definition that stands for
code is listed in `PROJECT.json` with the lines it stands for.

1. [The system](#1-the-system)
2. [Modules and their correspondence to the code](#2-modules-and-their-correspondence-to-the-code)
3. [What the runs check](#3-what-the-runs-check)
4. [Where the code and its documentation part](#4-where-the-code-and-its-documentation-part)
5. [What is proved](#5-what-is-proved)
6. [What is not modelled](#6-what-is-not-modelled)
7. [Plan](#7-plan)

## 1. The system

ORION is three long-running processes around one SQL database (SQLite in WAL mode by
default, or Postgres), and a web dashboard:

- the **API** (`apps/api`, FastAPI in one uvicorn process). `def` routes run in a
  thread pool, each with a session of its own, so two of them interleave at every
  database statement. `async def` routes run on the event loop and interleave with
  others only at an `await`; `confirm_order` and `evaluate_watches` as called by the
  CIO have none. Optionally it embeds a data service and the Polymarket listener as
  tasks.
- the **monitor** (`apps/monitor/main.py`): a heartbeat loop that pulls quotes, writes
  alerts and snapshots, runs the scanner, rolls candles up and ingests news.
- the **Polymarket listener** (`apps/monitor/polymarket_ws.py`), on its own or embedded.

They share the database and nothing else; in particular `get_event_bus` is a module
global, so each process has its own bus. Sessions are opened with
`expire_on_commit=False`: a row loaded before a commit is not refreshed after it, and
the ORM writes only the columns that differ from what was loaded. No table has a
version column.

### Components

| Component | State | Operations | Hard behaviour | What makes it correct |
|---|---|---|---|---|
| Risk engine (`core/risk`) | none | `evaluate`, `position_size`, `snapshot_verdict` | seven limits, order of early returns, rounding | what is approved fits every limit; a worse book never helps |
| Trade flow (`routers/ideas.py`, `routers/orders.py`, `core/execution`) | ideas, risk decisions, orders, executions, positions, audit log | create idea, review, create order, confirm | threads that review and issue at once, repeated confirmations, ageing quotes, restarts between commits | no ticket without an approval, one fill for each ticket, always with a human and an audit row |
| Faro publisher (`providers/faro`) | outbox file, settings file | send, log, audit | delivery before its record, lost answers | only full approvals leave the desk |
| Watch mode (`core/desk/watch.py`) | watch requests | create, cancel, evaluate | rows loaded once and written later, several evaluations at a time, a moving quote, a page of the 50 newest | WATCHING, ARMED, CONFIRMED in that order, on evidence; no supplied zone is lost |
| Scanner (`core/scanner`, `core/setups/quality.py`) | opportunity candidates and their transitions | scan, expire, record | two commits for each scan, cooldown, heartbeat, one symbol failing | one active sweep, complete history, a row never claims more than its reading |
| Event bus (`core/events/bus.py`) and websocket (`apps/api/main.py`) | queue, ring, subscriptions | publish, dispatch, subscribe, send | joining and leaving at any moment, ring overflow, several processes | order, nothing lost or repeated |
| Journal (`core/desk/journal.py`) | doctrine journal | record, evaluate once | which candles judge a decision, comparisons in mean ranges | a decision is judged once, by what followed it, and the two answers agree |
| Monitor, embedded data service | quotes, sources, alerts, counters | tick, store, alert, roll up | one failing step hides the following ones; deduplication across restarts; three writers | every quote reaches the candles in the end; alerts keep their distance; a source row tells of this tick |
| Polymarket stream | quotes, source status | connect, heartbeat, store, back off | a task that dies outside its `try`, a status after cancellation | an outage shows |
| Candles (`core/memory/candles.py`) | derived candles | roll up | repeated and partial rollups, other writers in between | a candle is what its quotes make it, and finer ones lie within coarser ones |
| Order book (`core/orderbook`, `core/executable`, `SpreadStrategy`) | levels and metrics of each token | update, query, walk, evaluate | prices that return after a trim, empty levels, crossed books | a side is the best of what was told; a fill comes from what is there |
| Market data (`core/market_data`) | provider registry, tiers | resolve, reconcile, verify | stale and divergent sources | a divergent source is never consensus |
| Desk (`core/desk`) | journal, analyses, watches, what the registry says of the orchestrator | route, build a context, specialists, gates, votes, modes, playbooks, watch, system | a context read in several steps while quotes move, a wait for the CFTC, several questions at once, commits that fail | no direction against a veto or from bad data; the rows tell what was answered; every question is answered |
| Debate and consensus (`core/debate`, `core/orchestration`, `core/audit`) | rows of debates | voices, consensus, audit | two orders of severity, asymmetric bands | the consensus takes no side, the audits agree |
| Calendar and automation (`core/events/economic_calendar.py`, `core/scheduling`) | events, jobs | seed, query, run | seeding countries in turn | no event is lost |
| News (`providers/news`) | news rows | fetch, deduplicate, store | two writers, check then insert, cycles cut short | no process stores a headline twice |
| Redis bus | subscriptions | publish, listen | prefixes, patterns | what is published is delivered; unused today |
| Doctrine, sessions, regime, market brain | none | pure functions of candles, quotes and clocks | merging, boundaries | they meet in the desk's plan |
| Features, statistics, positioning, playbook texts | none | formulas and texts | | |

The interactions that matter: the feeds write quotes that reviews, confirmations,
watches, scans and journal evaluations read; a review's verdict opens the way to a
ticket and a signal; the scanner reads the candles the rollup derives from quotes;
everything that publishes goes through the bus of its own process. `PROJECT.json`
lists the hazards of these parts at the line where they bite and the properties that
watch them.

## 2. Modules and their correspondence to the code

| Module | Models | Notes |
|---|---|---|
| `RiskEngine` | `core/risk/engine.py`, `sizing.py` | operators, no state |
| `RiskReview` | one call of `evaluate`: its arguments and its verdict | extends `RiskEngine`; holds the engine's properties |
| `TradeDesk` | ideas, reviews, tickets, confirmations, Faro | extends `RiskEngine`: the verdicts are the engine's |
| `ApprovalGate` | the promise of the trade flow | abstract; `TradeDesk!Gate` is the refinement mapping |
| `WatchMode` | `core/desk/watch.py` | |
| `Scanner` | `core/scanner/service.py`, `core/setups/quality.py` | |
| `EventBus` | `core/events/bus.py`, `ws_events` | |
| `Journal` | `core/desk/journal.py` | |
| `News` | `providers/news/rss.py` | the cycle of one process; used by `Feeds` |
| `Feeds` | `apps/monitor/main.py`, `apps/api/background.py`, `apps/monitor/polymarket_ws.py`, `core/memory/candles.py`, the feed states of `routers/system.py` | the three writers, the rollup and the news cycles composed; extends `News` |
| `Technicals` | `core/doctrine/session_engine.py`, `liquidity.py`, `range26.py` | operators over bars |
| `MarketBrain` | `core/market_brain`, `core/regime.py` | operators: the state of a market |
| `Doctrine` | `core/playbooks/base.py`, `core/doctrine/scores.py`, `doctrine.py` | scores and decision of a context |
| `Specialists` | `core/desk/router.py`, `specialists.py`, the gates and the synthesis of `cio.py` | extends `Doctrine` |
| `Debate` | `core/debate`, `core/orchestration/consensus.py`, `core/audit/verifier.py`, `core/market_data/reconciliation.py` | extends `MarketBrain` |
| `Desk` | `core/desk/cio.py`, `context.py`, `modes.py` | the state machine; extends `Specialists` and `Debate` |
| `OrderBook` | `core/orderbook`, `core/executable`, `SpreadStrategy` of `core/strategy` | |
| `MC...` | values for TLC | |
| `TradeDeskProofs` (with the risk engine), `WatchModeProofs`, `ScannerProofs`, `EventBusProofs`, `JournalProofs`, `FeedsProofs`, `OrderBookProofs`, `DeskProofs` | theorems | section 5 |

**RiskEngine.** Percentages are basis points, quantities are integer lots (the code
rounds to eight decimals), prices integers. `Evaluate` keeps the early returns in the
order of the code: data quality, degenerate levels, fatal issues, caps, timing. The
group cap takes the notional of the correlated group as an input, as the code does.
`RiskReview` is a single call with arbitrary arguments, of which the engine's own
properties are stated.

**TradeDesk.** One action for each point where a request touches shared state.
`risk_review` is `ReviewRead` (its reads and the verdict; the quote, the book and the
idea are read in one step, since only the quote and the positions can change between
the reads and a verdict on either combination is reachable), `ReviewCommit` (decision,
idea state and audit row in one transaction), then `FaroSend`, `FaroLog` and
`FaroAudit`. `create_order` is `TicketCheck` and `CreateOrder` (the read of the latest
decision and the insert; a decision that commits between them is as good as one that
commits after). `confirm_order` is an `async def` with no `await`, so it is one step:
`ConfirmFill`, or `ConfirmWorking` when the paper engine refuses. `Restart` drops the
requests in flight and keeps what was committed; an audit row belongs to the commit of
the row it is about. `overlaps` is a history variable: which reviews of one idea were
under way at once. Facts of the code worth knowing when reading it:
the portfolio always shows the starting equity and no risk used, so the daily and
weekly caps and the drawdown halt cannot bite through this route; exposure caps are
checked at the review and not at the confirmation; a confirmation refuses a STALE
quote and not a DISCONNECTED one; the paper engine is built with seed 42 for every
request, so in the deployed configuration its first draw never gives a partial fill:
`FillShare = {100}` is that configuration and other values stand for other seeds.
A market order is one that can always be touched; it differs from a limit order in its
price, which no property mentions, so the instances have limit orders and the proofs both.

**WatchMode.** `evaluate_watches` is `Load` (one SELECT), then `ReadQuote` and
`CommitRow` for each row in turn. `CommitRow` writes the columns that differ from the
loaded row, as the ORM does. `cancel_watch` has no caller yet; the constant `Cancels`
is the set of watches it may be called for. `PageSize` is the LIMIT of 50 of the SELECT. The code never assigns INVALIDATED and never looks at a bar:
confirmation is a quote outside the zone.

**Scanner.** A reading is what a scan finds in candles and quote, restricted to
combinations the features can produce (`Consistent`). `Scan` is the scan up to the
commit of `_expire_previous`, `Record` the second commit. An identity is symbol, setup,
direction, level and session bucket. A cooled-down row keeps its state and takes the
new score and features. The notification after a confirmation is left out: it asks for
verdicts that nothing writes. INVALIDATED is never assigned.

**EventBus.** `publish` and a whole `_dispatch` are steps of their own: the only
subscriber puts the event in an unbounded queue and never suspends. A handler learns
that its dashboard has gone at its next send, and stays subscribed after it returned.

**Journal.** Comparisons with a fraction of the mean true range are multiplied out, so
nothing is rounded. A missing quote or price leaves the row PENDING, which is no step.

**Feeds.** A step is what a task does up to its next commit, request or sleep. The
monitor's tick is `Tick`, then `Poll` for each provider and symbol in its order (no
answer, or a quote stored and, if it is stale, an alert), then `SourcesWritten` with
the scan at the end; every `RollEvery`-th tick (ten in the code) goes on to `RollUp`, one
query and one commit for each timeframe. Any commit may fail: in a tick the rest of it is
lost, in a rollup the rest of the timeframes, in the embedded service and in the stream's
handler of a lost connection the task itself, for good. A start, and every `NewsEvery`-th
tick, runs a news cycle before the rollup; the embedded service runs one between two
refreshes. `News` passes over feeds that do not answer and looks a title up and stores it
in two steps, between which the other process may store the same one. What comes from
outside in a behaviour is `supply`: how many quotes at most, and the titles of each feed.
The scan is `Scanner`'s; here it raises or does not, as its bars and its commits allow.
`Stores` gives a row a time that may be older than its commit, so bars can be completed
out of order. `seen` is a history variable: how many quotes a timeframe's last rollup has
read.

**Desk.** `CIOOrchestrator.handle` gives up the event loop in one place, while it waits
for the CFTC report, but the monitor is another process: each group of reads is a step
(`ReadPrice`, `ReadTechnicals`, `ReadBrain`, `ReadPositioning`, `ReadNews`, then the answer
with the risk snapshot, which is read last), and `StoreQuote`, `StoreNews` and `StoreSnapshot` come in between.
A context is a record of what the code puts in its dictionary, with `NoValue` where it
writes NOT AVAILABLE. `AnswerPipeline` is the specialists, the two gates, the doctrine,
the votes, the plan and the journal row; `AnswerMode`, `AnswerPlaybook`, `AnswerWatch`,
`AnswerMacro`, `AnswerSystem` and `Convene` are the other intents, in the order in
which `handle` tries them; `Persist` is the analysis row and the reply. `Break` is an
exception that leaves `handle`, `Restart` a restart of the API, which forgets the
registry. Numbers are integers: prices in hundredths, scores and ratios multiplied out
or in thousandths; ages of quotes are FRESH, OLD or ANCIENT instead of seconds. The
specialists are total on the contexts the builder makes, so the branch that skips one
that raises is not reached. Of the registry only the entry of the orchestrator is kept.

**OrderBook.** A side is a sequence in the order in which the prices first came, as the
ordered dictionary keeps it. A message is applied level by level with the trim after
each (`Put`), then the metrics are stored (`Measured`). `Query` is the reading that
creates an empty book. `told` is a history variable: the last size told of each price.
Walking, pricing and the strategy change nothing and are operators over the state.

Operators whose name starts with `Slip` are one-line variants of the definition that
follows them, each a bug one could make in that code. No specification uses them: they
are listed as mutants in `PROJECT.json`, and each makes the property named there fail,
which shows that the property is sensitive to the code.

## 3. What the runs check

A run is a module and a `.cfg`. An invariant named `...Inv` is
the type invariant of its module in conjunction with the named state invariants in the
parentheses after it. Bounds are in the guards (`MaxReviews`, `MaxTime`,
`MaxRestarts`, `MaxEvents`, `MaxBars`, `Watches`), never in a state constraint.

| Run | Instance | What it shows |
|---|---|---|
| `risk_engine` | every proposal, book, status and flag of a grid with values on both sides of every limit | approvals fit the caps and the verdict has the shape its readers rely on (`VerdictInv`: `ApprovedTradeFits` and `VerdictOK`), a worse book never helps (`WorseBookNeverHelps`), the traffic light and the verdict agree (`LightAgrees`) |
| `trade_desk` | a buying and a selling idea on one asset, a ticket, two threads, typed sizes, partial fills, two prices of which one cannot be touched, lost answers of Faro, restarts | `RiskGate`, `FilledOnceByHuman`, `FaroOnlyApproved`, `ConfirmedOnce` in every interleaving; `StateIsCurrentVerdict`: an idea has the verdict of its latest review, or of one that overlapped it; `ImplementsGate`: the flow implements `ApprovalGate` |
| `watch_mode` | three watches on a page of two, two evaluations, a cancellation | `WatchInv` (`ConfirmedWasArmed`), `ZoneKept` however stale the rows and whichever the page hides; `ReactionEvidence`, `ForwardAlone` as long as nothing has overlapped |
| `scanner` | one symbol, sweeps on both sides, six readings from one that passes every gate to one that makes it raise, three clock units in two sessions, a restart | `RadarInv` (`OneActiveSweep`), `RowIsEarned`, `HistoryExplainsState`, `NoFlapping` |
| `event_bus` | two processes, two dashboards, four events in a ring of two, a restart | `BusInv` (`BusKeepsOrder`), `DashboardInOrder`; `EventReachesDashboard` under fairness |
| `journal` | six candles of five shapes, two prices, every bias | `JournalInv` (`LongAnswersAgree`), `YesWasNeverStopped` |
| `feeds` | monitor with embedded service, embedded service with stream; one provider, two symbols (one of them for the embedded service), two prices, two quotes, a failing commit, a restart; or two news feeds that share one of two titles | `TablesInv` (`BarsAreOfTheQuotes`: bars against the batch definition `OfQuotes`; `HeadlineOncePerProcess`), `BarsNest`, `AlertSpacing`, `ConnectedHasStored`, `OutageShows`; `QuotesReachTheBars` under fairness |
| `desk` | twelve markets of four classes by eight quote histories by eight combinations of news and light, one question of fourteen; and two questions at once with a writing monitor, failing commits, a restart | `PlanIsWarranted`, `WorseInputNeverMakesAPlan`, `JournalTellsTheReply`, `AnswersInv` (`RowsOfAnswers`), `TwoAuditsAgree`, `ConsensusFair`, `PoolsApart`; `EveryQuestionAnswered` under fairness |
| `order_book` | one token, four prices (one of 0), sizes 0 and 2, every message of up to two levels, a depth of two, one clock unit | `BookInv` (`BookIsTheBestToldOf`, `MetricsOfTheLevels`, `OpportunityHasASpread`, `AskingIsNotHearing`), `WalkFillsTheDepth` |

Why these bounds are enough: two threads on one idea, and on two, are what a request
that overtakes another needs, and two reviews of each idea what it takes to leave the
older of two overlapping verdicts behind (without the case of the overlap in
`StateIsCurrentVerdict` the run fails); with a notional of the whole equity for each idea
the second approval meets the single-asset cap, so both APPROVED and REDUCE_SIZE occur.
More tickets are left to the proofs. A watch's life is three states, a second row and a second
evaluation give every overwrite, and a third row is one more than the page holds, so
that the oldest is hidden and comes back when a newer one leaves. The scanner's clock covers a whole cooldown,
two heartbeats and a change of session. The bus instance overflows its ring twice.
Six candles exceed the horizon of three, so windows slide, and runs of the price are
far enough to reach target and stop. In `feeds` two quotes fill a bucket twice and in
either order, two clock units give two buckets of the finest frame in one of the next,
and every tick in two rolls up, after a news cycle; the fault can hit any commit: that of a quote, an alert, a source row, a timeframe
of a rollup, or the one that ends a task. The
wide worlds of `desk` answer one question on a still market with each gate open and
closed; the narrow ones give two questions up to three stored rows between their reads.
In `order_book` three positive prices on a side of two make every trim and every return of a
trimmed price.

CHECK_DEADLOCK is off where the instance really ends: a bounded number of events or
candles, questions that are all answered, dashboards that all left, or two tasks of the
API that died (`feeds`: nothing starts them again).

Symmetry is used in `trade_desk` (its threads) and `watch_mode` (its evaluations), which check
no liveness.

**Fairness.** `TradeDesk` assumes none and claims no liveness. Nothing in the
code schedules an evaluation of watches, so `WatchMode!Spec` has no fairness and no liveness
is claimed; `WatchMode!FairSpec`, in which requests to evaluate keep coming, is there for the
claim of section 4 alone, which fails even so. `Scanner` claims none.
`EventBus!FairSpec`: the dispatch task and each websocket handler run; connecting,
publishing and leaving are free. `Feeds!FairSpec`: the monitor goes on, since its
heartbeat is a sleep that ends and its requests have timeouts; nothing makes a market
move, a feed answer or a process stop. `QuotesReachTheBars` has the condition that the
scans stop raising, which the code does not guarantee (section 4). `Desk!Spec`: a
handler that can go on does (`Moves`), and the CFTC request ends, in a report or in its
timeout. `OrderBook` claims no liveness.

## 4. Where the code and its documentation part

Each of these is a run named `claim_<property>` whose single property states what a
comment says, and which TLC violates by a behaviour of the code.

| Property | Claim | Behaviour |
|---|---|---|
| `NoFillOnExpiredQuote` | execution/paper.py:37, the caller checks for staleness | the caller looks at nothing; only a stored STALE status is refused |
| `EveryActiveWatchAdvances` | desk/watch.py:57, every active watch is advanced | watch.py:68 loads the 50 newest active ones: while these stay active, an older one is never looked at, however often evaluations are asked for and although its price is in its zone (the run has a page of one and two watches) |
| `FallingMarketProvesShort` | desk/journal.py:61-62 | the excursions of a short have the wrong sign |

Other divergences met while modelling, kept by the models as the code has them and
not given a run of their own:

- `core/risk/engine.py:176`: a capped size is reduced by the room under the daily cap
  only, so over an exposure cap it can be the full size (engine.py:9-10 speaks of a
  fitting fraction).
- `core/risk/engine.py:152`: caps return before timing is looked at, so a pending
  event does not make a capped proposal WAIT (engine.py:11).
- `core/risk/engine.py:35`: the minimum reward:risk is 1.0; README.md:29-30 says 1:2.
- `routers/orders.py:156`: a ticket goes from AWAITING_HUMAN_CONFIRMATION to FILLED in
  one stored step, which `TRANSITIONS` does not list (execution/models.py:25).
- `routers/orders.py:113-195`: a veto after the ticket was issued does not stop its
  fill (README.md:42-43).
- `routers/orders.py:144-152`: a ticket that could not be filled is SUBMITTED without
  its human or an audit row (ARCHITECTURE.md:12-13 and 84), and nothing moves it on
  (paper.py:59).
- `routers/ideas.py:172-187`: a signal is delivered before its audit row is committed.
- `core/desk/watch.py:87`: an evaluation that loaded a watch before it was cancelled
  revives it (no route cancels yet).
- `core/scanner/service.py:401-411`: an expiry leaves `ts` alone, so the cooldown counts
  from the last write (service.py:349 says after expiry).
- `core/events/bus.py:94`: each process has a bus of its own; bus.py:3 calls one
  sufficient for API and monitor on one host.
- `core/desk/journal.py:70-73`: the latest candles judge a decision, the ones before it
  included (memory/models.py:502-504 says later candles).

- `core/desk/watch.py:90`: the slower of two overlapping evaluations writes an older
  state and arms a confirmed watch again (watch.py:5 gives the order of the states).

In the scanner and the feeds:

- `core/setups/quality.py:63`: for a symbol without a sweep the gate takes the float of
  a missing reward:risk and raises. `scan_once` (scanner/service.py:111) stops there,
  so the symbols after it are not scanned (service.py:1 calls the scanner always-on),
  and the tick's rollup, news and CFTC cycles are skipped. A symbol reaches that gate
  once it has five H1 bars; if it then has no sweep the rollup stops, and with it what
  could change the scan, until the monitor is restarted.
- `apps/api/background.py:87`, `polymarket_ws.py:150`: both data tasks of the API can
  end silently. The health entry `api.embedded_data` is HEALTHY as long as anybody
  stores quotes (routers/system.py:100).
- `polymarket_ws.py`: a stream cancelled with the API leaves its row CONNECTED.
- `providers/news/rss.py:109`: the docstring tells headlines apart by title and source, the
  lookup by title alone, so a headline that several feeds carry belongs to the first
  symbol only; and two processes that look before either stores both keep it.
- `core/memory/candles.py:89`: open and volume of a bar stay as first stored.

In the desk:

- `core/playbooks/gold.py` and `xrp.py` call `to_dict` on a dictionary: with five bars or
  more every playbook question fails, unless its technicals raised. `core/desk/cio.py:622-629` unpacks single values
  as pairs: with a quote in the table every system question fails.
- The direction of a plan comes from the specialists' votes, not from the doctrine's
  bias, and the reward:risk that passes the 2:1 rule may be that of the other direction.
- A specialist's confidence drops for readings that are there, so an answer without
  bars can be surer than one with them (desk/specialists.py:66; line 5 says missing
  inputs degrade the opinion).
- A quote without bid and ask turns the liquidity analyst's REJECT of a wide spread
  into a caution.
- The monitor writes GREEN_LIGHT and CAUTION only; the desk's RED_LIGHT gate waits for a
  row nobody writes. The quant's HIGH_VOLATILITY branch, an overall VERIFIED audit and STRONG
  SELL cannot occur either (the liquidity voice is never short).
- The audit stamps its sources with the current time, so a stale quote is VERIFIED; a
  stale primary hides any divergence (reconciliation.py); "DIVERGENT block applies"
  blocks nothing.
- DAILY_CLOSE shows the oldest of the last six entries; the target labelled 1.5R is 2R.

In the order book (which no app uses yet):

- Prices are never removed except by the trim: a level of size 0 stays, the best bid
  never falls and the best ask never rises (orderbook/__init__.py:161-194).
- `parse_ws_message` sorts asks from the highest down too, and the dictionary keeps that
  order, so a walk over asks starts at the worst price (executable/__init__.py:7 says
  "fills from best price down").
- `combined_yes_no_cost` prices both legs on the book of a token called UNKNOWN; an
  empty message makes a book fresh; a stale book is priced like a fresh one;
  `depth_walked` is overwritten.

When two reviews of one idea overlap, the last commit wins whatever it read:
`StateIsCurrentVerdict` allows that and no more. A verdict of a review that had ended before
the latest one began is never what the idea is left with.
`ReactionEvidence` and `ForwardAlone` hold until two evaluations, or an evaluation and a
cancellation, overlap; the history variable `alone` of `WatchMode` records that.

## 5. What is proved

The proofs assume nothing but the `ASSUME`s of the modules about their constants, which
TLC evaluates for every instance.

**`TradeDeskProofs`, the risk engine**, for all limits, books and proposals with integer
figures.
`EvaluateType` (every verdict is well formed) and `ApprovalKeepsLimits` (an approval is
within every limit) open `Evaluate` one early return at a time. Of `RiskReview`:

- `VerdictsAreSound`: `ReviewSpec => []VerdictInv`.
- `WorseBooksNeverHelp`: `ReviewSpec => []WorseBookNeverHelps`. Two evaluations are
  compared, so the heart of it is that the capped size is monotone in the room that is
  left, although it is rounded to the nearest lot (`RoundedFraction` and the lemmas on
  division before it).
- `LightsAgree`: `ReviewSpec => []LightAgrees`, for limits with
  `10 * perTrade <= 4 * daily`, which those of the code meet (1% of 3%): the light turns
  to CAUTION by the share of the daily risk that is used, the verdict by the room for one
  trade, and with other limits the two do part.

`CallInv`, that the verdict of a call is the one `Evaluate` gives for its arguments, is
all they need of the behaviour.

**`TradeDeskProofs`, the trade flow**, for any set of ideas, tickets, threads and quotes.

- `TypeCorrect`: `Spec => []TypeOK`. `TypeOK` is not inductive by itself: the rows in
  flight carry timestamps, so `Base` adds `Stamps`, that every timestamp in a
  decision or in a request is below the clock.
- `LedgerCorrect`: `Spec => []FilledOnceByHuman`, inductive with `Base`;
  `ConfirmedOnceHolds`: an action property, from `Base`.
- `GateCorrect`: `Spec => []RiskGate`. The strengthening is `GateInv`: an idea in an
  approved state has an approving decision (`IdeaApproved`); so has the idea of a
  ticket request past its check, even if the idea has been rejected since
  (`TicketApproved`); and a decision has a size only if it approves (`SizedIfApproved`,
  from `EvaluateType`).
  Without the second part a review that commits between check and insert would break
  the step. `SizedIfApproved` is what makes the size of an unrelated later verdict
  harmless: a verdict that does not approve has size 0 and the ticket is refused.
- `SignalsCorrect`: `Spec => []FaroOnlyApproved`, with
  `SignalInv`: a request that publishes holds the timestamp of a committed APPROVED
  decision (`PublishesApproval`), what it is about to log as SENT was delivered
  (`SentIsDelivered`), no two requests hold the same timestamp (`OwnStamp`), and one that
  is yet to log finds no line with it (`NotYetLogged`).
- `Refinement`: `Spec => ImplementsGate`: initial states map to
  initial states, and `StepMapped` takes each action to a step of `ApprovalGate` or to a
  stutter; it uses the ledger and gate invariants.
- `StateIsCurrent`: `Spec => []StateIsCurrentVerdict`, for any number of reviews at a time.
  What may go wrong is a commit that skips its write because the state equals the one
  loaded long ago. `ReviewsInv` says of every review in flight (`InTouch`) that its
  timestamp is new, that each decision on its idea is either older or overlapped it, and
  that the idea is still as loaded unless one that overlapped it has written since.

**`WatchModeProofs`**, for any watches, prices, zones and number of evaluations.

- `WatchSafe`: `Spec => []WatchInv`. `ConfirmedWasArmed` is about rows, and what breaks it
  would be a loaded row, so `WatchIInv` adds what loaded rows may be: what an evaluation
  has loaded is not ahead of the row it will overwrite (`LoadedIsPast`), and a row that is
  armed has its evidence (`ArmedIsEvidenced`).
- `ZonesAreKept`: `Spec => ZoneKept`, an action property, from the same invariant: a
  loaded row with a zone implies that the stored one has one.
- `RowsTellWhatWasSeen`: `Spec => []ReactionEvidence`, and `WatchesMoveForward`:
  `Spec => ForwardAlone`. `LoneIInv` says that while nothing has overlapped only one
  evaluation has rows in hand, and they are the rows as stored, each once.

**`ScannerProofs`**, for any watchlist, levels, readings, clocks and cooldowns.

- `OneSweepOnTheRadar`: `Spec => []RadarInv`, and `NothingUnearned`: `Spec => []RowIsEarned`.
  Between the two commits of a scan there may be no active sweep while one is on its way
  (`PendingAlone`), and the row on its way is earned by its own reading (`PendingEarned`).
- `HistoryIsExplained`: `Spec => HistoryExplainsState`, and `ExpiredStaysExpired`:
  `Spec => NoFlapping`, action properties of the same invariant.

**`EventBusProofs`**, for any processes, dashboards, events, ring size and restarts.

- `BusSafe`: `Spec => []BusInv`, and `DashboardsHearInOrder`: `Spec => []DashboardInOrder`.
  `BusIInv` says of every subscription what the dashboard has received and what waits in
  its inbox together: from the point where it joined, all that its bus dispatched, in
  order (`Follows`); where a send failed, one event is missing between the two.
  The lemmas before it are facts about prefixes, suffixes and concatenations.

**`JournalProofs`**, for windows of any length and prices, ranges and targets of any size.

- `JournalKept`: `Spec => []JournalInv`, which is inductive. `LongAnswersAgree` is
  arithmetic about the mean true range, which is a fold: that the sum of the ranges is a
  natural number, and positive where highest and lowest differ, goes by induction over the
  sets of candles, stated with sets (`Induct`, `SumsExist`, `SumsIn`, `FoldIn`) since an
  induction rule with an operator parameter cannot be used.
- `StoppedIsNeverYes`: `Spec => YesWasNeverStopped`, an action property.

**`FeedsProofs`**, for any symbols, routes, intervals, timeframes of which each divides the
next, and any number of quotes, failures and restarts. `FeedsInductive` is
`Spec => []FeedsIInv`, with one part for each owner of state and one lemma for each action.
From it:

- `TablesKept`: `Spec => []TablesInv`, and `FinerBarsNest`: `Spec => BarsNest`. The bars of a
  timeframe are those of the quotes it has read (`BarsAreOfTheQuotes`), so a rollup that
  aggregates all quotes again must find each bar as the batch definition makes it;
  `BarsNest` needs in addition that timeframes are read in order, so that while the last
  one is being read no coarser one is behind a finer (`MonitorInv`).
- `AlertsApart`: `Spec => []AlertSpacing`, with types only: the silence is looked up in the
  table, which is why it survives a restart.
- `OutagesShow`: `Spec => []OutageShows`. The health report goes by the age of the latest
  quote, the stream by its own state; `StreamInv` ties them: nothing the stream stored is
  younger than when it was last open (`Streamed`).
- `ConnectedTellsTheTick`: `Spec => ConnectedHasStored`, an action property. A tick holds a
  provider connected only if it stored one of its quotes (`Answered`), other writers
  append to the same table meanwhile, and `monitor.first` stays within it.
- `HeadlineOncePerProcess`, a part of `TablesInv`, needs that a headline a process holds
  between its look and its insert is not among those it has stored (`Unheld`).

**`OrderBookProofs`**, for any tokens, prices, sizes and depth, and messages and quantities of
any size. A message and a walk are folds over a sequence; each is turned into its partial
results, one for each prefix (`FoldHistory`, and `UpdatedSteps`, `HeardSteps`, `WalkSteps`,
`DepthSteps` for the folds of the module), and the argument goes along the prefixes.

- `BooksAreKept`: `Spec => []BookInv`. That a side is the best of what was told does not
  survive a level by itself: a price that is trimmed must stay beaten. `Shows` says so: a
  price that was told and is not there has a full side of better ones before it.
  `PutShows` keeps that over one level, `MessageShows` over a message, and `BestShown`
  counts: fewer than `MaxDepth` prices are ahead of one that is there, and at least
  `MaxDepth` of one that is not.
- `WalksFillTheDepth`: `Spec => []WalkFillsTheDepth`. After each level a walk holds the
  lesser of the quantity and the depth it has passed (`WalkedTo`), and two walks for
  different quantities go side by side in `WalkWell`, the larger paying no less.

**`DeskProofs`**, for any askers, questions and worlds.

- `PlansAreWarranted`: `Spec => []PlanIsWarranted`. The argument has two halves. What
  a direction implies of the context it was computed from is a lemma of the gates
  alone (`DirectionIsWarranted`: the doctrine's TRADE gives the sweep, the pool, the
  reward:risk and the distance, the vetoes of the quant and the liquidity analyst,
  which every question calls, give quality and spread). That the reply is still the
  answer to the context beside it is the invariant `DeskInv`: nothing has a reply
  before it is answered (`NotYet`), and what is answered is not touched again.
- `JournalIsTrue`: `Spec => []JournalTellsTheReply`, from the same invariant with the
  facts that a cited row exists, that it tells the reply (`Cites`) and that no two
  replies cite one row (`Apart`), for which rows are only ever appended.
- `AnswersKept`: `Spec => []AnswersInv`. `AnswersIInv` adds the types of everything a context
  is computed from; `RowsOfAnswers` is counted, so each action is shown to add to the
  rows what it adds to the log.
- `GatesAreMonotone`: `Spec => []WorseInputNeverMakesAPlan`, and `AuditsAgree`:
  `Spec => []TwoAuditsAgree`, from `RepliesInv`: the plan of a reply is the one its context
  gives, and the states of a debate are verdicts of an audit. The first compares the
  specialists, the gates, the votes and the doctrine on two contexts.
- `ConsensusIsFair`: `Spec => []ConsensusFair`. The sum of a consensus and the two of a
  weighted mean are folds: `SumsExist` and `SumsCompare` go by induction over the sets of
  their elements, for any way of picking the next one. Larger shares make a larger lean,
  opposite shares the opposite one, and `Grades` does the rest on the scale of five.
  `FairInv` adds that a debate convenes on scores that are integers
  (`MomentumType`, `LiquidityType`, `MacroType`), for which the figures of the worlds are
  assumed to be (`FiguresAssumption`).
- `PoolsStayApart`: `Spec => []PoolsApart`, for bars of any integers. Sorting and merging
  are folds: `FoldsExist` solves the recursion of a fold and `FoldPartials` gives its
  partial results, one for each prefix. Insertion keeps a list sorted (`InsertSorts`), so
  a level that is merged is never below the pool it joins, and their average leaves that
  pool no nearer to the one before (`MergeSpaces`). The pools are read against one quote
  and the price of the context is another; a usable ATR is positive (`MeanTrueRangeType`), so the
  tolerance does not depend on the price (`PoolsOfBars`). `PoolInv` adds that a job holds
  no pools before it has read them.

Only model-checked:

- liveness (`EventReachesDashboard`, `QuotesReachTheBars`,
  `EveryQuestionAnswered`): fairness needs ENABLED, for which TLAPS has no rule here;
- the three properties of section 4, which the code does not have.

Modules that are proved about have no RECURSIVE operator.

## 6. What is not modelled

Components with status `not_modelled` in `PROJECT.json` carry the reason. In short:
floating-point statistics and indicators (inputs of the modules that use them), report
texts and translations, network adapters (their results are inputs), settings, secrets
and schema creation, the root-level `main.py`, `background.py` and `config.py` (older
copies), and the web client. The Redis bus, the economic calendar with its scheduler and
the strategies other than the spread are called by tests only; of the calendar it is
worth knowing that seeding one country drops the events of another. In `Desk`
news rows are an input; how they get there is `News`.

Inside modelled components: commissions, the draw of the slippage and log lines; names
and texts are values of small sets; staleness limits are classes of age in `Desk`;
volumes of candles; the bookkeeping of the agents other than the orchestrator.

## 7. Plan

Done: `RiskEngine`, `TradeDesk`, `ApprovalGate` and their proofs; `WatchMode`, `Scanner`,
`EventBus`, `Journal`; `Feeds` with `News`; the desk (`Technicals`, `MarketBrain`, `Doctrine`,
`Specialists`, `Debate`, `Desk`) with its first proofs; `OrderBook`.

Theorems: all safety and action properties that the passing runs check. Liveness stays
with TLC.
