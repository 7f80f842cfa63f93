-------------------------------- MODULE Desk --------------------------------
(***************************************************************************)
(* The desk answers questions: CIOOrchestrator.handle (core/desk/cio.py)   *)
(* with the context it builds (core/desk/context.py), the modes, the       *)
(* playbooks, the debate, and the rows an answer leaves behind.            *)
(*                                                                         *)
(* One event loop serves the askers.  A handler gives the loop up only     *)
(* while it waits for the CFTC report, but the monitor is another process: *)
(* it stores quotes, headlines and snapshots between any two reads.  A     *)
(* step is what one reads or commits together.                             *)
(***************************************************************************)
EXTENDS Specialists, Debate

CONSTANTS
  Askers,       \* requests the desk can be serving at once
  Worlds        \* where a behaviour may start, and its bounds: a set of records
                \* [market, quotes, news, snapshot, asks, left, writes, faults, restarts];
                \* asks holds what may be asked: [words, asset, hint], see Specialists

VARIABLES
  world,        \* [market, news, snapshot, asks, left, writes, faults, restarts, clean]: the
                \* bounds count down, clean is FALSE after the first fault or restart
  quotes,       \* rows of the asset's quotes, oldest first
  job,          \* per asker [pc, q, ctx, reply]
  journal,      \* rows of doctrine_journal, oldest first
  analyses,     \* kinds of the rows of analyses, oldest first
  watches,      \* per row of watch_requests, was its zone derived
  cio,          \* what the registry says of orion-cio
  log           \* kinds of the finished replies (of the proofs, not the code)

QuoteStatus == {"LIVE", "DELAYED", "STALE", "DISCONNECTED", "SIMULATED"}
QuoteRow == [price : Nat, bid : Nat, ask : Nat, status : QuoteStatus, received : {"FRESH", "OLD"},
             source : {"FRESH", "OLD", "ANCIENT"}, provider : STRING]

ASSUME AskersAssumption == IsFiniteSet(Askers)

ASSUME WorldsAssumption ==
  \A w \in Worlds :
    /\ w.quotes \in Seq(QuoteRow) /\ w.market.feeds \subseteq QuoteRow
    /\ {w.left, w.writes, w.faults, w.restarts} \subseteq Nat

ASSUME FiguresAssumption ==
  \A w \in Worlds :
    /\ w.market.roc \in [{10, 20, 50} -> Int] /\ w.news \in {"NONE", "MEDIUM", "HIGH"}
    /\ w.market.macro \in [dxy : Int, us10y : Int, vix : Int, spx : Int]
    /\ {w.market.relVolume, w.market.contraction} \subseteq Int
    /\ w.market.bars \in Seq([at : Int, open : Int, high : Int, low : Int, close : Int])

vars == <<world, quotes, job, journal, analyses, watches, cio, log>>

-----------------------------------------------------------------------------
Market == world.market

NoQuote == [price |-> NoValue, bid |-> NoValue, ask |-> NoValue, status |-> "NONE",
            received |-> "OLD", source |-> "ANCIENT", provider |-> "none"]
Latest == IF quotes = <<>> THEN NoQuote ELSE Last(quotes)

(* The symbols a stored quote verifies; SCOPE is the asset itself. *)
Stored == Market.listed \cup (IF quotes = <<>> THEN {} ELSE {"SCOPE"})

Blank ==
  [price |-> NoValue, status |-> "NONE", bid |-> NoValue, ask |-> NoValue, bars |-> 0,
   hi |-> NoValue, lo |-> NoValue, atr |-> NoValue, mapped |-> FALSE, buy |-> {}, sell |-> {},
   swept |-> FALSE, zone |-> NoValue, regime |-> "INSUFFICIENT_DATA", vol |-> "NORMAL",
   riskMode |-> "RISK_ON", momentum |-> NoValue, liquidity |-> NoValue, macro |-> NoValue,
   quality |-> 0, rhos |-> <<>>, cot |-> NoValue, share |-> 0, news |-> "NONE",
   snapshot |-> "NONE", vix |-> NoValue, active |-> {}]

NoReply == [kind |-> "NONE", bias |-> "NONE", conf |-> "LOW", plan |-> "NONE", gaps |-> {},
            cited |-> {}, entry |-> 0, expected |-> "NONE", voices |-> <<>>, audit |-> {},
            discrepancy |-> FALSE]
Reply(kind) == [NoReply EXCEPT !.kind = kind]

Nobody == [pc |-> "idle", q |-> [words |-> {}, asset |-> "none", hint |-> "none"],
           ctx |-> Blank, reply |-> NoReply]

Init ==
  /\ \E w \in Worlds :
       /\ world = [market |-> w.market, news |-> w.news, snapshot |-> w.snapshot,
                   asks |-> w.asks, left |-> w.left, writes |-> w.writes, faults |-> w.faults, restarts |-> w.restarts,
                   clean |-> TRUE]
       /\ quotes = w.quotes
  /\ job = [a \in Askers |-> Nobody]
  /\ journal = <<>> /\ analyses = <<>> /\ watches = <<>> /\ log = <<>>
  /\ cio = "NEVER_RUN"

-----------------------------------------------------------------------------
(* The class of the asset a question ends up with; the modes, the watch and
   the debate fall back on gold, the pipeline on the default of the class. *)
AssetClass(q) ==
  CASE Intent(q) = "XRP_PLAYBOOK" -> "crypto"
    [] Intent(q) \in Modes \cup {"WATCH", "DESK_DEBATE", "GOLD_PLAYBOOK"} /\ q.asset = "none" ->
         "metal"
    [] OTHER -> ClassAsked(q)

FirstStep(q) ==
  CASE Intent(q) = "SYSTEM" -> "system"
    [] Intent(q) = "DESK_DEBATE" -> "debate"
    [] Piped(q) /\ AssetClass(q) = "none" -> "macro"
    [] OTHER -> "price"

(* The loop is free for a when no other handler is between two of its reads. *)
Waiting == {"idle", "done", "system", "debate", "macro", "price", "cftc"}
Turn(a) == \A b \in Askers \ {a} : job[b].pc \in Waiting

At(a, pc) == job[a].pc = pc /\ Turn(a)
Goes(a, pc, ctx) == job' = [job EXCEPT ![a].pc = pc, ![a].ctx = ctx]
Replies(a, pc, ctx, reply) ==
  job' = [job EXCEPT ![a].pc = pc, ![a].ctx = ctx, ![a].reply = reply]

Ask(a) ==
  /\ job[a].pc \in {"idle", "done"} /\ world.left > 0
  /\ \E q \in world.asks :
       /\ Intent(q) = "SYSTEM" \/ AssetClass(q) \in {"none", Market.class}
       /\ job' = [job EXCEPT ![a] = [Nobody EXCEPT !.pc = FirstStep(q), !.q = q]]
  /\ world' = [world EXCEPT !.left = @ - 1]
  /\ UNCHANGED <<quotes, journal, analyses, watches, cio, log>>

-----------------------------------------------------------------------------
(* ContextBuilder.build.  First the price block and the candle summary. *)
StatusOf(quote) ==
  IF quote.status = "LIVE" /\ quote.received = "OLD" THEN "STALE" ELSE quote.status

EnoughBars == Len(Market.bars) >= 5

ReadPrice(a) ==
  /\ At(a, "price")
  /\ LET quote == Latest
         recent == Bars(LastOf(Market.bars, 20))
     IN Goes(a, "technicals",
             [Blank EXCEPT !.price = quote.price, !.status = StatusOf(quote),
                           !.bid = quote.bid, !.ask = quote.ask,
                           !.bars = Len(Market.bars),
                           !.hi = IF EnoughBars THEN HighOf(recent) ELSE NoValue,
                           !.lo = IF EnoughBars THEN LowOf(recent) ELSE NoValue,
                           !.atr = IF EnoughBars THEN MeanTrueRange(Market.bars) ELSE NoValue])
  /\ UNCHANGED <<world, quotes, journal, analyses, watches, cio, log>>

(* _technicals reads the latest quote again and splits the pools by it. *)
ReadTechnicals(a) ==
  /\ At(a, "technicals")
  /\ LET ctx == job[a].ctx
         price == Latest.price
         pools == Pools(Market.bars, price, SessionLevels(Market.bars, Market.now), ctx.atr)
     IN Goes(a, "brain",
             IF EnoughBars
             THEN [ctx EXCEPT !.mapped = TRUE, !.buy = BuySide(pools, price),
                              !.sell = SellSide(pools, price),
                              !.swept = Swept(Market.bars, pools),
                              !.zone = ReactionZone(Market.bars, ctx.atr)]
             ELSE ctx)
  /\ UNCHANGED <<world, quotes, journal, analyses, watches, cio, log>>

(* MarketBrain.build reads it a third time; then correlations and extras,
   and the handler waits for the CFTC report. *)
ReadBrain(a) ==
  /\ At(a, "brain")
  /\ LET ms == MarketState(Market, Latest)
     IN Goes(a, "cftc",
             [job[a].ctx EXCEPT !.regime = ms.regime, !.vol = ms.vol, !.riskMode = ms.riskMode,
                                !.momentum = ms.momentum, !.liquidity = ms.liquidity,
                                !.macro = ms.macro, !.quality = ms.quality,
                                !.rhos = Market.rhos, !.vix = Market.vix])
  /\ UNCHANGED <<world, quotes, journal, analyses, watches, cio, log>>

(* Slip: a request that fails is waited for. *)
SlipReports(market) == IF Known(market.cot) THEN {[net |-> market.cot, share |-> market.share]} ELSE {}

(* What _cftc_block can come back with: a report, if the asset has one, or
   nothing (no mapping, no rows, a request that fails or times out). *)
NoReport == [net |-> NoValue, share |-> 0]
Reports(market) ==
  {NoReport} \cup (IF Known(market.cot) THEN {[net |-> market.cot, share |-> market.share]} ELSE {})

ReadPositioning(a) ==
  /\ At(a, "cftc")
  /\ \E r \in Reports(Market) :
       Goes(a, "headlines", [job[a].ctx EXCEPT !.cot = r.net, !.share = r.share])
  /\ UNCHANGED <<world, quotes, journal, analyses, watches, cio, log>>

ReadNews(a) ==
  /\ At(a, "headlines")
  /\ Goes(a, "report", [job[a].ctx EXCEPT !.news = world.news])
  /\ UNCHANGED <<world, quotes, journal, analyses, watches, cio, log>>

(* desk_clock, on the hour. *)
Active(now) ==
  LET h == now % 24
  IN  {s \in {"ASIA", "LONDON", "NEW_YORK", "COMEX"} :
         CASE s = "ASIA" -> h < 8 [] s = "LONDON" -> h \in 8 .. 15
           [] s = "NEW_YORK" -> h \in 14 .. 19 [] s = "COMEX" -> h \in 14 .. 18}

(* What is read last: the risk snapshot and the clock. *)
Completed(ctx) == [ctx EXCEPT !.snapshot = world.snapshot, !.active = Active(Market.now)]

-----------------------------------------------------------------------------
(* A commit that fails costs one of the faults the world has left. *)
Commits(ok) ==
  /\ ok \/ world.faults > 0
  /\ world' = IF ok THEN world ELSE [world EXCEPT !.faults = @ - 1, !.clean = FALSE]

(* Slip: the row number is returned although nothing was stored. *)
SlipEntryNumber(ok) == Len(journal) + 1

(* record_decision returns the id of its row, or None. *)
EntryNumber(ok) == IF ok THEN Len(journal) + 1 ELSE 0

(* Slip: the doctrine's decision is recorded, whatever the gate says. *)
SlipJournalRow(ctx, ops) ==
  [bias |-> Bias(ctx, ops), decision |-> Decide(ctx), price |-> ctx.price, risk |-> ctx.snapshot,
   score |-> BiasScore(ctx), points |-> TradeQuality(ctx)]

JournalRow(ctx, ops) ==
  [bias |-> Bias(ctx, ops),
   decision |-> IF Blocked(ctx, ops) THEN "NO_TRADE" ELSE Decide(ctx),
   price |-> ctx.price, risk |-> ctx.snapshot,
   score |-> BiasScore(ctx), points |-> TradeQuality(ctx)]

(* _run_pipeline, from the context to the reply and its journal row. *)
AnswerPipeline(a) ==
  /\ At(a, "report") /\ Piped(job[a].q)
  /\ LET ctx == Completed(job[a].ctx)
         ops == Opinions(AgentsFor(job[a].q), ctx)
     IN \E ok \in BOOLEAN :
          /\ Commits(ok)
          /\ Replies(a, "persist", ctx,
                     [Reply("READ") EXCEPT !.bias = Bias(ctx, ops), !.conf = Confidence(ctx, ops),
                                           !.plan = Plan(ctx, ops), !.gaps = Gaps(ctx),
                                           !.cited = Sources(ctx), !.entry = EntryNumber(ok)])
          /\ journal' = IF ok THEN Append(journal, JournalRow(ctx, ops)) ELSE journal
  /\ UNCHANGED <<quotes, analyses, watches, cio, log>>

(* _run_mode: a brief, kept as a row of its own; a daily close quotes the
   oldest of the last six readings. *)
Readings6 == LastOf(SelectSeq(analyses, LAMBDA k : k # "cio_brief"), 6)

AnswerMode(a) ==
  /\ At(a, "report") /\ Intent(job[a].q) \in Modes
  /\ \E ok \in BOOLEAN :
       /\ Commits(ok)
       /\ analyses' = IF ok THEN Append(analyses, "cio_brief") ELSE analyses
  /\ LET ctx == Completed(job[a].ctx)
     IN Replies(a, "persist", ctx,
          [Reply("MODE") EXCEPT !.expected =
             IF Intent(job[a].q) = "DAILY_CLOSE" /\ Readings6 # <<>> THEN Head(Readings6) ELSE "NONE"])
  /\ UNCHANGED <<quotes, journal, watches, cio, log>>

(* handle's except clause. *)
Fails(a) ==
  /\ Replies(a, "done", job[a].ctx, Reply("FAILED"))
  /\ cio' = "DEGRADED"
  /\ log' = Append(log, "FAILED")

(* A playbook is rendered from a session map that is a plain dict by then, so
   rendering raises as soon as there is one: whenever there are bars enough,
   unless the technicals failed. *)
Renders(ctx) == ~ctx.mapped

AnswerPlaybook(a) ==
  /\ At(a, "report") /\ Intent(job[a].q) \in Playbooks
  /\ IF Renders(job[a].ctx)
     THEN /\ Replies(a, "persist", Completed(job[a].ctx), Reply("PLAYBOOK"))
          /\ UNCHANGED <<cio, log>>
     ELSE Fails(a)
  /\ UNCHANGED <<world, quotes, journal, analyses, watches>>

(* _run_watch: the zone of the context becomes the zone of a new watch. *)
AnswerWatch(a) ==
  /\ At(a, "report") /\ Intent(job[a].q) = "WATCH"
  /\ watches' = Append(watches, Known(job[a].ctx.zone))
  /\ Replies(a, "persist", Completed(job[a].ctx), Reply("WATCH"))
  /\ UNCHANGED <<world, quotes, journal, analyses, cio, log>>

(* DeskDebateEngine.convene: the brain's state, then everything else and the
   row of the debate. *)
DebateRead(a) ==
  /\ At(a, "debate")
  /\ LET ms == MarketState(Market, Latest)
     IN Goes(a, "convene", [Blank EXCEPT !.regime = ms.regime, !.vol = ms.vol,
               !.riskMode = ms.riskMode, !.momentum = ms.momentum, !.liquidity = ms.liquidity,
               !.macro = ms.macro, !.quality = ms.quality])
  /\ UNCHANGED <<world, quotes, journal, analyses, watches, cio, log>>

(* _run_debate: what the reply tells of the debate. *)
DebateReply(ms) ==
  LET voices == Voices(Market, ms, world.news)
      states == Audit(Market, ms, world.news, Stored)
  IN  [Reply("DEBATE") EXCEPT !.bias = Label(Market.class, voices),
         !.conf = AgreementConfidence(Market.class, voices), !.voices = voices,
         !.audit = {states[v] : v \in DOMAIN states},
         !.discrepancy = Discrepancy(quotes)]

(* _persist, in the same transaction as the opinions of the voices. *)
KeepDebate == analyses' = Append(analyses, "debate")

Convene(a) ==
  /\ At(a, "convene")
  /\ Replies(a, "persist", [job[a].ctx EXCEPT !.snapshot = world.snapshot],
             DebateReply(job[a].ctx))
  /\ KeepDebate
  /\ UNCHANGED <<world, quotes, journal, watches, cio, log>>

(* _macro_only_reply counts the quotes; _system_report takes the rows of a
   two-column query for pairs, and they are single values. *)
AnswerMacro(a) ==
  /\ At(a, "macro")
  /\ Replies(a, "persist", Blank, Reply("MACRO"))
  /\ UNCHANGED <<world, quotes, journal, analyses, watches, cio, log>>

AnswerSystem(a) ==
  /\ At(a, "system")
  /\ IF Stored = {}
     THEN Replies(a, "persist", Blank, Reply("SYSTEM")) /\ UNCHANGED <<cio, log>>
     ELSE Fails(a)
  /\ UNCHANGED <<world, quotes, journal, analyses, watches>>

(* Slip: a watch is an answer like any other. *)
SlipUnkept == {"SYSTEM"}

(* The answers _persist_analysis keeps no row of. *)
Unkept == {"SYSTEM", "WATCH"}

(* handle: record_run, _persist_analysis (whose failure is swallowed), and
   the reply goes out. *)
Persist(a) ==
  /\ At(a, "persist")
  /\ \E ok \in BOOLEAN :
       /\ Commits(ok)
       /\ IF job[a].reply.kind \in Unkept THEN ok /\ UNCHANGED analyses
          ELSE analyses' = IF ok THEN Append(analyses, "cio") ELSE analyses
  /\ job' = [job EXCEPT ![a].pc = "done"]
  /\ cio' = "READY"
  /\ log' = Append(log, job[a].reply.kind)
  /\ UNCHANGED <<quotes, journal, watches>>

-----------------------------------------------------------------------------
(* A database call of a handler raises.  The technicals and the zone of a
   watch do without; everywhere else the answer is FAILED. *)
Break(a) ==
  /\ world.faults > 0 /\ Turn(a)
  /\ job[a].pc \in {"system", "debate", "convene", "macro", "price", "technicals", "brain",
                    "headlines", "report"}
  /\ world' = [world EXCEPT !.faults = @ - 1, !.clean = FALSE]
  /\ LET watch == Intent(job[a].q) = "WATCH"
         pc == job[a].pc
     IN \/ pc = "technicals" /\ Goes(a, "brain", job[a].ctx) /\ UNCHANGED <<cio, log>>
        \/ watch /\ pc \in {"price", "brain", "headlines", "report"}
             /\ Goes(a, "report", Blank) /\ UNCHANGED <<cio, log>>
        \/ pc # "technicals" /\ ~(watch /\ pc \in {"price", "brain", "headlines"}) /\ Fails(a)
  /\ UNCHANGED <<quotes, journal, analyses, watches>>

(* The API process restarts: handlers and the registry are gone. *)
Restart ==
  /\ world.restarts > 0
  /\ world' = [world EXCEPT !.restarts = @ - 1, !.clean = FALSE]
  /\ job' = [a \in Askers |-> Nobody]
  /\ cio' = "NEVER_RUN"
  /\ UNCHANGED <<quotes, journal, analyses, watches, log>>

(* The monitor, and time. *)
Writes == world.writes > 0 /\ UNCHANGED <<job, journal, analyses, watches, cio, log>>

StoreQuote ==
  /\ Writes
  /\ \E q \in Market.feeds : quotes' = Append(quotes, q)
  /\ world' = [world EXCEPT !.writes = @ - 1]

QuoteAges ==
  /\ Writes /\ quotes # <<>> /\ Last(quotes).source # "ANCIENT"
  /\ quotes' = [i \in DOMAIN quotes |->
                  [quotes[i] EXCEPT !.received = "OLD",
                                    !.source = IF @ = "FRESH" THEN "OLD" ELSE "ANCIENT"]]
  /\ world' = [world EXCEPT !.writes = @ - 1]

StoreNews ==
  /\ Writes
  /\ \E n \in {"MEDIUM", "HIGH"} \ {world.news} :
       world' = [world EXCEPT !.writes = @ - 1, !.news = n]
  /\ UNCHANGED quotes

StoreSnapshot ==
  /\ Writes
  /\ \E s \in {"GREEN_LIGHT", "CAUTION"} \ {world.snapshot} :
       world' = [world EXCEPT !.writes = @ - 1, !.snapshot = s]
  /\ UNCHANGED quotes

Monitor == StoreQuote \/ QuoteAges \/ StoreNews \/ StoreSnapshot

Handler(a) ==
  \/ ReadPrice(a) \/ ReadTechnicals(a) \/ ReadBrain(a) \/ ReadPositioning(a) \/ ReadNews(a)
  \/ AnswerPipeline(a) \/ AnswerMode(a) \/ AnswerPlaybook(a) \/ AnswerWatch(a)
  \/ DebateRead(a) \/ Convene(a) \/ AnswerMacro(a) \/ AnswerSystem(a) \/ Persist(a)

Next == Monitor \/ Restart \/ \E a \in Askers : Ask(a) \/ Break(a) \/ Handler(a)

(* The event loop runs every handler that can go on: weak fairness of
   Handler(a), with its ENABLED and its effect written out (a Turn, and a
   report or the lack of one at the end of the wait; pc moves). *)
CanGoOn(a) ==
  /\ job[a].pc \notin {"idle", "done"} /\ Turn(a)
  /\ job[a].pc = "cftc" => Reports(Market) # {}
Moves(a) == job'[a].pc # job[a].pc

Fairness == \A a \in Askers : []<>~CanGoOn(a) \/ []<><<Moves(a)>>_job

Spec == Init /\ [][Next]_vars /\ Fairness

-----------------------------------------------------------------------------
Directions == {"BUY", "SELL"}
Read(a) == job[a].reply.kind = "READ"

(* Every variable has its type; the journal row a reply cites exists. *)
TypeOK ==
  /\ \A a \in Askers :
       /\ job[a].pc \in Waiting \cup {"technicals", "brain", "headlines", "report", "convene", "persist"}
       /\ job[a].ctx.status \in QuoteStatus \cup {"NONE"}
       /\ job[a].reply.conf \in DOMAIN Rank
       /\ job[a].reply.entry \in 0 .. Len(journal)
       /\ job[a].reply.plan \in Directions \cup {"NONE", "WAIT", "NO TRADE"}
  /\ ToSet(analyses) \subseteq {"cio", "cio_brief", "debate"}
  /\ cio \in {"NEVER_RUN", "READY", "DEGRADED"}
  /\ world.left >= 0 /\ world.writes >= 0 /\ world.faults >= 0 /\ world.restarts >= 0

(* The no-trade conditions the desk prints before London (core/desk/modes.py,
   NO-TRADE CONDITIONS) hold of every plan with a direction, although the
   price, the pools and the quality come from three reads of the quote: no
   stale quote or wide spread, no level without a reaction, no R:R below 2:1,
   no chase beyond 2 ATR, no veto. *)
Warranted(ctx) ==
  /\ Known(ctx.price) /\ ctx.status \notin {"STALE", "DISCONNECTED"}
  /\ Known(ctx.bid) /\ Known(ctx.ask) /\ ctx.ask > ctx.bid => SpreadBelow(ctx, 20)
  /\ ctx.swept /\ ctx.buy \cup ctx.sell # {}
  /\ \E rr \in RewardRisks(ctx) : ~(rr[1] < 2 * rr[2])
  /\ ~Chasing(ctx)
  /\ ctx.snapshot # "RED_LIGHT" /\ ~(ctx.quality < 400)

PlanIsWarranted ==
  \A a \in Askers : job[a].reply.plan \in Directions => Warranted(job[a].ctx)

(* The gates are monotone: with an older quote, a wider spread, worse data or
   a darker light, an answer without a direction gets none, and one with a
   direction keeps it or loses it. *)
Worse(ctx) ==
  {[ctx EXCEPT !.status = "STALE"], [ctx EXCEPT !.quality = 0],
   [ctx EXCEPT !.snapshot = "RED_LIGHT"]}
  \cup (IF ctx.snapshot = "GREEN_LIGHT" THEN {[ctx EXCEPT !.snapshot = "CAUTION"]} ELSE {})
  \cup (IF Known(ctx.bid) /\ Known(ctx.ask) /\ ctx.ask > ctx.bid /\ Known(ctx.ask + 40)
        THEN {[ctx EXCEPT !.ask = @ + 40]} ELSE {})

WorseInputNeverMakesAPlan ==
  \A a \in Askers : Read(a) /\ job[a].pc = "persist" =>
    \A ctx \in Worse(job[a].ctx) :
      LET plan == Plan(ctx, Opinions(AgentsFor(job[a].q), ctx))
      IN  plan \in Directions => plan = job[a].reply.plan

(* The journal and the reply are written in different places and tell the
   same story, whoever else was being served: a plan with a direction is a
   TRADE of that side at that price, a veto is a NO_TRADE, and no two answers
   share a row. *)
JournalTellsTheReply ==
  \A a \in Askers : Read(a) /\ job[a].reply.entry # 0 =>
    LET row == journal[job[a].reply.entry]
        plan == job[a].reply.plan
    IN  /\ plan \in Directions =>
             row.decision = "TRADE" /\ row.price = job[a].ctx.price
             /\ row.bias = (IF plan = "BUY" THEN "LONG" ELSE "SHORT")
        /\ plan = "NO TRADE" => row.decision = "NO_TRADE" /\ row.bias = "WAIT"
        /\ row.decision = "TRADE" => plan # "NO TRADE" /\ row.risk # "RED_LIGHT"
        /\ \A b \in Askers \ {a} : Read(b) => job[b].reply.entry # job[a].reply.entry

(* An answer and its rows: a debate that was answered was stored, a failed
   question leaves no answer behind, and while nothing has failed or
   restarted the tables hold exactly one row for each thing answered. *)
Kinds(s, K) == Cardinality({i \in DOMAIN s : s[i] \in K})
Pending(K) == Cardinality({a \in Askers : job[a].pc = "persist" /\ job[a].reply.kind \in K})

RowsOfAnswers ==
  LET due(K) == Kinds(log, K) + Pending(K)
  IN  /\ due({"DEBATE"}) <= Kinds(analyses, {"debate"})
      /\ Kinds(analyses, {"cio"}) <= Kinds(log, {"READ", "MODE", "PLAYBOOK", "DEBATE", "MACRO"})
      /\ world.clean =>
                  /\ due({"READ"}) = Len(journal)
                  /\ due({"MODE"}) = Kinds(analyses, {"cio_brief"})
                  /\ due({"DEBATE"}) = Kinds(analyses, {"debate"})
                  /\ due({"WATCH"}) = Len(watches)
                  /\ Kinds(log, {"READ", "MODE", "PLAYBOOK", "DEBATE", "MACRO"})
                       = Kinds(analyses, {"cio"})

(* The overall verdict of a debate is the same from both ends of the scale
   (engine.py and verifier.py each have their own), and a clean one means
   that every voice was verified. *)
TwoAuditsAgree ==
  \A a \in Askers : job[a].reply.kind = "DEBATE" =>
    LET states == job[a].reply.audit
        overall == WorstState(states, job[a].reply.discrepancy)
    IN  /\ overall = OverallState(states, job[a].reply.discrepancy)
        /\ overall = "VERIFIED" => states = {"VERIFIED"}

(* The consensus takes no side: with every voice turned round it says the
   opposite with the same force, and a voice that turns long, or grows louder
   while it is, never makes the desk more bearish. *)
Labels == <<"STRONG SELL BIAS", "SELL BIAS", "NEUTRAL", "BUY BIAS", "STRONG BUY BIAS">>
Turned(v) == [v EXCEPT !.bias = CASE @ = "LONG" -> "SHORT" [] @ = "SHORT" -> "LONG" [] OTHER -> @]

ConsensusFair ==
  \A a \in Askers : job[a].reply.kind = "DEBATE" /\ job[a].pc = "persist" =>
    LET class == Market.class
        voices == job[a].reply.voices
        at == Position(Labels, Label(class, voices))
    IN  /\ Position(Labels, Label(class, [i \in DOMAIN voices |-> Turned(voices[i])])) = 6 - at
        /\ \A i \in DOMAIN voices : \A more \in {0, 20000} :
             Position(Labels, Label(class, [voices EXCEPT ![i].bias = "LONG",
                                                          ![i].strength = @ + more])) >= at

(* Pools closer than the tolerance are one pool, so no target and no stop is
   a level the desk holds for the same as another. *)
PoolsApart ==
  \A a \in Askers : job[a].pc = "brain" /\ Usable(job[a].ctx.atr) =>
    LET ctx == job[a].ctx
    IN  \A p, q \in ctx.buy \cup ctx.sell :
          p # q => Away(p, q) > Tolerance(ctx.price, ctx.atr)

(* Every question is answered, whatever the CFTC service and the database do
   and whoever else is being served (unless the process dies). *)
EveryQuestionAnswered ==
  \A a \in Askers : job[a].pc \notin {"idle", "done"} ~> job[a].pc \in {"idle", "done"}

(* The state invariant of the answers: types, cited rows that exist, and rows that
   are those of what was answered (record_decision, _persist_analysis). *)
AnswersInv == TypeOK /\ RowsOfAnswers
=============================================================================
