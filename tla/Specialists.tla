---------------------------- MODULE Specialists ----------------------------
(***************************************************************************)
(* Who answers a question and what each of them says: core/desk/router.py, *)
(* core/desk/specialists.py, and the two gates and the plan of             *)
(* core/desk/cio.py.  A specialist is a function of the context built for  *)
(* the question (see Doctrine); its opinion is [stance, conf].             *)
(***************************************************************************)
EXTENDS Doctrine

-----------------------------------------------------------------------------
(* A question: the intents whose keywords occur in it, and the class of the
   asset it names ("none"), or else of the market it hints at. *)
IntentOrder == <<"GOLD_PLAYBOOK", "XRP_PLAYBOOK", "PRE_LONDON", "PRE_NY", "DAILY_CLOSE",
                 "WATCH", "DESK_DEBATE", "TRADE_PLAN", "RISK", "POSITIONING", "LIQUIDITY",
                 "CROSS_ASSET", "NEWS", "SYSTEM">>

Intent(question) ==
  LET hits == SelectSeq(IntentOrder, LAMBDA i : i \in question.words)
  IN  IF hits = <<>> THEN "MARKET_ANALYSIS" ELSE Head(hits)

(* The hint refines a question about the market that names no asset. *)
ClassAsked(question) ==
  IF question.asset # "none" THEN question.asset
  ELSE IF Intent(question) = "MARKET_ANALYSIS" THEN question.hint ELSE "none"

Modes == {"PRE_LONDON", "PRE_NY", "DAILY_CLOSE"}
Playbooks == {"GOLD_PLAYBOOK", "XRP_PLAYBOOK"}
Piped(question) ==
  Intent(question) \notin Modes \cup Playbooks \cup {"WATCH", "DESK_DEBATE", "SYSTEM"}

AnalystOf == [metal |-> "metals-analyst", crypto |-> "crypto-analyst",
              index |-> "equities-analyst", fx |-> "forex-analyst"]

AlwaysOn == {"macro-strategist", "liquidity-analyst", "crossasset-analyst",
             "news-intelligence", "quant-architect"}

(* _agents_for, for the questions that run the pipeline: the specialists.
   The risk manager and the auditor come in whether they are named or not. *)
AgentsFor(question) ==
  (IF ClassAsked(question) \in DOMAIN AnalystOf THEN {AnalystOf[ClassAsked(question)]}
   ELSE {"metals-analyst", "crypto-analyst", "equities-analyst"})
  \cup (IF Intent(question) = "POSITIONING" THEN {"positioning-analyst"} ELSE {})
  \cup AlwaysOn

-----------------------------------------------------------------------------
Opinion(stance, conf) == [stance |-> stance, conf |-> conf]
NoRead == Opinion("WAIT", "LOW")

Ranged(ctx) == Known(ctx.hi) /\ ctx.hi > ctx.lo

(* The pair's place in its 20-bar range: the top and the bottom fifth vote. *)
RangeVote(ctx) ==
  IF Ranged(ctx) /\ 5 * (ctx.price - ctx.lo) >= 4 * (ctx.hi - ctx.lo) THEN "LONG"
  ELSE IF Ranged(ctx) /\ 5 * (ctx.price - ctx.lo) <= ctx.hi - ctx.lo THEN "SHORT"
  ELSE "NEUTRAL"

(* The ATR is above so many thousandths of the price. *)
Wild(ctx, limit) == Usable(ctx.atr) /\ 1000 * ctx.atr > limit * ctx.price

Metals(ctx) ==
  IF ~Known(ctx.price) THEN NoRead
  ELSE IF Known(ctx.vix) /\ ctx.vix > 25 /\ RangeVote(ctx) = "SHORT" THEN Opinion("WAIT", "LOW")
  ELSE Opinion(RangeVote(ctx), IF Wild(ctx, 25) THEN "LOW" ELSE "MODERATE")

Crypto(ctx) ==
  IF ~Known(ctx.price) THEN NoRead
  ELSE IF ctx.riskMode = "RISK_OFF" THEN Opinion("WAIT", "LOW")
  ELSE Opinion("NEUTRAL", IF Wild(ctx, 60) THEN "LOW" ELSE "MODERATE")

Equities(ctx) ==
  IF ~Known(ctx.price) THEN NoRead
  ELSE Opinion(IF ctx.riskMode = "RISK_ON" THEN "LONG" ELSE "SHORT", "MODERATE")

Forex(ctx) ==
  IF ~Known(ctx.price) THEN NoRead
  ELSE Opinion(RangeVote(ctx),
               IF Wild(ctx, 10) \/ ctx.active \cap {"LONDON", "NEW_YORK"} = {}
               THEN "LOW" ELSE "MODERATE")

Macro(ctx) == Opinion("INFORMATIVE", IF Known(ctx.macro) THEN "MODERATE" ELSE "LOW")

(* The spread in basis points of the middle: below 5, below 20, or too wide. *)
SpreadBelow(ctx, bps) == 20000 * (ctx.ask - ctx.bid) < bps * (ctx.ask + ctx.bid)

LiquidityDesk(ctx) ==
  IF ~(Known(ctx.bid) /\ Known(ctx.ask) /\ ctx.ask > ctx.bid) THEN Opinion("CAUTION", "MODERATE")
  ELSE Opinion(IF SpreadBelow(ctx, 5) THEN "PASS"
               ELSE IF SpreadBelow(ctx, 20) THEN "CAUTION" ELSE "REJECT", "MODERATE")

(* A net position above 30% of the open interest is crowded. *)
Positioning(ctx) ==
  Opinion("INFORMATIVE", IF ~Known(ctx.cot) THEN "LOW"
                         ELSE IF ctx.share > 30 THEN "HIGH" ELSE "MODERATE")

CrossAsset(ctx) == Opinion("INFORMATIVE", "MODERATE")

News(ctx) == Opinion("INFORMATIVE", IF ctx.news = "NONE" THEN "LOW" ELSE "MODERATE")

(* The floor on data quality comes first, then bars, then a price.  Its
   caution in a HIGH_VOLATILITY regime never comes: the brain has no such
   regime. *)
Quant(ctx) ==
  IF ctx.quality < 400 THEN Opinion("REJECT", "HIGH")
  ELSE IF ~Usable(ctx.atr) THEN Opinion("CAUTION", "MODERATE")
  ELSE IF ~Known(ctx.price) THEN Opinion("REJECT", "HIGH")
  ELSE Opinion("PASS", "HIGH")

SpecialistFuncs(agent, ctx) ==
  CASE agent = "metals-analyst"      -> Metals(ctx)
    [] agent = "crypto-analyst"      -> Crypto(ctx)
    [] agent = "equities-analyst"    -> Equities(ctx)
    [] agent = "forex-analyst"       -> Forex(ctx)
    [] agent = "macro-strategist"    -> Macro(ctx)
    [] agent = "liquidity-analyst"   -> LiquidityDesk(ctx)
    [] agent = "positioning-analyst" -> Positioning(ctx)
    [] agent = "crossasset-analyst"  -> CrossAsset(ctx)
    [] agent = "news-intelligence"   -> News(ctx)
    [] agent = "quant-architect"     -> Quant(ctx)

(* What the agents called for say. *)
Opinions(agents, ctx) == [a \in agents |-> SpecialistFuncs(a, ctx)]

-----------------------------------------------------------------------------
(* _risk_gate. *)
NoFreshQuote(ctx) == ~Known(ctx.price) \/ ctx.status \in {"STALE", "DISCONNECTED"}

Vetoed(ops) ==
  \E a \in DOMAIN ops \cap {"quant-architect", "liquidity-analyst"} : ops[a].stance = "REJECT"

(* Slip: the specialists are not asked where the light is already amber. *)
SlipBlocked(ctx, ops) ==
  NoFreshQuote(ctx) \/ ctx.snapshot = "RED_LIGHT" \/ (ctx.snapshot # "CAUTION" /\ Vetoed(ops))

Blocked(ctx, ops) == NoFreshQuote(ctx) \/ ctx.snapshot = "RED_LIGHT" \/ Vetoed(ops)

(* _audit_gate: the fields that are missing, and the confidence they leave. *)
Gaps(ctx) ==
  {g \in {"price", "candle history", "CFTC positioning", "recent headlines"} :
     CASE g = "price"            -> ~Known(ctx.price)
       [] g = "candle history"   -> ~Known(ctx.hi)
       [] g = "CFTC positioning" -> ~Known(ctx.cot)
       [] g = "recent headlines" -> ctx.news = "NONE"}

Rank == [c \in {"LOW", "MODERATE", "HIGH", "VERY HIGH"} |->
           IF c = "LOW" THEN 0 ELSE IF c = "MODERATE" THEN 1 ELSE IF c = "HIGH" THEN 2 ELSE 3]
Lowest(confs) == CHOOSE c \in confs : \A d \in confs : Rank[c] <= Rank[d]

GapCap(gaps) ==
  IF Cardinality(gaps) >= 2 THEN "LOW" ELSE IF gaps # {} THEN "MODERATE" ELSE "VERY HIGH"

Confidence(ctx, ops) ==
  Lowest({GapCap(Gaps(ctx))} \cup {ops[a].conf : a \in DOMAIN ops})

(* _synthesize: the side most of the votes are on, and the plan. *)
Votes(ops, side) == Cardinality({a \in DOMAIN ops : ops[a].stance = side})

Bias(ctx, ops) ==
  IF Blocked(ctx, ops) THEN "WAIT"
  ELSE IF Votes(ops, "LONG") > Votes(ops, "SHORT") THEN "LONG"
  ELSE IF Votes(ops, "SHORT") > Votes(ops, "LONG") THEN "SHORT" ELSE "NEUTRAL"

Plan(ctx, ops) ==
  IF Blocked(ctx, ops) THEN "NO TRADE"
  ELSE IF Decide(ctx) # "TRADE" \/ Bias(ctx, ops) = "NEUTRAL" THEN "WAIT"
  ELSE IF Bias(ctx, ops) = "LONG" THEN "BUY" ELSE "SELL"

(* _collect_sources: the fields a reply cites. *)
Sources(ctx) ==
  {s \in {"price", "candles", "positioning_cftc", "risk_snapshot"} :
     CASE s = "price"            -> Known(ctx.price)
       [] s = "candles"          -> Known(ctx.hi)
       [] s = "positioning_cftc" -> Known(ctx.cot)
       [] s = "risk_snapshot"    -> ctx.snapshot # "NONE"}
  \cup {"session"}
  \cup (IF ctx.news # "NONE" THEN {"news"} ELSE {})
  \cup (IF SelectSeq(ctx.rhos, Known) # <<>> THEN {"corr"} ELSE {})

=============================================================================
