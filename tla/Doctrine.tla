------------------------------ MODULE Doctrine ------------------------------
(***************************************************************************)
(* The desk's scoring of one context: core/doctrine/scores.py,             *)
(* core/doctrine/doctrine.py and core/playbooks/base.py.  A 0..100 score   *)
(* is an integer number of tenths, a brain score is in thousandths (see    *)
(* MarketBrain), NoValue is None.                                          *)
(*                                                                         *)
(* A context is a record with what ContextBuilder.build tags: price,       *)
(* status, bid, ask, bars, hi, lo, atr, mapped, buy, sell, swept, zone,    *)
(* the market state, rhos, cot, news, snapshot, vix, active.               *)
(***************************************************************************)
EXTENDS MarketBrain

-----------------------------------------------------------------------------
(* _pct_to_score: -1..1 to 0..100. *)
PctToScore(v) == IF Known(v) THEN Clamp((v + 1000) \div 2, 0, 1000) ELSE NoValue

(* _regime_score: the labels it knows are not the ones the brain gives, so it
   falls back on momentum for every one of them. *)
RegimeScore(ctx) == PctToScore(ctx.momentum)

(* _positioning_score: 50 plus half a point per thousand contracts. *)
PositioningScore(ctx) ==
  IF Known(ctx.cot) THEN Clamp(500 + Clamp(5 * ctx.cot, -500, 500), 0, 1000) ELSE NoValue

CrossAssetScore(ctx) ==
  LET known == SelectSeq(ctx.rhos, Known)
  IN  IF known = <<>> THEN NoValue ELSE PctToScore(Mean(known))

StructureScore(ctx) ==
  IF Known(ctx.price) /\ Known(ctx.hi) /\ ctx.hi > ctx.lo
  THEN Clamp(((ctx.price - ctx.lo) * 1000) \div (ctx.hi - ctx.lo), 0, 1000) ELSE NoValue

NewsScore(ctx) == IF ctx.news = "NONE" THEN 450 ELSE 550

(* A weighted mean of the scores there are, in whole points; the weights of
   the missing ones are left out. *)
Points(terms) ==
  RoundEven(MapThenSumSet(LAMBDA t : t[2] * t[3], terms),
            10 * MapThenSumSet(LAMBDA t : t[3], terms))

(* compute_bias_score on the components of score_context. *)
BiasScore(ctx) ==
  Points(KnownTerms({<<"macro", PctToScore(ctx.macro), 20>>,
                     <<"cross_asset", CrossAssetScore(ctx), 15>>,
                     <<"positioning", PositioningScore(ctx), 15>>,
                     <<"regime", RegimeScore(ctx), 15>>,
                     <<"liquidity", PctToScore(ctx.liquidity), 10>>,
                     <<"structure", StructureScore(ctx), 15>>,
                     <<"news_event_risk", NewsScore(ctx), 10>>}))

(* classify_bias. *)
Band(total) ==
  CASE total <= 30 -> "STRONG_BEARISH" [] total > 30 /\ total <= 45 -> "BEARISH"
    [] total > 45 /\ total <= 54 -> "NEUTRAL" [] total > 54 /\ total <= 69 -> "BULLISH"
    [] OTHER -> "STRONG_BULLISH"

-----------------------------------------------------------------------------
(* _nearest_pool, as its distance from the price. *)
PoolDistance(ctx) ==
  IF Known(ctx.price) /\ ctx.buy \cup ctx.sell # {}
  THEN Min({Away(p, ctx.price) : p \in ctx.buy \cup ctx.sell}) ELSE NoValue

(* _rr_vs_pools: the reward-to-risk ratios that can be measured, as pairs.
   Long: stop at the farthest sell pool, target at the high; short: stop at
   the farthest buy pool, target at the low. *)
LongRR(ctx) ==
  LET below == {p \in ctx.sell : p < ctx.price}
  IN  IF below # {} /\ Known(ctx.hi)
      THEN {<<Away(ctx.hi, ctx.price), ctx.price - Min(below)>>} ELSE {}

ShortRR(ctx) ==
  LET above == {p \in ctx.buy : p > ctx.price}
  IN  IF above # {} /\ Known(ctx.lo)
      THEN {<<Away(ctx.price, ctx.lo), Max(above) - ctx.price>>} ELSE {}

RewardRisks(ctx) == IF Known(ctx.price) THEN LongRR(ctx) \cup ShortRR(ctx) ELSE {}

(* rr_score; it grows with the ratio, so the best ratio has the best score. *)
RRScore(rr) ==
  IF rr[1] < 2 * rr[2] THEN (200 * rr[1]) \div rr[2]
  ELSE Clamp(400 + (300 * (rr[1] - 2 * rr[2])) \div rr[2], 400, 1000)

(* The distance, in ATRs, the no-chase rule looks at: to the nearest pool, or
   to the reaction zone when there is none.  As a pair distance, ATR. *)
Usable(atr) == Known(atr) /\ atr # 0

Extension(ctx) ==
  CASE Usable(ctx.atr) /\ Known(PoolDistance(ctx)) -> {<<PoolDistance(ctx), ctx.atr>>}
    [] Usable(ctx.atr) /\ ~Known(PoolDistance(ctx)) /\ Known(ctx.zone) /\ Known(ctx.price) ->
         {<<Away(ctx.price, ctx.zone), ctx.atr>>}
    [] OTHER -> {}

LocationScore(e) == Max({100, 900 - (600 * e[1]) \div e[2]})

ExtensionScore(e) ==
  IF 2 * e[1] <= e[2] THEN 900
  ELSE IF 2 * e[1] >= 5 * e[2] THEN 100
  ELSE Max({100, 1100 - (400 * e[1]) \div e[2]})

FreshnessScore(status) ==
  CASE status = "LIVE" -> 950 [] status = "STALE" -> 250
    [] status = "DISCONNECTED" -> 50 [] OTHER -> 400

RiskStateScore(verdict) ==
  CASE verdict = "GREEN_LIGHT" -> 900 [] verdict = "CAUTION" -> 450
    [] verdict = "RED_LIGHT" -> 0 [] OTHER -> 400

(* compute_trade_quality on the inputs of score_context. *)
TradeQuality(ctx) ==
  LET one(S, f(_)) == IF S = {} THEN NoValue ELSE Max({f(x) : x \in S})
      near == IF Known(PoolDistance(ctx)) THEN Extension(ctx) ELSE {}
  IN  Points(KnownTerms(
        {<<"location", one(near, LocationScore), 15>>,
         <<"reaction", IF ctx.swept THEN 800 ELSE 200, 15>>,
         <<"confirmation", IF ctx.swept THEN 750 ELSE 200, 15>>,
         <<"rr", one(RewardRisks(ctx), RRScore), 12>>,
         <<"liquidity_conditions", 800, 8>>,
         <<"data_freshness", FreshnessScore(ctx.status), 10>>,
         <<"event_risk", IF ctx.news = "HIGH" THEN 350 ELSE 750, 10>>,
         <<"extension", one(Extension(ctx), ExtensionScore), 10>>,
         <<"risk_state", IF ctx.snapshot = "NONE" THEN NoValue
                         ELSE RiskStateScore(ctx.snapshot), 5>>}))

-----------------------------------------------------------------------------
(* The direction the doctrine judges: a direction needs a structure. *)
DoctrineBias(ctx) ==
  IF ~Known(StructureScore(ctx)) THEN "NEUTRAL"
  ELSE IF BiasScore(ctx) >= 55 THEN "LONG"
  ELSE IF BiasScore(ctx) <= 45 THEN "SHORT" ELSE "NEUTRAL"

Chasing(ctx) == \E e \in Extension(ctx) : e[1] > 2 * e[2]
BestRRBelowTwo(ctx) == \A rr \in RewardRisks(ctx) : rr[1] < 2 * rr[2]

(* Slip: the sweep is asked for only where the liquidity was not mapped. *)
SlipDecide(ctx) ==
  IF ctx.snapshot = "RED_LIGHT" THEN "NO_TRADE"
  ELSE IF ~Known(PoolDistance(ctx)) THEN "WAIT"
  ELSE IF ~ctx.swept /\ ~ctx.mapped THEN "WAIT"
  ELSE IF Chasing(ctx) THEN "WAIT"
  ELSE IF RewardRisks(ctx) = {} THEN "WAIT"
  ELSE IF BestRRBelowTwo(ctx) THEN "REJECT"
  ELSE IF DoctrineBias(ctx) = "NEUTRAL" THEN "WAIT" ELSE "TRADE"

(* ORIONTradingDoctrine.evaluate as score_context calls it: the first hard
   stop wins.  Reaction and confirmation are the same sweep; without a mapped
   liquidity a missing reaction is missing data. *)
Decide(ctx) ==
  IF ctx.snapshot = "RED_LIGHT" THEN "NO_TRADE"
  ELSE IF ~Known(PoolDistance(ctx)) THEN "WAIT"
  ELSE IF ~ctx.swept THEN IF ctx.mapped THEN "NO_TRADE" ELSE "WAIT"
  ELSE IF Chasing(ctx) THEN "WAIT"
  ELSE IF RewardRisks(ctx) = {} THEN "WAIT"
  ELSE IF BestRRBelowTwo(ctx) THEN "REJECT"
  ELSE IF DoctrineBias(ctx) = "NEUTRAL" THEN "WAIT" ELSE "TRADE"

=============================================================================
