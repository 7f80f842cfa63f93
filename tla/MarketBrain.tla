---------------------------- MODULE MarketBrain ----------------------------
(***************************************************************************)
(* core/market_brain/brain.py with the calculators of engines.py and the   *)
(* regime classifier core/regime.py.  A score on the code's -1..1 or 0..1  *)
(* scale is an integer number of thousandths; NoValue stands for None.     *)
(*                                                                         *)
(* A market record holds what the calculators read off stored bars:        *)
(*   stored      bars of all timeframes (what _candles_from_db loads)      *)
(*   metrics     [er, adx, persist, atr, rvol, expansion] of the bars      *)
(*   roc         [10 |-> ., 20 |-> ., 50 |-> .] log returns over so many   *)
(*               bars, divided by the volatility norm                      *)
(*   relVolume, contraction, drawdown                                      *)
(*   macro       [dxy, us10y, vix, spx]                                    *)
(***************************************************************************)
EXTENDS Technicals

Weighted(terms) ==      \* terms: a set of <<name, value, weight>>, value Known
  MapThenSumSet(LAMBDA t : t[2] * t[3], terms) \div MapThenSumSet(LAMBDA t : t[3], terms)

KnownTerms(terms) == {t \in terms : Known(t[2])}

(* classify: trend from efficiency, ADX and persistence; volatility from the
   ATR in thousandths of the close. *)
TrendScore(x) ==
  LET er      == Clamp((x.er * 1000) \div 450, 0, 1000)
      adx     == Clamp(((x.adx - 15) * 1000) \div 25, 0, 1000)
      persist == Clamp(((x.persist - 150) * 1000) \div 550, 0, 1000)
  IN  (40 * er + 35 * adx + 25 * persist) \div 100

Enough(market) == market.stored >= 30

Regime(market) ==
  IF ~Enough(market) THEN "INSUFFICIENT_DATA"
  ELSE IF TrendScore(market.metrics) >= 500 THEN "TRENDING" ELSE "RANGING"

Volatility(market) ==
  LET x == market.metrics
  IN  CASE ~Enough(market) -> "NORMAL"
        [] Enough(market) /\ (x.atr > 20 \/ (2 * x.rvol > 7 * x.atr /\ x.expansion > 1400)) -> "HIGH"
        [] Enough(market) /\ x.atr < 6 /\ x.expansion < 1100 -> "LOW"
        [] OTHER -> "NORMAL"

(* momentum_score over the horizons the history reaches. *)
Momentum(market) ==
  LET weight == [h \in {10, 20, 50} |-> IF h = 10 THEN 5 ELSE IF h = 20 THEN 3 ELSE 2]
      terms  == {<<h, Clamp(market.roc[h], -3000, 3000), weight[h]>> :
                   h \in {k \in {10, 20, 50} : market.stored > k}}
  IN  IF terms = {} THEN NoValue ELSE Clamp(Weighted(terms), -1000, 1000)

SpreadBps(quote) == (Away(quote.ask, quote.bid) * 10000) \div quote.price

TwoSided(quote) == Known(quote.bid) /\ Known(quote.ask)

(* liquidity_score: spread, relative volume and calm, whichever is there. *)
Liquidity(market, quote) ==
  LET spread == IF Known(quote.price) /\ quote.price # 0 /\ TwoSided(quote)
                THEN Clamp(1000 - 20 * SpreadBps(quote), 0, 1000) ELSE NoValue
      volume == IF Known(market.relVolume) THEN Clamp(market.relVolume, 0, 1000) ELSE NoValue
      calm   == IF Known(market.contraction)
                THEN Clamp(2000 - market.contraction, 0, 1000) ELSE NoValue
      terms  == KnownTerms({<<"spread", spread, 5>>, <<"volume", volume, 3>>, <<"calm", calm, 2>>})
  IN  IF terms = {} THEN NoValue ELSE Weighted(terms)

(* macro_score: the mean of the terms there is a series for. *)
MacroScore(market) ==
  LET m == market.macro
      term(x, y) == IF Known(x) THEN Clamp(y, -1000, 1000) ELSE NoValue
      terms == KnownTerms({<<"dxy", term(m.dxy, -25 * m.dxy), 1>>,
                           <<"us10y", term(m.us10y, -400 * m.us10y), 1>>,
                           <<"vix", term(m.vix, ((16 - m.vix) * 1000) \div 14), 1>>,
                           <<"spx", term(m.spx, m.spx), 1>>})
  IN  IF terms = {} THEN NoValue ELSE Weighted(terms)

(* _freshness: by the source's time, within four times the staleness limit. *)
FeedFresh(quote) == Known(quote.price) /\ quote.source # "ANCIENT"

(* risk_score: volatility, drawdown, macro stress and a dead feed add up. *)
RiskScore(market, quote) ==
  LET vol   == CASE Volatility(market) = "HIGH" -> -350
                 [] Volatility(market) = "LOW" -> 150
                 [] OTHER -> 0
      fall  == IF Known(market.drawdown) /\ market.stored >= 20
               THEN (4 * Clamp(8 * market.drawdown, -1000, 1000)) \div 10 ELSE 0
      macro == IF Known(MacroScore(market)) THEN (4 * MacroScore(market)) \div 10 ELSE 0
      feed  == IF FeedFresh(quote) THEN 0 ELSE -200
  IN  Clamp(vol + fall + macro + feed, -1000, 1000)

DataQuality(market, quote) ==
  Max({IF FeedFresh(quote) THEN 1000 ELSE 0, IF Enough(market) THEN 200 ELSE 0})

RiskMode(market, quote) ==
  IF (Known(MacroScore(market)) /\ MacroScore(market) <= -250) \/ RiskScore(market, quote) <= -400
  THEN "RISK_OFF" ELSE "RISK_ON"

(* MarketBrain.compose. *)
MarketState(market, quote) ==
  [regime    |-> Regime(market),
   vol       |-> Volatility(market),
   riskMode  |-> RiskMode(market, quote),
   momentum  |-> Momentum(market),
   liquidity |-> Liquidity(market, quote),
   macro     |-> MacroScore(market),
   quality   |-> DataQuality(market, quote)]

=============================================================================
