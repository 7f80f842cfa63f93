------------------------------- MODULE Debate -------------------------------
(***************************************************************************)
(* A debate on one asset: the voices of core/debate/analysts.py, the       *)
(* weighted consensus of core/orchestration/consensus.py, the audit of     *)
(* core/audit/verifier.py with the reconciliation of                       *)
(* core/market_data/reconciliation.py, and how core/debate/engine.py puts  *)
(* them together.  A voice is [agent, bias, strength], its strength in     *)
(* thousandths of the code's 0..100 scale.                                 *)
(***************************************************************************)
EXTENDS MarketBrain

Voice(agent, bias, strength) == [agent |-> agent, bias |-> bias, strength |-> strength]

-----------------------------------------------------------------------------
(* The voices; ms is what MarketState returns. *)
MacroVoice(ms) ==
  IF Known(ms.macro) /\ Away(ms.macro, 0) >= 250
  THEN Voice("orion-macro", IF ms.macro < 0 THEN "SHORT" ELSE "LONG",
             Min({80000, 30000 + 60 * Away(ms.macro, 0)}))
  ELSE Voice("orion-macro", "WAIT", 30000)

(* LONG stands for conditions that favour trading. *)
LiquidityVoice(ms) ==
  CASE ~Known(ms.liquidity) -> Voice("orion-liquidity", "WAIT", 20000)
    [] Known(ms.liquidity) /\ ms.liquidity >= 500 ->
         Voice("orion-liquidity", "LONG", 40000 + 40 * ms.liquidity)
    [] OTHER -> Voice("orion-liquidity", "WAIT", 70000 - 50 * ms.liquidity)

Trend(m, limit) == IF m > limit THEN "LONG" ELSE IF m < -limit THEN "SHORT" ELSE "NEUTRAL"

QuantVoice(ms) ==
  LET m == IF Known(ms.momentum) THEN ms.momentum ELSE 0
  IN  Voice("orion-quant", IF ms.regime = "TRENDING" THEN Trend(m, 150) ELSE "NEUTRAL",
            Min({75000, 35000 + 40 * Away(m, 0)}))

PositioningVoice == Voice("orion-positioning", "WAIT", 25000)

NewsVoice(news) ==
  Voice("orion-news", "NEUTRAL",
        CASE news = "HIGH" -> 45000 [] news = "MEDIUM" -> 30000 [] news = "NONE" -> 20000)

(* rhoGold, rhoSpx: GOLD/DXY and SPX/VIX, in thousandths. *)
CrossAssetVoice(market) ==
  LET odd == (Known(market.rhoGold) /\ market.rhoGold > 300)
             \/ (Known(market.rhoSpx) /\ market.rhoSpx > -100)
  IN  Voice("orion-crossasset", "NEUTRAL", IF odd THEN 55000 ELSE 35000)

MetalsVoice(ms) ==
  IF Known(ms.momentum)
  THEN Voice("orion-metals", Trend(ms.momentum, 200), Min({70000, 30000 + 50 * Away(ms.momentum, 0)}))
  ELSE Voice("orion-metals", "WAIT", 25000)

(* _gather_opinions: outside the metals the cross-asset desk speaks twice. *)
Voices(market, ms, news) ==
  <<MacroVoice(ms), QuantVoice(ms), LiquidityVoice(ms), PositioningVoice, NewsVoice(news),
    CrossAssetVoice(market),
    IF market.class = "metal" THEN MetalsVoice(ms) ELSE CrossAssetVoice(market)>>

-----------------------------------------------------------------------------
(* Weights in hundredths, by role and class. *)
RoleOf(agent) ==
  CASE agent = "orion-macro" -> "macro"            [] agent = "orion-metals" -> "technical"
    [] agent = "orion-liquidity" -> "liquidity"    [] agent = "orion-positioning" -> "order_flow"
    [] agent = "orion-crossasset" -> "technical"   [] agent = "orion-news" -> "news"
    [] agent = "orion-quant" -> "quant"

DefaultWeights ==
  [other  |-> [macro |-> 20, technical |-> 15, liquidity |-> 20, order_flow |-> 20,
               news |-> 10, quant |-> 15],
   metal  |-> [macro |-> 25, technical |-> 15, liquidity |-> 25, order_flow |-> 20,
               news |-> 5, quant |-> 10],
   crypto |-> [macro |-> 10, technical |-> 15, liquidity |-> 25, order_flow |-> 30,
               news |-> 10, quant |-> 10]]

Weight(class, voice) ==
  DefaultWeights[IF class \in {"metal", "crypto"} THEN class ELSE "other"][RoleOf(voice.agent)]

Sign(bias) == CASE bias = "LONG" -> 1 [] bias = "SHORT" -> -1 [] OTHER -> 0

(* Slip: a voice without a direction has no weight either. *)
SlipScale(class, voices) ==
  100000 * Total([i \in DOMAIN voices |-> Weight(class, voices[i]) * Away(Sign(voices[i].bias), 0)])

(* compute_consensus: the score is Lean / Scale, between -1 and 1. *)
Scale(class, voices) == 100000 * Total([i \in DOMAIN voices |-> Weight(class, voices[i])])
Lean(class, voices) ==
  Total([i \in DOMAIN voices |->
           Weight(class, voices[i]) * voices[i].strength * Sign(voices[i].bias)])

Label(class, voices) ==
  LET lean == Lean(class, voices)
      scale == Scale(class, voices)
  IN  IF 2 * lean >= scale THEN "STRONG BUY BIAS"
      ELSE IF 5 * lean >= scale THEN "BUY BIAS"
      ELSE IF 2 * lean <= -scale THEN "STRONG SELL BIAS"
      ELSE IF 5 * lean <= -scale THEN "SELL BIAS" ELSE "NEUTRAL"

(* The voices with a direction, and the ones of them on the score's side; at
   a score of 0 that is the long side. *)
Directional(voices) == SelectSeq(voices, LAMBDA v : v.strength * Sign(v.bias) # 0)
Aligned(class, voices) ==
  SelectSeq(Directional(voices), LAMBDA v : (v.bias = "LONG") = (Lean(class, voices) >= 0))

(* _confidence_from_agreement. *)
AgreementConfidence(class, voices) ==
  LET n == Len(Directional(voices))
      k == IF n = 0 THEN 1 ELSE Len(Aligned(class, voices))
      of == Max({1, n})
  IN  IF 10 * k >= 9 * of THEN "HIGH" ELSE IF 10 * k >= 7 * of THEN "MODERATE" ELSE "LOW"

-----------------------------------------------------------------------------
(* check_source as a debate uses it: a citation carries the present moment
   and no price, so what is left to verify is that a quote is stored. *)
CheckSource(symbol, stored) == IF symbol \in stored THEN "VERIFIED" ELSE "UNVERIFIED"

(* audit_opinion. *)
AuditOpinion(sources, numbers, stored) ==
  LET states == [i \in DOMAIN sources |-> CheckSource(sources[i], stored)]
  IN  IF sources = <<>> THEN IF numbers THEN "UNVERIFIED" ELSE "INSUFFICIENT_EVIDENCE"
      ELSE IF ToSet(states) = {"VERIFIED"} THEN "VERIFIED"
      ELSE IF "VERIFIED" \in ToSet(states) THEN "PARTIALLY_VERIFIED" ELSE Head(states)

(* _audit: what each voice cites, and the state it gets.  "SCOPE" is the
   asset itself; no feed stores a symbol "GOLD". *)
Speakers(class) ==
  {"orion-macro", "orion-quant", "orion-liquidity", "orion-positioning", "orion-news",
   "orion-crossasset"} \cup (IF class = "metal" THEN {"orion-metals"} ELSE {})

Audit(market, ms, news, stored) ==
  LET state(v) ==
        CASE v = "orion-macro" -> AuditOpinion(<<"DXY", "US10Y", "VIX", "SPX">>, TRUE, stored)
          [] v = "orion-quant" -> AuditOpinion(<<"SCOPE">>, TRUE, stored)
          [] v = "orion-liquidity" ->
               AuditOpinion(IF Known(ms.liquidity) THEN <<"SCOPE">> ELSE <<>>,
                            Known(ms.liquidity), stored)
          [] v = "orion-positioning" -> AuditOpinion(<<>>, FALSE, stored)
          [] v = "orion-news" -> AuditOpinion(<<>>, news # "NONE", stored)
          [] v = "orion-crossasset" ->
               AuditOpinion(<<"GOLD", "DXY", "SPX", "VIX">>, TRUE, stored)
          [] v = "orion-metals" -> AuditOpinion(<<"SCOPE", "DXY">>, TRUE, stored)
  IN  [v \in Speakers(market.class) |-> state(v)]

(* _worst_state and DebateAuditReport.overall_state: the same judgement,
   written down twice, from opposite ends. *)
FromBest == <<"VERIFIED", "PARTIALLY_VERIFIED", "INSUFFICIENT_EVIDENCE", "UNVERIFIED",
              "STALE_DATA", "CONFLICTING_DATA">>
FromWorst == <<"CONFLICTING_DATA", "STALE_DATA", "UNVERIFIED", "INSUFFICIENT_EVIDENCE",
               "PARTIALLY_VERIFIED", "VERIFIED">>

Position(order, state) == CHOOSE i \in DOMAIN order : order[i] = state

(* Slip: the smallest place in an order that starts with the best. *)
SlipWorstState(states, discrepancy) ==
  IF discrepancy THEN "CONFLICTING_DATA"
  ELSE FromBest[Min({Position(FromBest, s) : s \in states})]

WorstState(states, discrepancy) ==
  IF discrepancy THEN "CONFLICTING_DATA"
  ELSE FromBest[Max({Position(FromBest, s) : s \in states})]

OverallState(states, discrepancy) ==
  IF discrepancy THEN "CONFLICTING_DATA"
  ELSE IF states = {} THEN "INSUFFICIENT_EVIDENCE"
  ELSE FromWorst[Min({Position(FromWorst, s) : s \in states})]

-----------------------------------------------------------------------------
(* cross_feed_check over the stored quotes, oldest first: the latest of each
   provider, the newest of them the primary. *)
Readings(quotes) ==
  LET last(p) == Max({i \in DOMAIN quotes : quotes[i].provider = p})
      places == {last(p) : p \in {quotes[i].provider : i \in DOMAIN quotes}}
      order == Reverse(SetToSortSeq(places, LAMBDA i, j : i < j))
  IN  [k \in DOMAIN order |-> quotes[order[k]]]

(* reconcile: a stale primary decides before any difference between feeds;
   CONSISTENT and DEGRADED come to the same here. *)
Reconcile(readings) ==
  LET primary == Head(readings)
  IN  IF primary.source # "FRESH" THEN "STALE"
      ELSE IF \E r \in ToSet(Tail(readings)) :
                1000 * Away(r.price, primary.price) > 3 * primary.price
      THEN "DIVERGENT" ELSE "USABLE"

Discrepancy(quotes) ==
  Len(Readings(quotes)) >= 2 /\ Reconcile(Readings(quotes)) = "DIVERGENT"

=============================================================================
