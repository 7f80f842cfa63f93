---------------------------- MODULE MCRiskEngine ----------------------------
(***************************************************************************)
(* RiskReview on a small grid: a proposal around an entry of 100, and      *)
(* portfolios with round numbers on each side of every limit.              *)
(***************************************************************************)
EXTENDS RiskReview

Equity == 100

Around100 ==
  [asset : {"XAU"}, direction : {"LONG", "FLAT"}, entry : {0, 100},
   stop : {0, 90, 98, 99, 100}, target : {101, 104, 120},
   group : {NoGroup, "metals"}]

(* Multiples of the equity, as notionals in lots. *)
Times(S) == {k * Equity * LotScale : k \in S}

TwiceTheEquity == 2 * Equity * LotScale

Book(e, d, r, w, t, h) ==
  [equity |-> e, drawdown |-> d, daily |-> r, weekly |-> w, total |-> t,
   byAsset |-> [a \in {"XAU"} |-> h]]

Books ==
  {Book(e, d, r, w, t, h) :
     e \in {0, Equity}, d \in {0, 1000}, r \in {0, 200, 240, 275, 300}, w \in {0, 600},
     t \in Times({0, 2, 3}), h \in Times({0, 1})}

RoundBooks == {b \in Books : b.byAsset["XAU"] <= b.total}
=============================================================================
