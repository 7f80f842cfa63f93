----------------------------- MODULE RiskEngine -----------------------------
(***************************************************************************)
(* The risk manager's verdict on one proposal: core/risk/engine.py and the *)
(* position sizing it calls, core/risk/sizing.py.  The code computes with  *)
(* floats; here                                                            *)
(*   - a percentage is an integer number of basis points (1% = 100),       *)
(*   - a quantity is an integer number of lots, LotScale lots to the unit  *)
(*     (the code keeps 8 decimals: round(qty, 8)),                         *)
(*   - a price is an integer, a notional is lots times price.              *)
(* The engine takes its limits from a RiskLimits record, as the class does *)
(* from its constructor.  contract_value is left at its default of 1: no   *)
(* caller sets it.                                                         *)
(***************************************************************************)
EXTENDS Integers, FiniteSets

CONSTANTS
  Limits,     \* the RiskLimits record the engine is built with
  LotScale    \* lots to one unit of quantity

(* RiskLimits(): the record every caller of the engine uses. *)
DefaultLimits ==
  [perTrade |-> 100, daily |-> 300, weekly |-> 600, drawdown |-> 1000,
   total |-> 30000, single |-> 15000, group |-> 25000,
   rewardRisk |-> 1, staleRejects |-> TRUE]

LimitsRecord ==
  [perTrade : Nat \ {0}, daily : Nat, weekly : Nat, drawdown : Nat,
   total : Nat, single : Nat, group : Nat,
   rewardRisk : Nat, staleRejects : BOOLEAN]

ASSUME LimitsAssumption == Limits \in LimitsRecord
ASSUME LotScaleAssumption == LotScale \in Nat \ {0}

(* DataStatus, and the absence of any quote row for the asset. *)
NoQuote == "NO_QUOTE"
DataStatus == {"LIVE", "DELAYED", "STALE", "DISCONNECTED", "SIMULATED"}

Decision == {"APPROVED", "REDUCE_SIZE", "WAIT", "REJECTED"}

NoGroup == "NO_GROUP"

(* The figures evaluate is called with.  byAsset may be defined on any assets. *)
IsProposal(p) == p.entry \in Int /\ p.stop \in Int /\ p.target \in Int

IsPortfolio(pf) == pf.equity \in Int /\ pf.daily \in Nat

-----------------------------------------------------------------------------
(* round(a / b) on positive b: to the nearest lot. *)
Rounded(a, b) == (2 * a + b) \div (2 * b)

Distance(x, y) == IF x < y THEN y - x ELSE x - y

(* position_size: risk perTrade of equity on the distance to the stop. *)
PositionSize(equity, p) ==
  Rounded(equity * Limits.perTrade * LotScale, 10000 * Distance(p.entry, p.stop))

(* The data-quality gate; without a quote there is nothing to judge and the
   gate lets the proposal through. *)
QuoteRefused(status) == Limits.staleRejects /\ status \in {"STALE", "DISCONNECTED"}

Degenerate(p) == p.entry <= 0 \/ p.stop <= 0 \/ p.entry = p.stop

RewardRiskTooLow(p) ==
  Distance(p.target, p.entry) < Limits.rewardRisk * Distance(p.entry, p.stop)

DrawdownHalted(pf) == pf.drawdown >= Limits.drawdown

(* Issues that are never negotiable. *)
Fatal(p, pf) ==
  \/ RewardRiskTooLow(p)
  \/ DrawdownHalted(pf)
  \/ p.direction \notin {"LONG", "SHORT"}

(* notional / equity above a limit in basis points; notional is in lots. *)
Above(notional, equity, limit) == notional * 10000 > limit * equity * LotScale

HeldIn(pf, asset) == IF asset \in DOMAIN pf.byAsset THEN pf.byAsset[asset] ELSE 0

DailyCapHit(pf)  == pf.daily + Limits.perTrade > Limits.daily
WeeklyCapHit(pf) == pf.weekly + Limits.perTrade > Limits.weekly

TotalCapHit(p, pf, notional) == Above(pf.total + notional, pf.equity, Limits.total)

(* Slip: the asset's open notional is forgotten. *)
SlipSingleCapHit(p, pf, notional) == Above(notional, pf.equity, Limits.single)

SingleCapHit(p, pf, notional) ==
  Above(HeldIn(pf, p.asset) + notional, pf.equity, Limits.single)

GroupCapHit(p, pf, held, notional) ==
  p.group # NoGroup /\ Above(held + notional, pf.equity, Limits.group)

(* Issues a smaller size might cure. *)
Capped(p, pf, held, notional) ==
  \/ DailyCapHit(pf)
  \/ WeeklyCapHit(pf)
  \/ TotalCapHit(p, pf, notional)
  \/ SingleCapHit(p, pf, notional)
  \/ GroupCapHit(p, pf, held, notional)

(* Slip: the fit is taken from the risk used, not from the room left. *)
SlipFitRoom(pf) == IF pf.daily > Limits.perTrade THEN Limits.perTrade ELSE pf.daily

(* _fit_factor, as the numerator over Limits.perTrade: how much of the
   intended risk the room under the daily cap takes. *)
FitRoom(pf) ==
  LET room == IF pf.daily > Limits.daily THEN 0 ELSE Limits.daily - pf.daily
  IN  IF room > Limits.perTrade THEN Limits.perTrade ELSE room

Verdict(d, q) == [decision |-> d, qty |-> q]

(* A verdict without a suggested_qty: the callers treat None and 0 alike. *)
Refused == Verdict("REJECTED", 0)

(* Slip: a postponed proposal keeps its size. *)
SlipUncapped(pending, size) ==
  IF pending THEN Verdict("WAIT", size) ELSE Verdict("APPROVED", size)

(* The verdict on a proposal with neither fatal nor cap issues. *)
Uncapped(pending, size) ==
  IF pending THEN Verdict("WAIT", 0) ELSE Verdict("APPROVED", size)

(* The verdict on a proposal that hits a cap: the fraction of the size that
   fits under the daily cap, if it is at least a quarter. *)
CutDown(pf, size) ==
  IF 4 * FitRoom(pf) >= Limits.perTrade
  THEN Verdict("REDUCE_SIZE", Rounded(size * FitRoom(pf), Limits.perTrade))
  ELSE Refused

(***************************************************************************)
(* RiskEngine.evaluate: the early returns in the order of the code.        *)
(* status is the status of the quote or NoQuote, pending says whether a    *)
(* high-impact event is near, held is the notional of the correlated group.*)
(***************************************************************************)
Evaluate(p, pf, status, pending, held) ==
  LET size     == PositionSize(pf.equity, p)
      notional == size * p.entry
  IN  IF pf.equity <= 0 \/ QuoteRefused(status) \/ Degenerate(p) \/ Fatal(p, pf)
      THEN Refused
      ELSE IF Capped(p, pf, held, notional)
      THEN CutDown(pf, size)
      ELSE Uncapped(pending, size)

(* Slip: caution only once the daily risk is used up. *)
SlipSnapshotVerdict(pf) ==
  CASE DrawdownHalted(pf) -> "RED_LIGHT"
    [] ~DrawdownHalted(pf) /\ pf.daily >= Limits.daily -> "CAUTION"
    [] OTHER -> "GREEN_LIGHT"

(* snapshot_verdict: the traffic light shown for a portfolio. *)
SnapshotVerdict(pf) ==
  CASE DrawdownHalted(pf) -> "RED_LIGHT"
    [] ~DrawdownHalted(pf) /\ 10 * pf.daily >= 6 * Limits.daily -> "CAUTION"
    [] OTHER -> "GREEN_LIGHT"
=============================================================================
