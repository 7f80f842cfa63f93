----------------------------- MODULE RiskReview -----------------------------
(***************************************************************************)
(* One call of RiskEngine.evaluate: some proposal is reviewed against some *)
(* portfolio, with some quote status and perhaps an event pending.  What   *)
(* the engine promises is stated of the verdict, apart from how evaluate   *)
(* reached it.                                                             *)
(***************************************************************************)
EXTENDS RiskEngine

CONSTANTS
  Proposals,    \* proposals that may be reviewed
  Portfolios,   \* portfolios they may be reviewed against
  HeldByGroup   \* open notional of the correlated group

(* Figures as portfolio_state and the callers of evaluate produce them. *)
HasFigures(pf) ==
  /\ IsPortfolio(pf)
  /\ pf.drawdown \in Nat /\ pf.weekly \in Nat /\ pf.total \in Int
  /\ \A a \in DOMAIN pf.byAsset : pf.byAsset[a] \in Int

ASSUME ReviewAssumption ==
  /\ \A p \in Proposals : IsProposal(p)
  /\ \A pf \in Portfolios : HasFigures(pf)
  /\ HeldByGroup \in Int

VARIABLE call   \* the arguments of the call, and its verdict

NotEvaluated == Verdict("NONE", 0)

ReviewInit ==
  call \in [proposal : Proposals, portfolio : Portfolios,
           status : DataStatus \cup {NoQuote}, pending : BOOLEAN,
           verdict : {NotEvaluated}]

Evaluated(c) ==
  Evaluate(c.proposal, c.portfolio, c.status, c.pending, HeldByGroup)

Review ==
  /\ call.verdict = NotEvaluated
  /\ call' = [call EXCEPT !.verdict = Evaluated(call)]

ReviewSpec == ReviewInit /\ [][Review]_call

-----------------------------------------------------------------------------
Is(d) == call.verdict.decision = d

(* Exposure after the suggested size is bought at the entry price, judged
   against the limits independently of how evaluate reached its verdict. *)
WithinCaps ==
  LET p == call.proposal
      pf == call.portfolio
      added == call.verdict.qty * p.entry
      cap(limit) == limit * pf.equity * LotScale
  IN  /\ 10000 * (pf.total + added) <= cap(Limits.total)
      /\ 10000 * (HeldIn(pf, p.asset) + added) <= cap(Limits.single)
      /\ p.group # NoGroup => 10000 * (HeldByGroup + added) <= cap(Limits.group)

(* What being stopped out costs, and the risk meant for the trade, both over the
   same denominator; a size is rounded to half a lot. *)
StopCost(p, qty) == 20000 * qty * Distance(p.entry, p.stop)
RiskMeant(pf) == 2 * pf.equity * Limits.perTrade * LotScale
HalfALot(p) == 10000 * Distance(p.entry, p.stop)

(* Type invariant: a refused or postponed proposal never carries a size
   (core/risk/engine.py, the decision records of evaluate). *)
VerdictOK ==
  \/ call.verdict = NotEvaluated
  \/ Is("APPROVED") /\ call.verdict.qty \in Nat
  \/ Is("REDUCE_SIZE") /\ call.verdict.qty \in Nat
  \/ call.verdict \in {Verdict("REJECTED", 0), Verdict("WAIT", 0)}

(* An approved proposal bought at its suggested size keeps every exposure cap,
   and being stopped out costs at most the per-trade risk, up to half a lot of
   rounding (evaluate, the cap checks; position_size). *)
ApprovedTradeFits ==
  Is("APPROVED") =>
    /\ WithinCaps
    /\ StopCost(call.proposal, call.verdict.qty)
         <= RiskMeant(call.portfolio) + HalfALot(call.proposal)

(* The invariant of a verdict: its shape, and what an approval fits in (evaluate,
   position_size). *)
VerdictInv == VerdictOK /\ ApprovedTradeFits

(* The same equity, and no figure of the book is better. *)
NoBetter(book, than, asset) ==
  /\ book.equity = than.equity
  /\ book.drawdown >= than.drawdown
  /\ book.daily >= than.daily /\ book.weekly >= than.weekly
  /\ book.total >= than.total
  /\ HeldIn(book, asset) >= HeldIn(than, asset)

Leniency(d) == IF d = "APPROVED" THEN 2 ELSE IF d = "REDUCE_SIZE" THEN 1 ELSE 0

(* With no event pending, a worse book never earns the same proposal a more
   lenient verdict or a larger size: the order in which evaluate tests fatal
   issues, caps and the fit factor must not let an extra problem help. *)
WorseBookNeverHelps ==
  ~call.pending /\ call.verdict # NotEvaluated =>
    \A book \in Portfolios :
      NoBetter(book, call.portfolio, call.proposal.asset) =>
        LET other == Evaluated([call EXCEPT !.portfolio = book])
        IN  /\ Leniency(other.decision) <= Leniency(call.verdict.decision)
            /\ other.qty <= call.verdict.qty

(* The traffic light shown for a portfolio and the verdicts on it agree: nothing
   is approved under a red light, and under a green one a full position still
   fits the daily cap (snapshot_verdict, evaluate; it takes limits that leave
   40% of the daily risk for one trade, as the defaults do). *)
LightAgrees ==
  LET light == SnapshotVerdict(call.portfolio)
  IN  /\ light = "RED_LIGHT" => Is("REJECTED") \/ call.verdict = NotEvaluated
      /\ light = "GREEN_LIGHT" =>
           ~DailyCapHit(call.portfolio) /\ FitRoom(call.portfolio) = Limits.perTrade
=============================================================================
