--------------------------- MODULE TradeDeskProofs ---------------------------
(***************************************************************************)
(* The safety properties of the risk engine, for all limits, proposals and *)
(* portfolios with integer figures, and of the trade desk that reviews its *)
(* ideas with it, for any number of ideas, orders, workers and reviews,    *)
(* any limits and any quotes.                                              *)
(***************************************************************************)
EXTENDS TradeDesk, RiskReview, WellFoundedInduction, TLAPS

-----------------------------------------------------------------------------
(* The risk engine: what RiskEngine.evaluate promises.                     *)

(* Rounding a fraction to the nearest lot gives a natural number of lots. *)
LEMMA RoundedType ==
  ASSUME NEW a \in Nat, NEW b \in Nat \ {0}
  PROVE  Rounded(a, b) \in Nat
  <1>1. 2 * a + b \in Nat /\ 2 * b \in Nat \ {0}
    OBVIOUS
  <1>2. \A x \in Nat, y \in Nat \ {0} : x \div y \in Nat
    OBVIOUS
  <1>3. QED
    BY <1>1, <1>2 DEF Rounded

(* Rounding a proper fraction of a quantity never exceeds the quantity. *)
LEMMA RoundedFraction ==
  ASSUME NEW q \in Nat, NEW n \in Nat, NEW d \in Nat \ {0}, n <= d
  PROVE  Rounded(q * n, d) <= q
  <1> DEFINE x == 2 * (q * n) + d
             y == 2 * d
  <1>1. q * n \in Nat /\ q * d \in Nat /\ q * n <= q * d
    <2>1. PICK k \in Nat : d = n + k
      <3>1. d - n \in Nat /\ d = n + (d - n)
        OBVIOUS
      <3>2. QED
        BY <3>1
    <2>2. q * d = q * n + q * k /\ q * k \in Nat /\ q * n \in Nat
      BY <2>1
    <2>3. QED
      BY <2>2
  <1>2. x \in Nat /\ y \in Nat \ {0}
    BY <1>1
  <1>3. x < (q + 1) * y
    <2>1. (q + 1) * y = 2 * (q * d) + 2 * d
      OBVIOUS
    <2>2. QED
      BY <1>1, <2>1
  <1> HIDE DEF x, y
  <1>4. x \div y < q + 1
    <2>1. x = y * (x \div y) + (x % y) /\ x % y \in 0 .. (y - 1) /\ x \div y \in Nat
      BY <1>2
    <2>2. SUFFICES ASSUME x \div y >= q + 1 PROVE FALSE
      BY <2>1
    <2>3. PICK k \in Nat : x \div y = (q + 1) + k
      <3>1. ASSUME NEW m \in Nat, m >= q + 1
            PROVE  \E k \in Nat : m = (q + 1) + k
        <4>1. m - (q + 1) \in Nat /\ m = (q + 1) + (m - (q + 1))
          BY <3>1
        <4>2. QED
          BY <4>1
      <3>2. QED
        BY <3>1, <2>1, <2>2
    <2>4. y * (x \div y) = (q + 1) * y + k * y /\ k * y \in Nat
      BY <1>2, <2>3
    <2>5. QED
      BY <1>2, <1>3, <2>1, <2>4
  <1>5. QED
    BY <1>2, <1>4 DEF Rounded, x, y

LEMMA DistanceType ==
  ASSUME NEW x \in Int, NEW y \in Int
  PROVE  Distance(x, y) \in Nat /\ (x # y => Distance(x, y) # 0)
  BY DEF Distance

(* A size computed for a proposal that is not degenerate is a number of lots. *)
LEMMA PositionSizeType ==
  ASSUME NEW p, IsProposal(p), ~Degenerate(p), NEW equity \in Nat
  PROVE  PositionSize(equity, p) \in Nat
  <1>1. Distance(p.entry, p.stop) \in Nat \ {0}
    BY DistanceType DEF Degenerate, IsProposal
  <1>2. Limits.perTrade \in Nat /\ LotScale \in Nat
    BY LimitsAssumption, LotScaleAssumption DEF LimitsRecord
  <1>3. equity * Limits.perTrade * LotScale \in Nat
    BY <1>2
  <1>4. 10000 * Distance(p.entry, p.stop) \in Nat \ {0}
    BY <1>1
  <1>5. QED
    BY <1>3, <1>4, RoundedType DEF PositionSize

LEMMA FitRoomType ==
  ASSUME NEW pf, IsPortfolio(pf)
  PROVE  FitRoom(pf) \in Nat /\ FitRoom(pf) <= Limits.perTrade
  BY LimitsAssumption DEF IsPortfolio, LimitsRecord, FitRoom

(* A cap never enlarges the size, and cutting down yields no approval. *)
LEMMA CutDownBound ==
  ASSUME NEW pf, IsPortfolio(pf), NEW size \in Nat
  PROVE  /\ CutDown(pf, size).decision \in {"REDUCE_SIZE", "REJECTED"}
         /\ CutDown(pf, size).qty \in Nat
         /\ CutDown(pf, size).qty <= size
         /\ CutDown(pf, size).decision = "REJECTED" => CutDown(pf, size).qty = 0
  <1>1. Limits.perTrade \in Nat \ {0}
    BY LimitsAssumption DEF LimitsRecord
  <1>2. FitRoom(pf) \in Nat /\ FitRoom(pf) <= Limits.perTrade
    BY FitRoomType
  <1>3. size * FitRoom(pf) \in Nat
    BY <1>2
  <1>4. Rounded(size * FitRoom(pf), Limits.perTrade) \in Nat
    BY <1>1, <1>3, RoundedType
  <1>5. Rounded(size * FitRoom(pf), Limits.perTrade) <= size
    BY <1>1, <1>2, RoundedFraction
  <1>6. QED
    BY <1>4, <1>5 DEF CutDown, Verdict, Refused

-----------------------------------------------------------------------------
(* evaluate returns one of the four decisions, and only an approval, full or
   reduced, carries a size: create_order relies on it to refuse a ticket when
   the latest decision is no approval. *)
THEOREM EvaluateType ==
  ASSUME NEW p, IsProposal(p), NEW pf, IsPortfolio(pf), NEW status,
         NEW pending \in BOOLEAN, NEW held
  PROVE  LET v == Evaluate(p, pf, status, pending, held)
         IN  /\ v.decision \in Decision
             /\ v.qty \in Nat
             /\ v.qty # 0 => v.decision \in {"APPROVED", "REDUCE_SIZE"}
  <1> DEFINE size == PositionSize(pf.equity, p)
  <1>1. Refused.decision = "REJECTED" /\ Refused.qty = 0
    BY DEF Refused, Verdict
  <1>2. CASE pf.equity <= 0 \/ QuoteRefused(status) \/ Degenerate(p) \/ Fatal(p, pf)
    BY <1>1, <1>2 DEF Evaluate, Decision
  <1>3. CASE ~(pf.equity <= 0 \/ QuoteRefused(status) \/ Degenerate(p) \/ Fatal(p, pf))
    <2>1. size \in Nat
      <3>1. pf.equity \in Nat
        BY <1>3 DEF IsPortfolio
      <3>2. QED
        BY <1>3, <3>1, PositionSizeType
    <2>2. /\ CutDown(pf, size).decision \in {"REDUCE_SIZE", "REJECTED"}
          /\ CutDown(pf, size).qty \in Nat
          /\ CutDown(pf, size).decision = "REJECTED" => CutDown(pf, size).qty = 0
      BY <2>1, CutDownBound
    <2>3. /\ Uncapped(pending, size).decision \in {"WAIT", "APPROVED"}
          /\ Uncapped(pending, size).qty \in Nat
          /\ Uncapped(pending, size).decision = "WAIT" => Uncapped(pending, size).qty = 0
      BY <2>1 DEF Uncapped, Verdict
    <2>4. Evaluate(p, pf, status, pending, held)
            \in {CutDown(pf, size), Uncapped(pending, size)}
      BY <1>3 DEF Evaluate
    <2>5. QED
      BY <2>2, <2>3, <2>4 DEF Decision
  <1>4. QED
    BY <1>2, <1>3

(* An approval means what the limits say: whatever the figures, a proposal is
   approved only if its full size, added to the book at the entry price, keeps
   the total, the single-asset and the group cap, leaves the daily and weekly
   budgets unspent, meets the reward:risk minimum, and comes from a quote that
   is neither stale nor disconnected. *)
THEOREM ApprovalKeepsLimits ==
  ASSUME NEW p, NEW pf, NEW status, NEW pending \in BOOLEAN, NEW held,
         Evaluate(p, pf, status, pending, held).decision = "APPROVED"
  PROVE  LET added == Evaluate(p, pf, status, pending, held).qty * p.entry
         IN  /\ ~TotalCapHit(p, pf, added)
             /\ ~SingleCapHit(p, pf, added)
             /\ ~GroupCapHit(p, pf, held, added)
             /\ ~DailyCapHit(pf) /\ ~WeeklyCapHit(pf)
             /\ ~RewardRiskTooLow(p) /\ ~DrawdownHalted(pf)
             /\ ~QuoteRefused(status)
             /\ ~pending
  <1> DEFINE size == PositionSize(pf.equity, p)
  <1>1. Refused.decision # "APPROVED" /\ CutDown(pf, size).decision # "APPROVED"
    BY DEF Refused, CutDown, Verdict
  <1>2. /\ ~QuoteRefused(status) /\ ~Fatal(p, pf)
        /\ ~Capped(p, pf, held, size * p.entry)
        /\ Evaluate(p, pf, status, pending, held) = Uncapped(pending, size)
    BY <1>1 DEF Evaluate
  <1>3. ~pending /\ Uncapped(pending, size).qty = size
    BY <1>2 DEF Uncapped, Verdict
  <1>4. QED
    BY <1>2, <1>3 DEF Fatal, Capped

-----------------------------------------------------------------------------
(* Rounding, once more: it follows the fraction, and is off by half a unit  *)
(* at most.                                                                 *)

LEMMA Quotient ==
  ASSUME NEW x \in Nat, NEW y \in Nat \ {0}
  PROVE  /\ x \div y \in Nat
         /\ y * (x \div y) <= x /\ x < y * (x \div y) + y
  <1>1. x \div y \in Nat /\ x = y * (x \div y) + (x % y) /\ x % y \in 0..(y - 1)
    OBVIOUS
  <1> DEFINE q == x \div y
             r == x % y
  <1> HIDE DEF q, r
  <1>2. q \in Nat /\ x = y * q + r /\ r \in 0..(y - 1)
    BY <1>1 DEF q, r
  <1>3. y * q \in Nat
    BY <1>2
  <1>4. y * q <= x /\ x < y * q + y
    BY <1>2, <1>3
  <1>5. QED
    BY <1>2, <1>4 DEF q

LEMMA QuotientGrows ==
  ASSUME NEW x \in Nat, NEW z \in Nat, x <= z, NEW y \in Nat \ {0}
  PROVE  x \div y <= z \div y
  <1> DEFINE q == x \div y
             r == z \div y
  <1>1. q \in Nat /\ y * q <= x
    BY Quotient
  <1>2. r \in Nat /\ z < y * r + y
    BY Quotient
  <1> HIDE DEF q, r
  <1>3. SUFFICES ASSUME r < q PROVE FALSE
    BY <1>1, <1>2 DEF q, r
  <1>4. PICK k \in Nat : q = (r + 1) + k
    <2>1. q - (r + 1) \in Nat /\ q = (r + 1) + (q - (r + 1))
      BY <1>1, <1>2, <1>3
    <2>2. QED
      BY <2>1
  <1>5. y * q = (y * r + y) + y * k /\ y * k \in Nat /\ y * r \in Nat
    BY <1>2, <1>4
  <1>6. QED
    BY <1>1, <1>2, <1>5

LEMMA RoundedGrows ==
  ASSUME NEW a \in Nat, NEW c \in Nat, a <= c, NEW b \in Nat \ {0}
  PROVE  Rounded(a, b) <= Rounded(c, b)
  <1>1. 2 * a + b \in Nat /\ 2 * c + b \in Nat /\ 2 * a + b <= 2 * c + b
    OBVIOUS
  <1>2. 2 * b \in Nat \ {0}
    OBVIOUS
  <1>3. QED
    BY <1>1, <1>2, QuotientGrows DEF Rounded

LEMMA RoundedHalfUp ==
  ASSUME NEW a \in Nat, NEW b \in Nat \ {0}
  PROVE  (2 * b) * Rounded(a, b) <= 2 * a + b
  <1>1. 2 * a + b \in Nat /\ 2 * b \in Nat \ {0}
    OBVIOUS
  <1>2. QED
    BY <1>1, Quotient DEF Rounded

LEMMA TimesGrows ==
  ASSUME NEW x \in Nat, NEW y \in Nat, x <= y, NEW n \in Nat
  PROVE  n * x <= n * y
  <1>1. PICK k \in Nat : y = x + k
    <2>1. y - x \in Nat /\ y = x + (y - x)
      OBVIOUS
    <2>2. QED
      BY <2>1
  <1>2. n * y = n * x + n * k /\ n * x \in Nat /\ n * k \in Nat
    BY <1>1
  <1>3. QED
    BY <1>2

-----------------------------------------------------------------------------
(* The verdicts on one proposal.                                            *)

VerdictRecord == [decision : Decision, qty : Nat]

Refuses(p, pf, status) ==
  pf.equity <= 0 \/ QuoteRefused(status) \/ Degenerate(p) \/ Fatal(p, pf)

LEMMA SizeOfSound ==
  ASSUME NEW p, IsProposal(p), NEW pf, IsPortfolio(pf), NEW status,
         ~Refuses(p, pf, status)
  PROVE  PositionSize(pf.equity, p) \in Nat
  <1>1. pf.equity \in Nat
    BY DEF IsPortfolio, Refuses
  <1>2. QED
    BY <1>1, PositionSizeType DEF Refuses

LEMMA EvaluateIsVerdict ==
  ASSUME NEW p, IsProposal(p), NEW pf, IsPortfolio(pf), NEW status,
         NEW pending \in BOOLEAN, NEW held
  PROVE  LET v == Evaluate(p, pf, status, pending, held)
         IN  /\ v \in VerdictRecord
             /\ v.decision \in {"WAIT", "REJECTED"} => v = Verdict(v.decision, 0)
  <1> DEFINE size == PositionSize(pf.equity, p)
  <1>1. CASE Refuses(p, pf, status)
    BY <1>1 DEF Refuses, Evaluate, Refused, Verdict, VerdictRecord, Decision
  <1>2. CASE ~Refuses(p, pf, status)
    <2>1. size \in Nat
      BY <1>2, SizeOfSound
    <2>2. CutDown(pf, size).qty \in Nat
      BY <2>1, CutDownBound
    <2>3. Evaluate(p, pf, status, pending, held)
            \in {CutDown(pf, size), Uncapped(pending, size)}
      BY <1>2 DEF Refuses, Evaluate
    <2>4. \/ CutDown(pf, size) = Refused
          \/ CutDown(pf, size) = Verdict("REDUCE_SIZE", CutDown(pf, size).qty)
      BY DEF CutDown, Verdict
    <2>5. \/ Uncapped(pending, size) = Verdict("WAIT", 0)
          \/ Uncapped(pending, size) = Verdict("APPROVED", size)
      BY DEF Uncapped
    <2> HIDE DEF size
    <2>6. QED
      BY <2>1, <2>2, <2>3, <2>4, <2>5 DEF Refused, Verdict, VerdictRecord, Decision
  <1>3. QED
    BY <1>1, <1>2

(* What being stopped out of an approved position costs. *)
LEMMA StopCostBound ==
  ASSUME NEW p, IsProposal(p), ~Degenerate(p), NEW equity \in Nat
  PROVE  20000 * PositionSize(equity, p) * Distance(p.entry, p.stop)
           <= 2 * equity * Limits.perTrade * LotScale + 10000 * Distance(p.entry, p.stop)
  <1> DEFINE d == Distance(p.entry, p.stop)
             a == equity * Limits.perTrade * LotScale
             n == PositionSize(equity, p)
  <1>1. d \in Nat \ {0}
    BY DistanceType DEF Degenerate, IsProposal
  <1>2. Limits.perTrade \in Nat /\ LotScale \in Nat
    BY LimitsAssumption, LotScaleAssumption DEF LimitsRecord
  <1>3. a \in Nat
    BY <1>2
  <1>4. n \in Nat
    BY PositionSizeType
  <1>5. n = Rounded(a, 10000 * d)
    BY DEF PositionSize
  <1> HIDE DEF n
  <1>6. 2 * a = 2 * equity * Limits.perTrade * LotScale
    BY <1>2
  <1> HIDE DEF d, a
  <1>7. 10000 * d \in Nat \ {0}
    BY <1>1
  <1>8. (2 * (10000 * d)) * n <= 2 * a + 10000 * d
    BY <1>3, <1>5, <1>7, RoundedHalfUp
  <1>9. (2 * (10000 * d)) * n = 20000 * n * d
    BY <1>1, <1>4
  <1>10. QED
    BY <1>6, <1>8, <1>9 DEF a, d, n

(* More of a figure is above a limit sooner. *)
LEMMA AboveGrows ==
  ASSUME NEW m \in Int, NEW n \in Int, m <= n, NEW equity \in Int, NEW limit \in Nat,
         Above(m, equity, limit)
  PROVE  Above(n, equity, limit)
  <1>1. limit * equity * LotScale \in Int
    BY LotScaleAssumption
  <1> DEFINE c == limit * equity * LotScale
  <1> HIDE DEF c
  <1>2. c \in Int /\ m * 10000 > c
    BY <1>1 DEF Above, c
  <1>3. n * 10000 > c
    BY <1>2
  <1>4. QED
    BY <1>3 DEF Above, c

LEMMA HeldType ==
  ASSUME NEW pf, HasFigures(pf), NEW asset
  PROVE  HeldIn(pf, asset) \in Int
  BY DEF HasFigures, HeldIn

LEMMA WorseIsCapped ==
  ASSUME NEW p, NEW pf, HasFigures(pf), NEW book, HasFigures(book),
         NoBetter(book, pf, p.asset), NEW held, NEW notional \in Int,
         Capped(p, pf, held, notional)
  PROVE  Capped(p, book, held, notional)
  <1>1. /\ Limits.perTrade \in Nat /\ Limits.daily \in Nat /\ Limits.weekly \in Nat
        /\ Limits.total \in Nat /\ Limits.single \in Nat
    BY LimitsAssumption DEF LimitsRecord
  <1>2. /\ pf.equity \in Int /\ pf.daily \in Nat /\ pf.weekly \in Nat /\ pf.total \in Int
        /\ book.daily \in Nat /\ book.weekly \in Nat /\ book.total \in Int
    BY DEF HasFigures, IsPortfolio
  <1>3. HeldIn(pf, p.asset) \in Int /\ HeldIn(book, p.asset) \in Int
    BY HeldType
  <1>4. /\ book.equity = pf.equity
        /\ book.daily >= pf.daily /\ book.weekly >= pf.weekly /\ book.total >= pf.total
        /\ HeldIn(book, p.asset) >= HeldIn(pf, p.asset)
    BY DEF NoBetter
  <1>5. DailyCapHit(pf) => DailyCapHit(book)
    BY <1>1, <1>2, <1>4 DEF DailyCapHit
  <1>6. WeeklyCapHit(pf) => WeeklyCapHit(book)
    BY <1>1, <1>2, <1>4 DEF WeeklyCapHit
  <1>7. TotalCapHit(p, pf, notional) => TotalCapHit(p, book, notional)
    <2>1. pf.total + notional <= book.total + notional
      BY <1>2, <1>4
    <2>2. QED
      BY <1>1, <1>2, <1>4, <2>1, AboveGrows DEF TotalCapHit
  <1>8. SingleCapHit(p, pf, notional) => SingleCapHit(p, book, notional)
    <2>1. HeldIn(pf, p.asset) + notional <= HeldIn(book, p.asset) + notional
      BY <1>3, <1>4
    <2>2. QED
      BY <1>1, <1>2, <1>3, <1>4, <2>1, AboveGrows DEF SingleCapHit
  <1>9. GroupCapHit(p, pf, held, notional) => GroupCapHit(p, book, held, notional)
    BY <1>4 DEF GroupCapHit
  <1>10. QED
    BY <1>5, <1>6, <1>7, <1>8, <1>9 DEF Capped

LEMMA WorseRefuses ==
  ASSUME NEW p, NEW pf, HasFigures(pf), NEW book, HasFigures(book),
         NoBetter(book, pf, p.asset), NEW status, Refuses(p, pf, status)
  PROVE  Refuses(p, book, status)
  <1>1. /\ Limits.drawdown \in Nat /\ pf.drawdown \in Nat /\ book.drawdown \in Nat
        /\ book.equity = pf.equity /\ book.drawdown >= pf.drawdown
    BY LimitsAssumption DEF LimitsRecord, HasFigures, NoBetter
  <1>2. QED
    BY <1>1 DEF Refuses, Fatal, DrawdownHalted

LEMMA WorseFitsLess ==
  ASSUME NEW p, NEW pf, HasFigures(pf), NEW book, HasFigures(book),
         NoBetter(book, pf, p.asset), NEW size \in Nat
  PROVE  /\ Leniency(CutDown(book, size).decision) <= Leniency(CutDown(pf, size).decision)
         /\ CutDown(book, size).qty <= CutDown(pf, size).qty
  <1>1. /\ Limits.perTrade \in Nat \ {0} /\ Limits.daily \in Nat
        /\ pf.daily \in Nat /\ book.daily \in Nat /\ book.daily >= pf.daily
    BY LimitsAssumption DEF LimitsRecord, HasFigures, IsPortfolio, NoBetter
  <1>2. FitRoom(pf) \in Nat /\ FitRoom(book) \in Nat /\ FitRoom(book) <= FitRoom(pf)
    BY <1>1 DEF FitRoom
  <1> DEFINE m == Rounded(size * FitRoom(book), Limits.perTrade)
             n == Rounded(size * FitRoom(pf), Limits.perTrade)
  <1>3. size * FitRoom(book) \in Nat /\ size * FitRoom(pf) \in Nat
        /\ size * FitRoom(book) <= size * FitRoom(pf)
    BY <1>2, TimesGrows
  <1>4. m \in Nat /\ n \in Nat /\ m <= n
    BY <1>1, <1>3, RoundedGrows, RoundedType
  <1>5. CutDown(book, size) = IF 4 * FitRoom(book) >= Limits.perTrade
                              THEN Verdict("REDUCE_SIZE", m) ELSE Refused
    BY DEF CutDown
  <1>6. CutDown(pf, size) = IF 4 * FitRoom(pf) >= Limits.perTrade
                            THEN Verdict("REDUCE_SIZE", n) ELSE Refused
    BY DEF CutDown
  <1> HIDE DEF m, n
  <1>7. QED
    BY <1>1, <1>2, <1>4, <1>5, <1>6 DEF Verdict, Refused, Leniency

LEMMA WorseNeverHelps ==
  ASSUME NEW p, IsProposal(p), NEW pf, HasFigures(pf), NEW book, HasFigures(book),
         NoBetter(book, pf, p.asset), NEW status, NEW held
  PROVE  LET v == Evaluate(p, pf, status, FALSE, held)
             w == Evaluate(p, book, status, FALSE, held)
         IN  Leniency(w.decision) <= Leniency(v.decision) /\ w.qty <= v.qty
  <1> DEFINE size == PositionSize(pf.equity, p)
             v == Evaluate(p, pf, status, FALSE, held)
             w == Evaluate(p, book, status, FALSE, held)
  <1>1. IsPortfolio(pf) /\ IsPortfolio(book) /\ book.equity = pf.equity
    BY DEF HasFigures, NoBetter
  <1>2. v \in VerdictRecord /\ w \in VerdictRecord
    BY <1>1, EvaluateIsVerdict
  <1>3. CASE Refuses(p, book, status)
    <2>1. w = Refused
      BY <1>3 DEF Refuses, Evaluate
    <2> HIDE DEF v, w
    <2>2. w.decision = "REJECTED" /\ w.qty = 0 /\ v.qty \in Nat
      BY <1>2, <2>1 DEF VerdictRecord, Refused, Verdict
    <2>3. Leniency(w.decision) <= Leniency(v.decision)
      BY <2>2 DEF Leniency
    <2>4. w.qty <= v.qty
      BY <2>2
    <2>5. QED
      BY <2>3, <2>4 DEF v, w
  <1>4. CASE ~Refuses(p, book, status)
    <2>1. ~Refuses(p, pf, status)
      BY <1>4, WorseRefuses
    <2>2. size \in Nat
      BY <1>1, <2>1, SizeOfSound
    <2>3. size * p.entry \in Int
      BY <2>2 DEF IsProposal
    <2>4. v = IF Capped(p, pf, held, size * p.entry) THEN CutDown(pf, size)
              ELSE Verdict("APPROVED", size)
      BY <2>1 DEF Refuses, Evaluate, Uncapped
    <2>5. w = IF Capped(p, book, held, size * p.entry) THEN CutDown(book, size)
              ELSE Verdict("APPROVED", size)
      BY <1>1, <1>4 DEF Refuses, Evaluate, Uncapped
    <2>6. Capped(p, pf, held, size * p.entry) => Capped(p, book, held, size * p.entry)
      BY <2>3, WorseIsCapped
    <2>7. /\ Leniency(CutDown(book, size).decision) <= Leniency(CutDown(pf, size).decision)
          /\ CutDown(book, size).qty <= CutDown(pf, size).qty
      BY <2>2, WorseFitsLess
    <2>8. CutDown(book, size).qty <= size /\ CutDown(book, size).qty \in Nat
      BY <1>1, <2>2, CutDownBound
    <2>9. Leniency("APPROVED") = 2 /\ \A d : Leniency(d) \in 0..2
      BY DEF Leniency
    <2> HIDE DEF v, w, size
    <2>10. CASE Capped(p, pf, held, size * p.entry)
      <3>1. v = CutDown(pf, size) /\ w = CutDown(book, size)
        BY <2>4, <2>5, <2>6, <2>10
      <3>2. QED
        BY <2>7, <3>1 DEF v, w
    <2>11. CASE ~Capped(p, pf, held, size * p.entry)
      <3>1. v.decision = "APPROVED" /\ v.qty = size
        BY <2>4, <2>11 DEF Verdict
      <3>2. w.qty <= size
        BY <2>2, <2>5, <2>8 DEF Verdict
      <3>3. Leniency(w.decision) <= Leniency(v.decision)
        BY <2>9, <3>1
      <3>4. QED
        BY <3>1, <3>2, <3>3 DEF v, w
    <2>12. QED
      BY <2>10, <2>11
  <1>5. QED
    BY <1>3, <1>4

-----------------------------------------------------------------------------
(* One call: its verdict is the one evaluate reaches, or there is none yet. *)

CallInv ==
  /\ call \in [proposal : Proposals, portfolio : Portfolios,
               status : DataStatus \cup {NoQuote}, pending : BOOLEAN,
               verdict : VerdictRecord \cup {NotEvaluated}]
  /\ call.verdict \in {NotEvaluated, Evaluated(call)}

LEMMA CallShape ==
  ASSUME CallInv
  PROVE  /\ IsProposal(call.proposal)
         /\ HasFigures(call.portfolio) /\ IsPortfolio(call.portfolio)
         /\ call.pending \in BOOLEAN
  BY ReviewAssumption DEF CallInv, HasFigures

LEMMA CallInvHolds == ReviewSpec => []CallInv
  <1>1. ReviewInit => CallInv
    BY DEF ReviewInit, CallInv
  <1>2. CallInv /\ [Review]_call => CallInv'
    <2>1. SUFFICES ASSUME CallInv, Review PROVE CallInv'
      BY DEF CallInv, Evaluated
    <2>2. Evaluated(call) \in VerdictRecord
      BY <2>1, CallShape, EvaluateIsVerdict DEF Evaluated
    <2>3. call' = [call EXCEPT !.verdict = Evaluated(call)]
      BY <2>1 DEF Review
    <2>4. /\ call'.proposal = call.proposal /\ call'.portfolio = call.portfolio
          /\ call'.status = call.status /\ call'.pending = call.pending
          /\ call'.verdict = Evaluated(call)
      BY <2>1, <2>3 DEF CallInv
    <2>5. Evaluated(call)' = Evaluated(call)
      BY <2>4 DEF Evaluated
    <2>6. QED
      BY <2>1, <2>2, <2>3, <2>4, <2>5 DEF CallInv
  <1>3. QED
    BY <1>1, <1>2, PTL DEF ReviewSpec

(* What an approval means, for every limit, proposal and portfolio: the position
   fits the caps, and being stopped out costs the risk meant for it; a refused
   or postponed proposal has no size (evaluate, position_size). *)
THEOREM VerdictsAreSound == ReviewSpec => []VerdictInv
  <1>1. CallInv => VerdictInv
    <2>1. SUFFICES ASSUME CallInv PROVE VerdictInv
      OBVIOUS
    <2> DEFINE p == call.proposal
               pf == call.portfolio
               v == call.verdict
    <2>2. IsProposal(p) /\ HasFigures(pf) /\ IsPortfolio(pf)
      BY <2>1, CallShape
    <2>3. CASE v = NotEvaluated
      BY <2>3 DEF VerdictInv, VerdictOK, ApprovedTradeFits, Is, NotEvaluated, Verdict
    <2>4. CASE v = Evaluate(p, pf, call.status, call.pending, HeldByGroup)
      <3>1. v \in VerdictRecord /\ (v.decision \in {"WAIT", "REJECTED"} => v = Verdict(v.decision, 0))
        BY <2>1, <2>2, <2>4, CallShape, EvaluateIsVerdict
      <3>2. VerdictOK
        BY <3>1 DEF VerdictOK, Is, VerdictRecord, Decision, Verdict
      <3>3. ASSUME v.decision = "APPROVED"
            PROVE  /\ WithinCaps
                   /\ StopCost(p, v.qty) <= RiskMeant(pf) + HalfALot(p)
        <4>1. LET added == v.qty * p.entry
              IN  /\ ~TotalCapHit(p, pf, added)
                  /\ ~SingleCapHit(p, pf, added)
                  /\ ~GroupCapHit(p, pf, HeldByGroup, added)
          BY <2>1, <2>4, <3>3, CallShape, ApprovalKeepsLimits
        <4>2. /\ v.qty = PositionSize(pf.equity, p)
              /\ ~Refuses(p, pf, call.status)
          BY <2>4, <3>3 DEF Evaluate, Refuses, Refused, CutDown, Uncapped, Verdict
        <4>3. pf.equity \in Nat /\ ~Degenerate(p)
          BY <2>2, <4>2 DEF Refuses, IsPortfolio
        <4>4. StopCost(p, v.qty) <= RiskMeant(pf) + HalfALot(p)
          BY <2>2, <4>2, <4>3, StopCostBound DEF StopCost, RiskMeant, HalfALot
        <4>5. v.qty * p.entry \in Int
          BY <2>2, <3>1 DEF IsProposal, VerdictRecord
        <4>6. /\ Limits.total \in Nat /\ Limits.single \in Nat /\ Limits.group \in Nat
              /\ LotScale \in Nat
          BY LimitsAssumption, LotScaleAssumption DEF LimitsRecord
        <4>7. \A n \in Int, limit \in Nat :
                ~Above(n, pf.equity, limit) =>
                  10000 * n <= limit * pf.equity * LotScale
          <5>1. SUFFICES ASSUME NEW n \in Int, NEW limit \in Nat, ~Above(n, pf.equity, limit)
                         PROVE  10000 * n <= limit * pf.equity * LotScale
            OBVIOUS
          <5> DEFINE c == limit * pf.equity * LotScale
          <5>2. c \in Int /\ ~(n * 10000 > c)
            BY <4>3, <4>6, <5>1 DEF Above
          <5> HIDE DEF c
          <5>3. 10000 * n <= c
            BY <5>2
          <5>4. QED
            BY <5>3 DEF c
        <4>8. pf.total \in Int /\ HeldIn(pf, p.asset) \in Int /\ HeldByGroup \in Int
          BY <2>2, HeldType, ReviewAssumption DEF HasFigures
        <4> DEFINE added == v.qty * p.entry
        <4>9. 10000 * (pf.total + added) <= Limits.total * pf.equity * LotScale
          BY <4>1, <4>5, <4>6, <4>7, <4>8 DEF TotalCapHit
        <4>10. 10000 * (HeldIn(pf, p.asset) + added) <= Limits.single * pf.equity * LotScale
          BY <4>1, <4>5, <4>6, <4>7, <4>8 DEF SingleCapHit
        <4>11. p.group # NoGroup =>
                 10000 * (HeldByGroup + added) <= Limits.group * pf.equity * LotScale
          BY <4>1, <4>5, <4>6, <4>7, <4>8 DEF GroupCapHit
        <4>12. QED
          BY <4>4, <4>9, <4>10, <4>11 DEF WithinCaps
      <3>4. QED
        BY <3>2, <3>3 DEF VerdictInv, ApprovedTradeFits, Is
    <2>5. QED
      BY <2>1, <2>3, <2>4 DEF CallInv, Evaluated
  <1>2. QED
    BY <1>1, CallInvHolds, PTL

(* A book that is worse in any of its figures, or in several, never earns the
   same proposal a more lenient verdict or a larger size (evaluate, _fit_factor). *)
THEOREM WorseBooksNeverHelp == ReviewSpec => []WorseBookNeverHelps
  <1>1. CallInv => WorseBookNeverHelps
    <2>1. SUFFICES ASSUME CallInv, ~call.pending, call.verdict # NotEvaluated,
                          NEW book \in Portfolios,
                          NoBetter(book, call.portfolio, call.proposal.asset)
                   PROVE  LET other == Evaluated([call EXCEPT !.portfolio = book])
                          IN  /\ Leniency(other.decision) <= Leniency(call.verdict.decision)
                              /\ other.qty <= call.verdict.qty
      BY DEF WorseBookNeverHelps
    <2>2. IsProposal(call.proposal) /\ HasFigures(call.portfolio) /\ HasFigures(book)
      BY <2>1, CallShape, ReviewAssumption
    <2>3. call.pending = FALSE
      BY <2>1, CallShape
    <2>4. call.verdict = Evaluate(call.proposal, call.portfolio, call.status, FALSE, HeldByGroup)
      BY <2>1, <2>3 DEF CallInv, Evaluated
    <2>5. Evaluated([call EXCEPT !.portfolio = book])
            = Evaluate(call.proposal, book, call.status, FALSE, HeldByGroup)
      BY <2>1, <2>3 DEF CallInv, Evaluated
    <2>6. QED
      BY <2>1, <2>2, <2>4, <2>5, WorseNeverHelps
  <1>2. QED
    BY <1>1, CallInvHolds, PTL

(* The traffic light agrees with the verdicts, for all limits that leave 40% of
   the daily risk for one trade (snapshot_verdict, evaluate). *)
THEOREM LightsAgree ==
  ASSUME 10 * Limits.perTrade <= 4 * Limits.daily
  PROVE  ReviewSpec => []LightAgrees
  <1>1. CallInv => LightAgrees
    <2>1. SUFFICES ASSUME CallInv PROVE LightAgrees
      OBVIOUS
    <2> DEFINE p == call.proposal
               pf == call.portfolio
               v == call.verdict
    <2>2. /\ Limits.perTrade \in Nat \ {0} /\ Limits.daily \in Nat /\ pf.daily \in Nat
      BY <2>1, CallShape, LimitsAssumption DEF LimitsRecord, IsPortfolio
    <2>3. ASSUME SnapshotVerdict(pf) = "RED_LIGHT", v # NotEvaluated
          PROVE  v.decision = "REJECTED"
      <3>1. DrawdownHalted(pf)
        BY <2>3 DEF SnapshotVerdict
      <3>2. v = Evaluate(p, pf, call.status, call.pending, HeldByGroup)
        BY <2>1, <2>3 DEF CallInv, Evaluated
      <3>3. v = Refused
        BY <3>1, <3>2 DEF Evaluate, Fatal
      <3>4. QED
        BY <3>3 DEF Refused, Verdict
    <2>4. ASSUME SnapshotVerdict(pf) = "GREEN_LIGHT"
          PROVE  ~DailyCapHit(pf) /\ FitRoom(pf) = Limits.perTrade
      <3>1. ~(10 * pf.daily >= 6 * Limits.daily)
        BY <2>4 DEF SnapshotVerdict
      <3>2. QED
        BY <2>2, <3>1 DEF DailyCapHit, FitRoom
    <2>5. QED
      BY <2>3, <2>4 DEF LightAgrees, Is
  <1>2. QED
    BY <1>1, CallInvHolds, PTL

-----------------------------------------------------------------------------
(* The trade desk: types.                                                  *)

(* What a request in flight carries at each of its steps. *)
LEMMA JobShape ==
  ASSUME NEW j \in Job
  PROVE  /\ j.at = "review" =>
              j \in [at : {"review"}, idea : Idea, seen : IdeaState,
                     decision : Decision, qty : Nat, ts : Nat]
         /\ j.at = "publish" => j \in [at : {"publish"}, idea : Idea, ts : Nat]
         /\ j.at \in {"log", "audit"} =>
              j \in [at : {"log", "audit"}, idea : Idea, ts : Nat, status : FaroOutcome]
         /\ j.at = "ticket" =>
              j \in [at : {"ticket"}, idea : Idea, type : OrderTypes, qty : TypedQty]
  BY DEF Job, Idle

(* An order row that is not the empty one is a ticket. *)
LEMMA TicketShape ==
  ASSUME NEW t \in Ticket \cup {NoTicket}
  PROVE  /\ t = NoTicket <=> t.state = "NONE"
         /\ t # NoTicket => t \in Ticket
  BY DEF Ticket, NoTicket, OrderState

(* The verdict a review reads is well typed, and sized only if it approves. *)
LEMMA VerdictType ==
  ASSUME NEW i \in Idea
  PROVE  LET v == Evaluate(Terms[i], Portfolio, quote[Terms[i].asset].status, FALSE, 0)
         IN  /\ v.decision \in Decision
             /\ v.qty \in Nat
             /\ v.qty # 0 => v.decision \in {"APPROVED", "REDUCE_SIZE"}
  <1>1. IsProposal(Terms[i])
    BY DeskAssumption DEF IsProposal, Proposal
  <1>2. IsPortfolio(Portfolio)
    BY DeskAssumption DEF IsPortfolio, Portfolio
  <1>3. QED
    BY <1>1, <1>2, EvaluateType

LEMMA StateOfType ==
  ASSUME NEW d \in Decision
  PROVE  StateOf(d) \in IdeaState
  BY DEF StateOf, Decision, IdeaState

(* A confirmation can only be of a ticket that awaits it. *)
LEMMA ConfirmableAwaits ==
  ASSUME TypeOK, NEW o \in Order, Confirmable(o)
  PROVE  /\ orders[o] \in Ticket
         /\ orders[o].state = Awaiting
         /\ quote[Terms[orders[o].idea].asset] \in QuoteRow
         /\ Terms[orders[o].idea].asset \in Asset
  <1>1. orders[o] \in Ticket
    BY TicketShape DEF TypeOK, Confirmable
  <1>2. orders[o].state = Awaiting
    <2>1. orders[o].state \in OrderState
      BY <1>1 DEF Ticket
    <2>2. "SUBMITTED" \in Transitions[orders[o].state]
      BY DEF Confirmable, CanTransition
    <2>3. QED
      BY <2>1, <2>2 DEF Transitions, OrderState, Awaiting
  <1>3. orders[o].idea \in Idea
    BY <1>1 DEF Ticket
  <1>4. Terms[orders[o].idea].asset \in Asset
    BY <1>3 DEF Asset
  <1>5. QED
    BY <1>1, <1>2, <1>4 DEF TypeOK, Confirmable

(* A fill covers a natural number of lots, no more than the order's. *)
LEMMA FillSizeBound ==
  ASSUME NEW qty \in Nat, NEW share \in FillShare
  PROVE  FillSize(qty, share) \in Nat /\ FillSize(qty, share) <= qty
  <1>1. share \in Nat /\ share <= 100
    BY DeskAssumption
  <1>2. qty * share \in Nat
    BY <1>1
  <1>3. Rounded(qty * share, 100) \in Nat
    BY <1>2, RoundedType
  <1>4. Rounded(qty * share, 100) <= qty
    BY <1>1, RoundedFraction
  <1>5. QED
    BY <1>3, <1>4 DEF FillSize

LEMMA FillPriceType ==
  ASSUME NEW t \in Ticket, NEW q \in QuoteRow
  PROVE  FillPrice(t, q) \in Int
  <1>1. Terms[t.idea].entry \in Int
    BY DeskAssumption DEF Ticket, Proposal
  <1>2. q.price \in Prices
    BY DEF QuoteRow
  <1>3. q.price \in Int /\ Slip \in Int
    <2>1. Prices \subseteq Int /\ Slip \in Int
      BY DeskAssumption
    <2>2. QED
      BY <2>1, <1>2
  <1>4. QED
    BY <1>1, <1>3 DEF FillPrice, Limit

(* A request for a ticket may have a natural number typed in as its size, and
   what is not typed comes from a committed decision. *)
LEMMA TicketSizeType ==
  ASSUME decisions \subseteq DecisionRow, NEW i \in Idea, NEW typed \in TypedQty,
         DecisionsOn(i) # {} => LatestDecision(i) \in DecisionsOn(i)
  PROVE  TicketSize(i, typed) \in Nat
  <1>1. TypedQty \subseteq Nat
    BY DeskAssumption
  <1>2. DecisionsOn(i) \subseteq DecisionRow
    BY DEF DecisionsOn
  <1>3. \A d \in DecisionRow : d.qty \in Nat
    BY DEF DecisionRow
  <1>4. QED
    BY <1>1, <1>2, <1>3 DEF TicketSize

-----------------------------------------------------------------------------
(* The clock.  Every stamp that was handed out lies behind nextTs, so there *)
(* is a latest decision on every idea that was decided.                     *)

Stamped == {"review", "publish", "log", "audit"}

Stamps ==
  /\ \A d \in decisions : d.ts < nextTs
  /\ \A w \in Worker : job[w].at \in Stamped => job[w].ts < nextTs

(* A nonempty set of natural numbers with a bound has a greatest member. *)
LEMMA GreatestNatural ==
  ASSUME NEW T, T \subseteq Nat, T # {}, NEW n \in Nat, \A t \in T : t < n
  PROVE  \E t \in T : \A u \in T : u <= t
  <1> DEFINE Below == {n - t : t \in T}
  <1>1. Below \subseteq Nat /\ Below # {}
    <2>1. \A t \in T : n - t \in Nat
      OBVIOUS
    <2>2. PICK t \in T : TRUE
      OBVIOUS
    <2>3. n - t \in Below
      OBVIOUS
    <2>4. QED
      BY <2>1, <2>3
  <1> DEFINE R == OpToRel(<, Nat)
  <1>2. IsWellFoundedOn(R, Nat)
    BY NatLessThanWellFounded
  <1> HIDE DEF R
  <1>3. PICK x \in Below : \A y \in Below : ~(<<y, x>> \in R)
    BY <1>1, <1>2, WFMin
  <1>4. \A y \in Below : ~(y < x)
    BY <1>1, <1>3 DEF R, OpToRel
  <1>5. PICK t \in T : x = n - t
    OBVIOUS
  <1>6. \A u \in T : u <= t
    <2>1. TAKE u \in T
    <2>2. n - u \in Below
      OBVIOUS
    <2>3. ~(n - u < n - t)
      BY <1>4, <1>5, <2>2
    <2>4. QED
      BY <2>3
  <1>7. QED
    BY <1>6

LEMMA LatestDecisionExists ==
  ASSUME TypeOK, Stamps, NEW i \in Idea, DecisionsOn(i) # {}
  PROVE  /\ LatestDecision(i) \in DecisionsOn(i)
         /\ \A e \in DecisionsOn(i) : e.ts <= LatestDecision(i).ts
  <1> DEFINE T == {d.ts : d \in DecisionsOn(i)}
  <1>1. \A d \in DecisionsOn(i) : d.ts \in Nat /\ d.ts < nextTs
    BY DEF TypeOK, Stamps, DecisionsOn, DecisionRow
  <1>2. T \subseteq Nat /\ T # {} /\ \A t \in T : t < nextTs
    BY <1>1
  <1>3. nextTs \in Nat
    BY DEF TypeOK
  <1> HIDE DEF T
  <1>4. PICK t \in T : \A u \in T : u <= t
    BY <1>2, <1>3, GreatestNatural
  <1>5. \E d \in DecisionsOn(i) : \A e \in DecisionsOn(i) : e.ts <= d.ts
    BY <1>4 DEF T
  <1>6. QED
    BY <1>5 DEF LatestDecision

(* A ticket is issued for an idea, with a size, and awaits its human. *)
LEMMA CreateOrderType ==
  ASSUME TypeOK, Stamps, NEW w \in Worker, NEW o \in Order, CreateOrder(w, o)
  PROVE  /\ job[w] \in [at : {"ticket"}, idea : Idea, type : OrderTypes, qty : TypedQty]
         /\ orders' \in [Order -> Ticket \cup {NoTicket}]
         /\ orders'[o].state = Awaiting
         /\ orders'[o].idea = job[w].idea
         /\ orders'[o].qty = TicketSize(job[w].idea, job[w].qty)
         /\ \A x \in Order \ {o} : orders'[x] = orders[x]
  <1> DEFINE size == TicketSize(job[w].idea, job[w].qty)
             side == IF Terms[job[w].idea].direction = "LONG" THEN "BUY" ELSE "SELL"
             t    == [state |-> Awaiting, idea |-> job[w].idea, side |-> side,
                      type |-> job[w].type, qty |-> size, confirmed |-> FALSE]
  <1>1. job[w] \in [at : {"ticket"}, idea : Idea, type : OrderTypes, qty : TypedQty]
    BY JobShape DEF TypeOK, CreateOrder, At
  <1>2. size \in Nat
    BY <1>1, LatestDecisionExists, TicketSizeType DEF TypeOK
  <1>3. size > 0
    BY DEF CreateOrder, HasSize
  <1>4. side \in {"BUY", "SELL"}
    OBVIOUS
  <1>5. orders' = [orders EXCEPT ![o] = t]
    BY DEF CreateOrder
  <1> HIDE DEF size, side
  <1>6. t \in Ticket
    BY <1>1, <1>2, <1>3, <1>4 DEF Ticket, OrderState, Awaiting
  <1>7. t.state = Awaiting /\ t.idea = job[w].idea /\ t.qty = size
    OBVIOUS
  <1> HIDE DEF t
  <1>8. QED
    BY <1>1, <1>5, <1>6, <1>7 DEF TypeOK, size

(* A confirmation that trades moves its order from the ticket to the ledger. *)
LEMMA ConfirmFillType ==
  ASSUME TypeOK, NEW o \in Order, ConfirmFill(o)
  PROVE  \E f \in Fill :
           /\ orders[o] \in Ticket
           /\ orders[o].state = Awaiting
           /\ fills' = Append(fills, f)
           /\ fills' \in Seq(Fill)
           /\ f.order = o
           /\ f.qty <= orders[o].qty
           /\ orders' \in [Order -> Ticket \cup {NoTicket}]
           /\ orders'[o] \in Ticket
           /\ orders'[o].state = IF f.qty = orders[o].qty THEN "FILLED" ELSE "PARTIAL_FILL"
           /\ orders'[o].confirmed
           /\ orders'[o].idea = orders[o].idea
           /\ orders'[o].qty = orders[o].qty
           /\ \A x \in Order \ {o} : orders'[x] = orders[x]
  <1> DEFINE t == orders[o]
             q == quote[Terms[t.idea].asset]
  <1>1. /\ t \in Ticket /\ t.state = Awaiting
        /\ q \in QuoteRow /\ Terms[t.idea].asset \in Asset
    BY ConfirmableAwaits DEF ConfirmFill
  <1>2. PICK share \in FillShare :
          /\ orders' = [orders EXCEPT
               ![o].state = IF FillSize(t.qty, share) >= t.qty THEN "FILLED" ELSE "PARTIAL_FILL",
               ![o].confirmed = TRUE]
          /\ fills' = Append(fills,
               [order |-> o, asset |-> Terms[t.idea].asset, side |-> t.side,
                qty |-> FillSize(t.qty, share), price |-> FillPrice(t, q)])
    BY DEF ConfirmFill
  <1> DEFINE size == FillSize(t.qty, share)
             s == IF size >= t.qty THEN "FILLED" ELSE "PARTIAL_FILL"
             f == [order |-> o, asset |-> Terms[t.idea].asset, side |-> t.side,
                   qty |-> size, price |-> FillPrice(t, q)]
             t2 == [t EXCEPT !.state = s, !.confirmed = TRUE]
  <1>3. t.qty \in Nat /\ t.side \in {"BUY", "SELL"}
    BY <1>1 DEF Ticket
  <1>4. size \in Nat /\ size <= t.qty
    BY <1>3, FillSizeBound
  <1>5. FillPrice(t, q) \in Int
    BY <1>1, FillPriceType
  <1>6. fills' = Append(fills, f) /\ orders' = [orders EXCEPT ![o] = t2]
    BY <1>2 DEF TypeOK
  <1> HIDE DEF size, q
  <1>7. f \in Fill /\ f.order = o /\ f.qty = size
    BY <1>1, <1>3, <1>4, <1>5 DEF Fill
  <1>8. s = IF size = t.qty THEN "FILLED" ELSE "PARTIAL_FILL"
    BY <1>3, <1>4
  <1>9. s \in OrderState
    BY DEF OrderState
  <1> HIDE DEF s
  <1>10. /\ t2 \in Ticket /\ t2.state = s /\ t2.confirmed
         /\ t2.idea = t.idea /\ t2.qty = t.qty
    BY <1>1, <1>9 DEF Ticket
  <1> HIDE DEF t2, f
  <1>11. /\ orders' \in [Order -> Ticket \cup {NoTicket}]
         /\ orders'[o] = t2
         /\ \A x \in Order \ {o} : orders'[x] = orders[x]
    BY <1>6, <1>10 DEF TypeOK
  <1>12. fills' \in Seq(Fill)
    BY <1>6, <1>7 DEF TypeOK
  <1>13. QED
    BY <1>1, <1>4, <1>6, <1>7, <1>8, <1>10, <1>11, <1>12

-----------------------------------------------------------------------------
(* Type correctness: the types alone are not inductive, since the size of a *)
(* ticket comes from the latest decision, which the stamps give.            *)

Base == TypeOK /\ Stamps

LEMMA BaseInit == Init => Base
  <1> SUFFICES ASSUME Init PROVE Base
    OBVIOUS
  <1>1. TypeOK
    BY DEF Init, TypeOK, Job
  <1>2. Stamps
    BY DEF Init, Stamps, Stamped, Idle
  <1>3. QED
    BY <1>1, <1>2 DEF Base

(* A step that only moves the request of one worker. *)
LEMMA JobType ==
  ASSUME job \in [Worker -> Job], NEW w \in Worker, NEW j \in Job,
         job' = [job EXCEPT ![w] = j]
  PROVE  /\ job' \in [Worker -> Job]
         /\ job'[w] = j
         /\ \A u \in Worker \ {w} : job'[u] = job[u]
  OBVIOUS

LEMMA BaseStep == Base /\ [Next]_vars => Base'
  <1> SUFFICES ASSUME Base, [Next]_vars PROVE Base'
    OBVIOUS
  <1> USE DEF Base
  <1>1. ASSUME NEW i \in Idea, CreateIdea(i) PROVE Base'
    BY <1>1 DEF CreateIdea, TypeOK, Stamps, IdeaState
  <1>2. ASSUME NEW w \in Worker, NEW i \in Idea, ReviewRead(w, i) PROVE Base'
    <2> DEFINE v == Evaluate(Terms[i], Portfolio, quote[Terms[i].asset].status, FALSE, 0)
               j == [at |-> "review", idea |-> i, seen |-> ideaState[i],
                     decision |-> v.decision, qty |-> v.qty, ts |-> nextTs]
    <2>1. v.decision \in Decision /\ v.qty \in Nat
      BY VerdictType
    <2>2. ideaState[i] \in IdeaState
      BY <1>2 DEF TypeOK, ReviewRead
    <2>3. job' = [job EXCEPT ![w] = j] /\ nextTs' = nextTs + 1
          /\ UNCHANGED <<ideaState, decisions, orders, fills, audit, quote, outbox, delivered>>
      BY <1>2 DEF ReviewRead, Starts
    <2>9. overlaps' \subseteq SUBSET Nat
      <3>1. SUFFICES ASSUME NEW p \in overlaps', p \notin overlaps PROVE p \subseteq Nat
        BY DEF TypeOK
      <3>2. PICK u \in Reviewing(i) : p = {job[u].ts, nextTs}
        BY <1>2, <3>1 DEF ReviewRead
      <3>3. job[u].ts \in Nat /\ nextTs \in Nat
        BY JobShape DEF TypeOK, Reviewing, At
      <3>4. QED
        BY <3>2, <3>3
    <2> HIDE DEF v
    <2>4. j \in Job
      BY <2>1, <2>2 DEF Job, TypeOK
    <2>5. j.ts = nextTs
      OBVIOUS
    <2> HIDE DEF j
    <2>6. TypeOK'
      BY <2>3, <2>4, <2>9 DEF TypeOK
    <2>7. Stamps'
      BY <2>3, <2>4, <2>5, JobType, JobShape DEF Stamps, Stamped, TypeOK, DecisionRow
    <2>8. QED
      BY <2>6, <2>7
  <1>3. ASSUME NEW w \in Worker, ReviewCommit(w) PROVE Base'
    <2> DEFINE j == job[w]
               k == IF Published(j.decision)
                    THEN [at |-> "publish", idea |-> j.idea, ts |-> j.ts] ELSE Idle
               d == [idea |-> j.idea, decision |-> j.decision, qty |-> j.qty, ts |-> j.ts]
    <2>1. j \in [at : {"review"}, idea : Idea, seen : IdeaState,
                 decision : Decision, qty : Nat, ts : Nat]
      BY <1>3, JobShape DEF TypeOK, ReviewCommit, At
    <2>2. j.ts < nextTs
      BY <2>1 DEF Stamps, Stamped
    <2>3. k \in Job /\ (k.at \in Stamped => k.ts < nextTs)
      BY <2>1, <2>2 DEF Job, Stamped, Idle
    <2>4. d \in DecisionRow /\ d.ts < nextTs
      BY <2>1, <2>2 DEF DecisionRow
    <2>5. job' = [job EXCEPT ![w] = k] /\ decisions' = decisions \cup {d}
          /\ UNCHANGED <<orders, fills, quote, outbox, delivered, nextTs, overlaps>>
      BY <1>3 DEF ReviewCommit, Becomes
    <2>6. ideaState' \in [Idea -> IdeaState \cup {"NONE"}]
      BY <1>3, <2>1, StateOfType DEF ReviewCommit, TypeOK
    <2> HIDE DEF j, k, d
    <2>7. TypeOK'
      BY <2>3, <2>4, <2>5, <2>6 DEF TypeOK
    <2>8. Stamps'
      BY <2>3, <2>4, <2>5, JobType DEF Stamps, TypeOK
    <2>9. QED
      BY <2>7, <2>8
  <1>4. ASSUME NEW w \in Worker, FaroSend(w) PROVE Base'
    <2>1. job[w] \in [at : {"publish"}, idea : Idea, ts : Nat]
      BY <1>4, JobShape DEF TypeOK, FaroSend, At
    <2>2. job[w].ts < nextTs
      BY <2>1 DEF Stamps, Stamped
    <2>3. PICK status \in FaroOutcome :
            job' = [job EXCEPT ![w] =
              IF status = "OFF" THEN Idle
              ELSE [at |-> "log", idea |-> job[w].idea, ts |-> job[w].ts, status |-> status]]
      BY <1>4 DEF FaroSend, Becomes
    <2> DEFINE k == IF status = "OFF" THEN Idle
                    ELSE [at |-> "log", idea |-> job[w].idea, ts |-> job[w].ts,
                          status |-> status]
    <2>4. k \in Job /\ (k.at \in Stamped => k.ts < nextTs)
      BY <2>1, <2>2 DEF Job, Stamped, Idle
    <2>5. delivered' \subseteq delivered \cup {job[w].ts}
      BY <1>4 DEF FaroSend
    <2>6. UNCHANGED <<ideaState, decisions, orders, fills, quote, outbox, nextTs, overlaps>>
      BY <1>4 DEF FaroSend
    <2> HIDE DEF k
    <2>7. job' = [job EXCEPT ![w] = k]
      BY <2>3 DEF k
    <2>8. TypeOK'
      BY <2>1, <2>4, <2>5, <2>6, <2>7 DEF TypeOK
    <2>9. Stamps'
      BY <2>4, <2>6, <2>7, JobType DEF Stamps, TypeOK
    <2>10. QED
      BY <2>8, <2>9
  <1>5. ASSUME NEW w \in Worker, FaroLog(w) PROVE Base'
    <2>1. job[w] \in [at : {"log", "audit"}, idea : Idea, ts : Nat, status : FaroOutcome]
      BY <1>5, JobShape DEF TypeOK, FaroLog, At
    <2> DEFINE k == [job[w] EXCEPT !.at = "audit"]
    <2>2. k \in Job /\ k.ts = job[w].ts /\ job[w].at \in Stamped
      BY <2>1, <1>5 DEF Job, Stamped, FaroLog, At
    <2>3. job' = [job EXCEPT ![w] = k]
          /\ UNCHANGED <<ideaState, decisions, orders, fills, quote, delivered, nextTs, overlaps>>
      BY <1>5 DEF FaroLog, Becomes
    <2>4. outbox' \subseteq [idea : Idea, ts : Nat, status : FaroOutcome]
      BY <1>5, <2>1 DEF FaroLog, TypeOK
    <2> HIDE DEF k
    <2>5. TypeOK'
      BY <2>2, <2>3, <2>4 DEF TypeOK
    <2>6. Stamps'
      BY <2>2, <2>3, JobType DEF Stamps, TypeOK
    <2>7. QED
      BY <2>5, <2>6
  <1>6. ASSUME NEW w \in Worker, FaroAudit(w) PROVE Base'
    <2>1. Idle \in Job /\ Idle.at \notin Stamped
      BY DEF Job, Idle, Stamped
    <2>2. job' = [job EXCEPT ![w] = Idle]
          /\ UNCHANGED <<ideaState, decisions, orders, fills, quote, outbox, delivered, nextTs, overlaps>>
      BY <1>6 DEF FaroAudit, Becomes
    <2>3. TypeOK' /\ Stamps'
      BY <2>1, <2>2, JobType DEF TypeOK, Stamps
    <2>4. QED
      BY <2>3
  <1>7. ASSUME NEW w \in Worker, NEW i \in Idea, NEW type \in OrderTypes,
               NEW qty \in TypedQty, TicketCheck(w, i, type, qty)
        PROVE  Base'
    <2> DEFINE k == [at |-> "ticket", idea |-> i, type |-> type, qty |-> qty]
    <2>1. k \in Job /\ k.at \notin Stamped
      BY DEF Job, Stamped
    <2>2. job' = [job EXCEPT ![w] = k]
          /\ UNCHANGED <<ideaState, decisions, orders, fills, quote, outbox, delivered, nextTs, overlaps>>
      BY <1>7 DEF TicketCheck, Starts
    <2> HIDE DEF k
    <2>3. TypeOK' /\ Stamps'
      BY <2>1, <2>2, JobType DEF TypeOK, Stamps
    <2>4. QED
      BY <2>3
  <1>8. ASSUME NEW w \in Worker, NEW o \in Order, CreateOrder(w, o) PROVE Base'
    <2>1. Idle \in Job /\ Idle.at \notin Stamped
      BY DEF Job, Idle, Stamped
    <2>2. job' = [job EXCEPT ![w] = Idle]
          /\ UNCHANGED <<ideaState, decisions, fills, quote, outbox, delivered, nextTs, overlaps>>
      BY <1>8 DEF CreateOrder, Becomes
    <2>3. orders' \in [Order -> Ticket \cup {NoTicket}]
      BY <1>8, CreateOrderType DEF TypeOK
    <2>4. TypeOK' /\ Stamps'
      BY <2>1, <2>2, <2>3, JobType DEF TypeOK, Stamps
    <2>5. QED
      BY <2>4
  <1>9. ASSUME NEW w \in Worker, CreateOrderWithoutSize(w) PROVE Base'
    <2>1. Idle \in Job /\ Idle.at \notin Stamped
      BY DEF Job, Idle, Stamped
    <2>2. job' = [job EXCEPT ![w] = Idle]
          /\ UNCHANGED <<ideaState, decisions, orders, fills, quote, outbox, delivered, nextTs, overlaps>>
      BY <1>9 DEF CreateOrderWithoutSize, Becomes
    <2>3. TypeOK' /\ Stamps'
      BY <2>1, <2>2, JobType DEF TypeOK, Stamps
    <2>4. QED
      BY <2>3
  <1>10. ASSUME NEW o \in Order, ConfirmWorking(o) PROVE Base'
    <2>1. orders[o] \in Ticket
      BY <1>10, ConfirmableAwaits DEF ConfirmWorking
    <2>2. [orders[o] EXCEPT !.state = "SUBMITTED"] \in Ticket
      BY <2>1 DEF Ticket, OrderState
    <2>3. orders' \in [Order -> Ticket \cup {NoTicket}]
      BY <1>10, <2>2 DEF ConfirmWorking, TypeOK
    <2>4. QED
      BY <1>10, <2>3 DEF ConfirmWorking, TypeOK, Stamps
  <1>11. ASSUME NEW o \in Order, ConfirmFill(o) PROVE Base'
    <2>1. orders' \in [Order -> Ticket \cup {NoTicket}]
          /\ fills' \in Seq(Fill)
      BY <1>11, ConfirmFillType DEF TypeOK
    <2>2. QED
      BY <1>11, <2>1 DEF ConfirmFill, TypeOK, Stamps
  <1>12. ASSUME NEW a \in Asset, NEW s \in QuoteStatus, NEW p \in Prices, PushQuote(a, s, p)
         PROVE  Base'
    <2>1. [status |-> s, price |-> p, expired |-> FALSE] \in QuoteRow
      BY DEF QuoteRow
    <2>2. QED
      BY <1>12, <2>1 DEF PushQuote, TypeOK, Stamps
  <1>13. ASSUME NEW a \in Asset, QuoteExpires(a) PROVE Base'
    <2>1. quote[a] \in QuoteRow
      BY <1>13 DEF QuoteExpires, TypeOK
    <2>2. [quote[a] EXCEPT !.expired = TRUE] \in QuoteRow
      BY <2>1 DEF QuoteRow
    <2>3. QED
      BY <1>13, <2>2 DEF QuoteExpires, TypeOK, Stamps
  <1>14. ASSUME Restart PROVE Base'
    BY <1>14 DEF Restart, TypeOK, Stamps, Stamped, Job, Idle
  <1>15. CASE UNCHANGED vars
    BY <1>15 DEF vars, TypeOK, Stamps
  <1>16. QED
    BY <1>1, <1>2, <1>3, <1>4, <1>5, <1>6, <1>7, <1>8, <1>9, <1>10, <1>11, <1>12,
       <1>13, <1>14, <1>15 DEF Next, WorkerStep

LEMMA BaseAlways == Spec => []Base
  BY BaseInit, BaseStep, PTL DEF Spec

(* Every value the desk stores has its type, whatever the interleaving: in
   particular no ticket is issued without a size. *)
THEOREM TypeCorrect == Spec => []TypeOK
  <1>1. Base => TypeOK
    BY DEF Base
  <1>2. QED
    BY BaseAlways, <1>1, PTL

-----------------------------------------------------------------------------
(* The ledger.                                                             *)

(* Only three steps touch the tickets and the fills, and the audit log only *)
(* grows.                                                                   *)
LEMMA LedgerSteps ==
  ASSUME [Next]_vars
  PROVE  \/ UNCHANGED <<orders, fills>> /\ audit \subseteq audit'
         \/ \E w \in Worker, o \in Order : CreateOrder(w, o)
         \/ \E o \in Order : ConfirmWorking(o)
         \/ \E o \in Order : ConfirmFill(o)
  <1>1. ASSUME NEW w \in Worker, WorkerStep(w), \A o \in Order : ~CreateOrder(w, o)
        PROVE  UNCHANGED <<orders, fills>> /\ audit \subseteq audit'
    BY <1>1 DEF WorkerStep, ReviewRead, ReviewCommit, FaroSend, FaroLog, FaroAudit,
                TicketCheck, CreateOrderWithoutSize
  <1>2. QED
    BY <1>1 DEF Next, CreateIdea, PushQuote, QuoteExpires, Restart, vars

(* What FilledOnceByHuman says of one order. *)
LedgerOf(o) ==
  IF orders[o].state \in {"FILLED", "PARTIAL_FILL"}
  THEN /\ orders[o].confirmed
       /\ Entry("order_confirmed_and_filled", o, 0) \in audit
       /\ \E k \in FillsOf(o) :
            /\ FillsOf(o) = {k}
            /\ fills[k].qty <= orders[o].qty
            /\ (fills[k].qty = orders[o].qty) = (orders[o].state = "FILLED")
  ELSE FillsOf(o) = {}

(* An order that a step leaves alone keeps its part of the ledger. *)
LEMMA LedgerFrame ==
  ASSUME NEW o \in Order, LedgerOf(o), orders'[o] = orders[o], fills' = fills,
         audit \subseteq audit'
  PROVE  LedgerOf(o)'
  BY DEF LedgerOf, FillsOf

LEMMA LedgerInit == Init => FilledOnceByHuman
  BY DEF Init, FilledOnceByHuman, FillsOf, NoTicket

LEMMA LedgerStep == Base /\ FilledOnceByHuman /\ [Next]_vars => FilledOnceByHuman'
  <1> SUFFICES ASSUME Base, FilledOnceByHuman, [Next]_vars, NEW x \in Order
               PROVE  LedgerOf(x)'
    BY DEF FilledOnceByHuman, LedgerOf
  <1>1. LedgerOf(x)
    BY DEF FilledOnceByHuman, LedgerOf
  <1>2. CASE UNCHANGED <<orders, fills>> /\ audit \subseteq audit'
    BY <1>1, <1>2, LedgerFrame
  <1>3. ASSUME NEW w \in Worker, NEW o \in Order, CreateOrder(w, o) PROVE LedgerOf(x)'
    <2>1. fills' = fills /\ audit \subseteq audit' /\ orders[o] = NoTicket
      BY <1>3 DEF CreateOrder
    <2>2. /\ orders'[o].state = Awaiting
          /\ \A y \in Order \ {o} : orders'[y] = orders[y]
      BY <1>3, CreateOrderType DEF Base
    <2>3. CASE x = o
      <3>1. FillsOf(x) = {}
        BY <1>1, <2>1, <2>3 DEF LedgerOf, NoTicket
      <3>2. QED
        BY <2>1, <2>2, <2>3, <3>1 DEF LedgerOf, FillsOf, Awaiting
    <2>4. CASE x # o
      BY <1>1, <2>1, <2>2, <2>4, LedgerFrame
    <2>5. QED
      BY <2>3, <2>4
  <1>4. ASSUME NEW o \in Order, ConfirmWorking(o) PROVE LedgerOf(x)'
    <2>1. /\ orders[o] \in Ticket /\ orders[o].state = Awaiting
          /\ fills' = fills /\ audit' = audit
          /\ orders' = [orders EXCEPT ![o].state = "SUBMITTED"]
      BY <1>4, ConfirmableAwaits DEF ConfirmWorking, Base
    <2>2. /\ orders'[o].state = "SUBMITTED"
          /\ \A y \in Order \ {o} : orders'[y] = orders[y]
      BY <2>1 DEF Base, TypeOK, Ticket
    <2>3. CASE x = o
      BY <1>1, <2>1, <2>2, <2>3 DEF LedgerOf, FillsOf, Awaiting
    <2>4. CASE x # o
      BY <1>1, <2>1, <2>2, <2>4, LedgerFrame
    <2>5. QED
      BY <2>3, <2>4
  <1>5. ASSUME NEW o \in Order, ConfirmFill(o) PROVE LedgerOf(x)'
    <2>1. PICK f \in Fill :
           /\ orders[o] \in Ticket
           /\ orders[o].state = Awaiting
           /\ fills' = Append(fills, f)
           /\ f.order = o
           /\ f.qty <= orders[o].qty
           /\ orders'[o].state = IF f.qty = orders[o].qty THEN "FILLED" ELSE "PARTIAL_FILL"
           /\ orders'[o].confirmed
           /\ orders'[o].qty = orders[o].qty
           /\ \A y \in Order \ {o} : orders'[y] = orders[y]
      BY <1>5, ConfirmFillType DEF Base
    <2>2. audit' = audit \cup {Entry("order_confirmed_and_filled", o, 0)}
      BY <1>5 DEF ConfirmFill
    <2>3. /\ fills \in Seq(Fill)
          /\ DOMAIN fills' = DOMAIN fills \cup {Len(fills) + 1}
          /\ Len(fills) + 1 \notin DOMAIN fills
          /\ fills'[Len(fills) + 1] = f
          /\ \A k \in DOMAIN fills : fills'[k] = fills[k]
      BY <2>1 DEF Base, TypeOK
    <2>4. CASE x = o
      <3>1. FillsOf(x) = {}
        BY <1>1, <2>1, <2>4 DEF LedgerOf, Awaiting
      <3>2. FillsOf(x)' = {Len(fills) + 1}
        BY <2>1, <2>3, <2>4, <3>1 DEF FillsOf
      <3>3. QED
        BY <2>1, <2>2, <2>3, <2>4, <3>2 DEF LedgerOf
    <2>5. CASE x # o
      <3>1. FillsOf(x)' = FillsOf(x)
        BY <2>1, <2>3, <2>5 DEF FillsOf
      <3>2. \A k \in FillsOf(x) : fills'[k] = fills[k]
        BY <2>3 DEF FillsOf
      <3>3. orders'[x] = orders[x] /\ audit \subseteq audit'
        BY <2>1, <2>2, <2>5
      <3>4. QED
        BY <1>1, <3>1, <3>2, <3>3 DEF LedgerOf
    <2>6. QED
      BY <2>4, <2>5
  <1>6. QED
    BY <1>2, <1>3, <1>4, <1>5, LedgerSteps

(* A ticket is filled at most once, for no more than its size, and only with
   the human and the audit row on record; a confirmation interleaves with any
   number of reviews, tickets, quotes and restarts (confirm_order). *)
THEOREM LedgerCorrect == Spec => []FilledOnceByHuman
  BY LedgerInit, LedgerStep, BaseAlways, PTL DEF Spec

(* A ticket that was confirmed never changes again (confirm_order is the only
   route that writes to an order, and refuses all but a waiting one). *)
THEOREM ConfirmedOnceHolds == Spec => ConfirmedOnce
  <1>1. Base /\ [Next]_vars =>
          [\A o \in Order :
             orders[o].state \notin {"NONE", Awaiting} => orders'[o] = orders[o]]_vars
    <2> SUFFICES ASSUME Base, [Next]_vars, NEW x \in Order,
                        orders[x].state \notin {"NONE", Awaiting}
                 PROVE  orders'[x] = orders[x]
      OBVIOUS
    <2>1. ASSUME NEW w \in Worker, NEW o \in Order, CreateOrder(w, o)
          PROVE  orders'[x] = orders[x]
      BY <2>1, CreateOrderType DEF CreateOrder, Base, NoTicket
    <2>2. ASSUME NEW o \in Order, ConfirmWorking(o) PROVE orders'[x] = orders[x]
      BY <2>2, ConfirmableAwaits DEF ConfirmWorking, Base, TypeOK
    <2>3. ASSUME NEW o \in Order, ConfirmFill(o) PROVE orders'[x] = orders[x]
      BY <2>3, ConfirmFillType DEF Base
    <2>4. QED
      BY <2>1, <2>2, <2>3, LedgerSteps
  <1>2. QED
    BY <1>1, BaseAlways, PTL DEF Spec, ConfirmedOnce

-----------------------------------------------------------------------------
(* The risk gate.  An idea in an approving state, and a request that passed *)
(* the state check of create_order, keep an approving decision behind them  *)
(* even if a later review refuses the idea; and only approving verdicts     *)
(* carry a size, so a size that was not typed in comes from one.            *)

IsApproval(decision) == decision \in {"APPROVED", "REDUCE_SIZE"}

IdeaApproved == \A i \in Idea : ideaState[i] \in Approving => Approvals(i) # {}

TicketApproved ==
  \A w \in Worker : job[w].at = "ticket" => Approvals(job[w].idea) # {}

SizedIfApproved ==
  /\ \A d \in decisions : d.qty # 0 => IsApproval(d.decision)
  /\ \A w \in Worker : job[w].at = "review" /\ job[w].qty # 0 => IsApproval(job[w].decision)

(* What RiskGate says of one order. *)
BackedBy(o) ==
  Issued(o) =>
    /\ Approvals(orders[o].idea) # {}
    /\ \/ orders[o].qty \in TypedQty
       \/ \E d \in Approvals(orders[o].idea) : d.qty = orders[o].qty

GateInv == IdeaApproved /\ TicketApproved /\ SizedIfApproved /\ RiskGate

(* Decisions are only ever added. *)
LEMMA DecisionsGrow ==
  ASSUME [Next]_vars
  PROVE  decisions \subseteq decisions'
  BY DEF Next, WorkerStep, CreateIdea, ReviewRead, ReviewCommit, FaroSend, FaroLog, FaroAudit,
         TicketCheck, CreateOrder, CreateOrderWithoutSize, ConfirmWorking, ConfirmFill,
         PushQuote, QuoteExpires, Restart, vars

LEMMA ApprovalsGrow ==
  ASSUME decisions \subseteq decisions', NEW i
  PROVE  Approvals(i) \subseteq Approvals(i)'
  BY DEF Approvals, DecisionsOn

LEMMA IdeaApprovedStep == Base /\ GateInv /\ [Next]_vars => IdeaApproved'
  <1> SUFFICES ASSUME Base, GateInv, [Next]_vars, NEW x \in Idea, ideaState'[x] \in Approving
               PROVE  Approvals(x)' # {}
    BY DEF IdeaApproved
  <1>1. CASE ideaState'[x] = ideaState[x]
    BY <1>1, DecisionsGrow, ApprovalsGrow DEF GateInv, IdeaApproved
  <1>2. ASSUME NEW i \in Idea, CreateIdea(i) PROVE ideaState'[x] = ideaState[x]
    BY <1>2 DEF CreateIdea, Base, TypeOK, Approving
  <1>3. ASSUME NEW w \in Worker, ReviewCommit(w), ideaState'[x] # ideaState[x]
        PROVE  Approvals(x)' # {}
    <2> DEFINE j == job[w]
               d == [idea |-> j.idea, decision |-> j.decision, qty |-> j.qty, ts |-> j.ts]
    <2>1. j \in [at : {"review"}, idea : Idea, seen : IdeaState,
                 decision : Decision, qty : Nat, ts : Nat]
      BY <1>3, JobShape DEF Base, TypeOK, ReviewCommit, At
    <2>2. j.idea = x /\ ideaState'[x] = StateOf(j.decision)
      BY <1>3 DEF ReviewCommit, Base, TypeOK
    <2>3. IsApproval(j.decision)
      BY <2>1, <2>2 DEF StateOf, Decision, Approving, IsApproval
    <2>4. decisions' = decisions \cup {d}
      BY <1>3 DEF ReviewCommit
    <2>5. d \in Approvals(x)'
      BY <2>2, <2>3, <2>4 DEF Approvals, DecisionsOn, IsApproval
    <2>6. QED
      BY <2>5
  <1>4. \/ UNCHANGED ideaState
        \/ \E i \in Idea : CreateIdea(i)
        \/ \E w \in Worker : ReviewCommit(w)
    BY DEF Next, WorkerStep, ReviewRead, FaroSend, FaroLog, FaroAudit, TicketCheck, CreateOrder,
           CreateOrderWithoutSize, ConfirmWorking, ConfirmFill, PushQuote, QuoteExpires,
           Restart, vars
  <1>5. QED
    BY <1>1, <1>2, <1>3, <1>4

(* A step gives a worker a new request for a ticket, or a review, or neither. *)
LEMMA JobSteps ==
  ASSUME Base, [Next]_vars, NEW x \in Worker, job'[x] # job[x]
  PROVE  \/ \E i \in Idea : ReviewRead(x, i)
         \/ ReviewCommit(x)
         \/ FaroSend(x)
         \/ FaroLog(x)
         \/ \E i \in Idea, type \in OrderTypes, qty \in TypedQty : TicketCheck(x, i, type, qty)
         \/ job'[x] = Idle
  <1>1. ASSUME NEW w \in Worker, WorkerStep(w)
        PROVE  WorkerStep(x)
    <2>1. \E j : job' = [job EXCEPT ![w] = j]
      BY <1>1 DEF WorkerStep, ReviewRead, ReviewCommit, FaroSend, FaroLog, FaroAudit,
                  TicketCheck, CreateOrder, CreateOrderWithoutSize, Starts, Becomes
    <2>2. w = x
      BY <2>1 DEF Base, TypeOK
    <2>3. QED
      BY <1>1, <2>2
  <1>2. WorkerStep(x) \/ job'[x] = Idle
    BY <1>1 DEF Next, CreateIdea, ConfirmWorking, ConfirmFill, PushQuote, QuoteExpires,
                Restart, vars
  <1>3. FaroAudit(x) => job'[x] = Idle
    BY DEF FaroAudit, Becomes, Base, TypeOK
  <1>4. CreateOrderWithoutSize(x) => job'[x] = Idle
    BY DEF CreateOrderWithoutSize, Becomes, Base, TypeOK
  <1>5. ASSUME NEW o \in Order, CreateOrder(x, o) PROVE job'[x] = Idle
    BY <1>5 DEF CreateOrder, Becomes, Base, TypeOK
  <1>6. QED
    BY <1>2, <1>3, <1>4, <1>5, Zenon DEF WorkerStep

LEMMA TicketApprovedStep == Base /\ GateInv /\ [Next]_vars => TicketApproved'
  <1> SUFFICES ASSUME Base, GateInv, [Next]_vars, NEW x \in Worker, job'[x].at = "ticket"
               PROVE  Approvals(job[x].idea)' # {}
    BY DEF TicketApproved
  <1>1. CASE job'[x] = job[x]
    BY <1>1, DecisionsGrow, ApprovalsGrow DEF GateInv, TicketApproved
  <1>2. ASSUME NEW i \in Idea, NEW type \in OrderTypes, NEW qty \in TypedQty,
               TicketCheck(x, i, type, qty)
        PROVE  Approvals(job[x].idea)' # {}
    <2>1. job'[x].idea = i /\ ideaState[i] \in Approving
      BY <1>2 DEF TicketCheck, Starts, Base, TypeOK
    <2>2. Approvals(i) # {}
      BY <2>1 DEF GateInv, IdeaApproved
    <2>3. Approvals(i)' # {}
      BY <2>2, DecisionsGrow, ApprovalsGrow
    <2>4. QED
      BY <2>1, <2>3
  <1>3. ASSUME NEW i \in Idea, ReviewRead(x, i) PROVE FALSE
    BY <1>3 DEF ReviewRead, Starts, Base, TypeOK
  <1>4. ASSUME ReviewCommit(x) PROVE FALSE
    BY <1>4 DEF ReviewCommit, Becomes, Base, TypeOK, Idle
  <1>5. ASSUME FaroSend(x) PROVE FALSE
    BY <1>5 DEF FaroSend, Becomes, Base, TypeOK, Idle
  <1>6. ASSUME FaroLog(x) PROVE FALSE
    <2>1. job[x] \in [at : {"log", "audit"}, idea : Idea, ts : Nat, status : FaroOutcome]
      BY <1>6, JobShape DEF FaroLog, At, Base, TypeOK
    <2>2. QED
      BY <1>6, <2>1 DEF FaroLog, Becomes, Base, TypeOK
  <1>7. CASE job'[x] = Idle
    BY <1>7 DEF Idle
  <1>8. QED
    BY <1>1, <1>2, <1>3, <1>4, <1>5, <1>6, <1>7, JobSteps

LEMMA SizedIfApprovedStep == Base /\ GateInv /\ [Next]_vars => SizedIfApproved'
  <1> SUFFICES ASSUME Base, GateInv, [Next]_vars PROVE SizedIfApproved'
    OBVIOUS
  <1>1. ASSUME NEW d \in decisions', d.qty # 0 PROVE IsApproval(d.decision)
    <2>1. CASE d \in decisions
      BY <1>1, <2>1 DEF GateInv, SizedIfApproved
    <2>2. ASSUME NEW w \in Worker, ReviewCommit(w), d \notin decisions
          PROVE  IsApproval(d.decision)
      BY <1>1, <2>2 DEF ReviewCommit, At, GateInv, SizedIfApproved
    <2>3. decisions' = decisions \/ \E w \in Worker : ReviewCommit(w)
      BY DEF Next, WorkerStep, CreateIdea, ReviewRead, FaroSend, FaroLog, FaroAudit,
             TicketCheck, CreateOrder, CreateOrderWithoutSize, ConfirmWorking, ConfirmFill,
             PushQuote, QuoteExpires, Restart, vars
    <2>4. QED
      BY <1>1, <2>1, <2>2, <2>3
  <1>2. ASSUME NEW x \in Worker, job'[x].at = "review", job'[x].qty # 0
        PROVE  IsApproval(job'[x].decision)
    <2>1. CASE job'[x] = job[x]
      BY <1>2, <2>1 DEF GateInv, SizedIfApproved
    <2>2. ASSUME NEW i \in Idea, ReviewRead(x, i) PROVE IsApproval(job'[x].decision)
      <3> DEFINE v == Evaluate(Terms[i], Portfolio, quote[Terms[i].asset].status, FALSE, 0)
      <3>1. v.qty # 0 => IsApproval(v.decision)
        BY VerdictType DEF IsApproval
      <3>2. job'[x].qty = v.qty /\ job'[x].decision = v.decision
        BY <2>2 DEF ReviewRead, Starts, Base, TypeOK
      <3>3. QED
        BY <1>2, <3>1, <3>2
    <2>3. ASSUME ReviewCommit(x) PROVE FALSE
      BY <1>2, <2>3 DEF ReviewCommit, Becomes, Base, TypeOK, Idle
    <2>4. ASSUME FaroSend(x) PROVE FALSE
      BY <1>2, <2>4 DEF FaroSend, Becomes, Base, TypeOK, Idle
    <2>5. ASSUME FaroLog(x) PROVE FALSE
      <3>1. job[x] \in [at : {"log", "audit"}, idea : Idea, ts : Nat, status : FaroOutcome]
        BY <2>5, JobShape DEF FaroLog, At, Base, TypeOK
      <3>2. QED
        BY <1>2, <2>5, <3>1 DEF FaroLog, Becomes, Base, TypeOK
    <2>6. ASSUME NEW i \in Idea, NEW type \in OrderTypes, NEW qty \in TypedQty,
                 TicketCheck(x, i, type, qty)
          PROVE  FALSE
      BY <1>2, <2>6 DEF TicketCheck, Starts, Base, TypeOK
    <2>7. CASE job'[x] = Idle
      BY <1>2, <2>7 DEF Idle
    <2>8. QED
      BY <2>1, <2>2, <2>3, <2>4, <2>5, <2>6, <2>7, JobSteps
  <1>3. QED
    BY <1>1, <1>2 DEF SizedIfApproved

LEMMA RiskGateStep == Base /\ GateInv /\ [Next]_vars => RiskGate'
  <1> SUFFICES ASSUME Base, GateInv, [Next]_vars, NEW x \in Order PROVE BackedBy(x)'
    BY DEF RiskGate, BackedBy
  <1>1. BackedBy(x)
    BY DEF GateInv, RiskGate, BackedBy
  <1>2. ASSUME Issued(x), Issued(x)', orders'[x].idea = orders[x].idea,
               orders'[x].qty = orders[x].qty
        PROVE  BackedBy(x)'
    <2>1. decisions \subseteq decisions'
      BY DecisionsGrow
    <2>2. Approvals(orders[x].idea) \subseteq Approvals(orders[x].idea)'
      BY <1>2, <2>1 DEF Approvals, DecisionsOn
    <2>3. QED
      BY <1>1, <1>2, <2>2 DEF BackedBy
  <1>3. CASE orders' = orders
    BY <1>1, <1>2, <1>3 DEF BackedBy, Issued
  <1>4. ASSUME NEW w \in Worker, NEW o \in Order, CreateOrder(w, o) PROVE BackedBy(x)'
    <2> DEFINE j == job[w]
    <2>1. /\ orders[o] = NoTicket /\ decisions' = decisions
          /\ j.at = "ticket" /\ j.idea \in Idea /\ j.qty \in TypedQty
          /\ orders'[o].idea = j.idea
          /\ orders'[o].qty = TicketSize(j.idea, j.qty)
          /\ orders'[o].qty > 0
          /\ \A y \in Order \ {o} : orders'[y] = orders[y]
      BY <1>4, CreateOrderType DEF CreateOrder, At, HasSize, Base
    <2>2. CASE x # o
      BY <1>1, <1>2, <2>1, <2>2 DEF BackedBy, Issued
    <2>3. ASSUME j.qty = 0
          PROVE  \E d \in Approvals(j.idea) : d.qty = TicketSize(j.idea, j.qty)
      <3> DEFINE d == LatestDecision(j.idea)
      <3>1. DecisionsOn(j.idea) # {} /\ TicketSize(j.idea, j.qty) = d.qty /\ d.qty # 0
        BY <2>1, <2>3 DEF TicketSize
      <3>2. d \in DecisionsOn(j.idea)
        BY <2>1, <3>1, LatestDecisionExists DEF Base
      <3>3. d \in Approvals(j.idea)
        BY <3>1, <3>2 DEF GateInv, SizedIfApproved, Approvals, DecisionsOn, IsApproval
      <3>4. QED
        BY <3>1, <3>3
    <2>4. j.qty # 0 => TicketSize(j.idea, j.qty) \in TypedQty
      BY <2>1 DEF TicketSize
    <2>5. Approvals(j.idea) # {}
      BY <2>1 DEF GateInv, TicketApproved
    <2>6. Approvals(orders[o].idea)' = Approvals(j.idea)
      BY <2>1 DEF Approvals, DecisionsOn
    <2>7. QED
      BY <2>1, <2>2, <2>3, <2>4, <2>5, <2>6 DEF BackedBy
  <1>5. ASSUME NEW o \in Order, ConfirmWorking(o) PROVE BackedBy(x)'
    <2>1. orders[o] \in Ticket /\ orders' = [orders EXCEPT ![o].state = "SUBMITTED"]
      BY <1>5, ConfirmableAwaits DEF ConfirmWorking, Base
    <2>2. CASE x = o
      <3>1. orders'[x].idea = orders[x].idea /\ orders'[x].qty = orders[x].qty
            /\ orders'[x].state = "SUBMITTED" /\ Issued(x)
        BY <2>1, <2>2 DEF Base, TypeOK, Ticket, Issued, NoTicket, OrderState
      <3>2. QED
        BY <1>2, <3>1 DEF Issued, NoTicket
    <2>3. CASE x # o
      BY <1>1, <1>2, <2>1, <2>3 DEF BackedBy, Issued, Base, TypeOK
    <2>4. QED
      BY <2>2, <2>3
  <1>6. ASSUME NEW o \in Order, ConfirmFill(o) PROVE BackedBy(x)'
    <2>1. /\ orders[o] \in Ticket /\ orders'[o] \in Ticket
          /\ orders'[o].idea = orders[o].idea
          /\ orders'[o].qty = orders[o].qty
          /\ \A y \in Order \ {o} : orders'[y] = orders[y]
      BY <1>6, ConfirmFillType DEF Base
    <2>2. NoTicket \notin Ticket
      BY DEF Ticket, NoTicket, OrderState
    <2>3. QED
      BY <1>1, <1>2, <2>1, <2>2 DEF BackedBy, Issued
  <1>7. QED
    BY <1>3, <1>4, <1>5, <1>6, LedgerSteps

LEMMA GateInit == Init => GateInv
  BY DEF Init, GateInv, IdeaApproved, TicketApproved, SizedIfApproved, RiskGate, Approving,
         Issued, Idle

(* Whatever the reviews and ticket requests of one idea interleave to, a ticket
   is backed by an approving decision, and its size was either typed by the
   operator or suggested by such a decision (create_order, risk_review). *)
THEOREM GateCorrect == Spec => []RiskGate
  <1>1. Base /\ GateInv /\ [Next]_vars => GateInv'
    BY IdeaApprovedStep, TicketApprovedStep, SizedIfApprovedStep, RiskGateStep DEF GateInv
  <1>2. GateInv => RiskGate
    BY DEF GateInv
  <1>3. QED
    BY <1>1, <1>2, GateInit, BaseAlways, PTL DEF Spec

-----------------------------------------------------------------------------
(* What leaves the desk for Faro: FaroOnlyApproved, for any number of      *)
(* reviews in flight and a restart at any point.                           *)

(* A review that publishes has committed an approval of its own. *)
Publishing == {"publish", "log", "audit"}

ApprovedAt(ts, i) == \E d \in decisions : d.ts = ts /\ d.idea = i /\ d.decision = "APPROVED"

PublishesApproval ==
  \A w \in Worker : job[w].at \in Publishing => ApprovedAt(job[w].ts, job[w].idea)

(* The status a review is about to log is true. *)
SentIsDelivered ==
  \A w \in Worker :
    job[w].at \in {"log", "audit"} /\ job[w].status = "SENT" => job[w].ts \in delivered

(* No two reviews carry the same stamp, so no two of them log the same one. *)
OwnStamp ==
  \A w, u \in Worker :
    w # u /\ job[w].at \in Stamped /\ job[u].at \in Stamped => job[w].ts # job[u].ts

NotYetLogged ==
  \A w \in Worker :
    job[w].at \in {"review", "publish", "log"} => \A line \in outbox : line.ts # job[w].ts

SignalInv ==
  PublishesApproval /\ SentIsDelivered /\ OwnStamp /\ NotYetLogged /\ FaroOnlyApproved

-----------------------------------------------------------------------------
LEMMA SignalInit == Init => SignalInv
  BY DEF Init, SignalInv, PublishesApproval, SentIsDelivered, OwnStamp, NotYetLogged,
         FaroOnlyApproved, Publishing, Stamped, Idle

(* Steps that send and log nothing, and start no review. *)
LEMMA SignalFrame ==
  ASSUME SignalInv, UNCHANGED <<decisions, outbox, delivered>>,
         \A w \in Worker : job'[w] = job[w] \/ job'[w].at \notin Stamped
  PROVE  SignalInv'
  BY DEF SignalInv, PublishesApproval, SentIsDelivered, OwnStamp, NotYetLogged,
         FaroOnlyApproved, ApprovedAt, Publishing, Stamped

(* Every stamp on record is behind the clock. *)
LEMMA LoggedBehindClock ==
  ASSUME Base, FaroOnlyApproved
  PROVE  \A line \in outbox : line.ts < nextTs
  BY DEF Base, Stamps, FaroOnlyApproved

LEMMA ReviewReadKeepsSignals ==
  ASSUME Base, SignalInv, NEW w \in Worker, NEW i \in Idea, ReviewRead(w, i)
  PROVE  SignalInv'
  <1>1. /\ job'[w].at = "review" /\ job'[w].ts = nextTs
        /\ \A u \in Worker \ {w} : job'[u] = job[u]
        /\ UNCHANGED <<decisions, outbox, delivered>>
    BY DEF ReviewRead, Starts, Base, TypeOK
  <1>2. nextTs \in Nat
    BY DEF Base, TypeOK
  <1>3. \A line \in outbox : line.ts # nextTs
    BY <1>2, LoggedBehindClock DEF SignalInv
  <1>4. \A u \in Worker : job[u].at \in Stamped => job[u].ts # nextTs
    BY <1>2 DEF Base, Stamps
  <1>5. OwnStamp'
    BY <1>1, <1>4 DEF SignalInv, OwnStamp, Stamped
  <1>6. NotYetLogged'
    BY <1>1, <1>3 DEF SignalInv, NotYetLogged
  <1>7. PublishesApproval' /\ SentIsDelivered' /\ FaroOnlyApproved'
    BY <1>1 DEF SignalInv, PublishesApproval, SentIsDelivered, FaroOnlyApproved, ApprovedAt,
                Publishing
  <1>8. QED
    BY <1>5, <1>6, <1>7 DEF SignalInv

LEMMA ReviewCommitKeepsSignals ==
  ASSUME Base, SignalInv, NEW w \in Worker, ReviewCommit(w)
  PROVE  SignalInv'
  <1> DEFINE j == job[w]
             d == [idea |-> j.idea, decision |-> j.decision, qty |-> j.qty, ts |-> j.ts]
  <1>1. j.at = "review"
    BY DEF ReviewCommit, At
  <1>2. decisions' = decisions \cup {d} /\ UNCHANGED <<outbox, delivered>>
    BY DEF ReviewCommit
  <1>3. /\ IF j.decision = "APPROVED"
           THEN job'[w].at = "publish" /\ job'[w].idea = j.idea /\ job'[w].ts = j.ts
           ELSE job'[w] = Idle
        /\ \A u \in Worker \ {w} : job'[u] = job[u]
    BY DEF ReviewCommit, Becomes, Published, Base, TypeOK
  <1>4. \A ts, i : ApprovedAt(ts, i) => ApprovedAt(ts, i)'
    BY <1>2 DEF ApprovedAt
  <1>5. j.decision = "APPROVED" => ApprovedAt(j.ts, j.idea)'
    <2> SUFFICES ASSUME j.decision = "APPROVED" PROVE ApprovedAt(j.ts, j.idea)'
      OBVIOUS
    <2>1. d \in decisions' /\ d.decision = "APPROVED"
      BY <1>2
    <2>2. d.ts = job'[w].ts /\ d.idea = job'[w].idea
      BY <1>3
    <2> HIDE DEF d
    <2>3. QED
      BY <2>1, <2>2 DEF ApprovedAt
  <1>6. \A u \in Worker :
          job'[u].at \in Publishing => ApprovedAt(job[u].ts, job[u].idea)'
    <2>1. TAKE u \in Worker
    <2>2. CASE u = w
      BY <1>3, <1>5, <2>2 DEF Idle, Publishing, ApprovedAt
    <2>3. CASE u # w
      BY <1>2, <1>3, <2>3 DEF SignalInv, PublishesApproval, ApprovedAt
    <2>4. QED
      BY <2>2, <2>3
  <1>7. PublishesApproval'
    BY <1>6 DEF PublishesApproval
  <1>8. SentIsDelivered' /\ OwnStamp' /\ NotYetLogged'
    BY <1>1, <1>2, <1>3 DEF SignalInv, SentIsDelivered, OwnStamp, NotYetLogged, Stamped, Idle
  <1>9. FaroOnlyApproved'
    BY <1>2 DEF SignalInv, FaroOnlyApproved
  <1>10. QED
    BY <1>7, <1>8, <1>9 DEF SignalInv

LEMMA FaroSendKeepsSignals ==
  ASSUME Base, SignalInv, NEW w \in Worker, FaroSend(w)
  PROVE  SignalInv'
  <1> DEFINE j == job[w]
  <1>1. j.at = "publish" /\ UNCHANGED <<decisions, outbox>>
    BY DEF FaroSend, At
  <1>2. /\ \/ job'[w] = Idle
           \/ /\ job'[w].at = "log" /\ job'[w].idea = j.idea /\ job'[w].ts = j.ts
              /\ job'[w].status = "SENT" => j.ts \in delivered'
        /\ \A u \in Worker \ {w} : job'[u] = job[u]
        /\ delivered' \in {delivered, delivered \cup {j.ts}}
    BY DEF FaroSend, Becomes, Base, TypeOK, Idle
  <1>3. ApprovedAt(j.ts, j.idea)
    BY <1>1 DEF SignalInv, PublishesApproval, Publishing
  <1>4. PublishesApproval'
    BY <1>1, <1>2, <1>3 DEF SignalInv, PublishesApproval, Publishing, Idle, ApprovedAt
  <1>5. SentIsDelivered' /\ OwnStamp' /\ NotYetLogged'
    BY <1>1, <1>2 DEF SignalInv, SentIsDelivered, OwnStamp, NotYetLogged, Stamped, Idle
  <1>6. FaroOnlyApproved'
    BY <1>1, <1>2, <1>3 DEF SignalInv, FaroOnlyApproved, ApprovedAt
  <1>7. QED
    BY <1>4, <1>5, <1>6 DEF SignalInv

LEMMA FaroLogKeepsSignals ==
  ASSUME Base, SignalInv, NEW w \in Worker, FaroLog(w)
  PROVE  SignalInv'
  <1> DEFINE j == job[w]
             line == [idea |-> j.idea, ts |-> j.ts, status |-> j.status]
  <1>1. j \in [at : {"log", "audit"}, idea : Idea, ts : Nat, status : FaroOutcome]
        /\ j.at = "log"
    BY JobShape DEF FaroLog, At, Base, TypeOK
  <1>2. /\ job'[w].at = "audit" /\ job'[w].idea = j.idea /\ job'[w].ts = j.ts
        /\ job'[w].status = j.status
        /\ \A u \in Worker \ {w} : job'[u] = job[u]
    BY <1>1 DEF FaroLog, Becomes, Base, TypeOK
  <1>3. outbox' \in {outbox, outbox \cup {line}} /\ UNCHANGED <<decisions, delivered>>
    BY DEF FaroLog
  <1>4. ApprovedAt(j.ts, j.idea)
    BY <1>1 DEF SignalInv, PublishesApproval, Publishing
  <1>5. /\ j.status = "SENT" => j.ts \in delivered
        /\ \A other \in outbox : other.ts # j.ts
    BY <1>1 DEF SignalInv, SentIsDelivered, NotYetLogged
  <1>6. \A u \in Worker \ {w} : job[u].at \in Stamped => job[u].ts # j.ts
    BY <1>1 DEF SignalInv, OwnStamp, Stamped
  <1>7. PublishesApproval'
    BY <1>1, <1>2, <1>3 DEF SignalInv, PublishesApproval, Publishing, ApprovedAt
  <1>8. SentIsDelivered' /\ OwnStamp'
    BY <1>1, <1>2, <1>3 DEF SignalInv, SentIsDelivered, OwnStamp, Stamped
  <1>9. NotYetLogged'
    BY <1>2, <1>3, <1>6 DEF SignalInv, NotYetLogged, Stamped
  <1>10. FaroOnlyApproved'
    BY <1>3, <1>4, <1>5 DEF SignalInv, FaroOnlyApproved, ApprovedAt
  <1>11. QED
    BY <1>7, <1>8, <1>9, <1>10 DEF SignalInv

(* The other steps leave signals alone. *)
LEMMA OtherSignalSteps ==
  ASSUME Base, [Next]_vars,
         \A w \in Worker : /\ \A i \in Idea : ~ReviewRead(w, i)
                           /\ ~ReviewCommit(w)
                           /\ ~FaroSend(w)
                           /\ ~FaroLog(w)
  PROVE  /\ UNCHANGED <<decisions, outbox, delivered>>
         /\ \A w \in Worker : job'[w] = job[w] \/ job'[w].at \notin Stamped
  <1>1. UNCHANGED <<decisions, outbox, delivered>>
    BY DEF Next, WorkerStep, CreateIdea, FaroAudit, TicketCheck, CreateOrder,
           CreateOrderWithoutSize, ConfirmWorking, ConfirmFill, PushQuote, QuoteExpires,
           Restart, vars
  <1>2. ASSUME NEW w \in Worker, job'[w] # job[w] PROVE job'[w].at \notin Stamped
    <2>1. ASSUME NEW i \in Idea, NEW type \in OrderTypes, NEW qty \in TypedQty,
                 TicketCheck(w, i, type, qty)
          PROVE  job'[w].at \notin Stamped
      BY <2>1 DEF TicketCheck, Starts, Base, TypeOK, Stamped
    <2>2. CASE job'[w] = Idle
      BY <2>2 DEF Idle, Stamped
    <2>3. QED
      BY <1>2, <2>1, <2>2, JobSteps
  <1>3. QED
    BY <1>1, <1>2

LEMMA SignalStep == Base /\ SignalInv /\ [Next]_vars => SignalInv'
  BY ReviewReadKeepsSignals, ReviewCommitKeepsSignals, FaroSendKeepsSignals,
     FaroLogKeepsSignals, OtherSignalSteps, SignalFrame

(* Only fully approved ideas are signalled to Faro, each decision at most once,
   and a line logged as SENT was delivered: with any number of reviews at once,
   and whatever a restart cuts short (risk_review, maybe_send_faro_signal). *)
THEOREM SignalsCorrect == Spec => []FaroOnlyApproved
  <1>1. SignalInv => FaroOnlyApproved
    BY DEF SignalInv
  <1>2. QED
    BY <1>1, SignalInit, SignalStep, BaseAlways, PTL DEF Spec

-----------------------------------------------------------------------------
(* The trade desk implements the approval gate: each step of the desk is a *)
(* step of the gate, or none.                                              *)

(* The refinement mapping of TradeDesk, one operator per abstract variable. *)
Approved == {i \in Idea : Approvals(i) # {}}
Stage    == [o \in Order |-> StageOf(orders[o].state)]
Backing  == [o \in Order |-> IF Issued(o) THEN orders[o].idea ELSE NoIdea]
Ledger   == {fills[k].order : k \in DOMAIN fills}

LEMMA GateInitMapped == Init => Gate!GateInit
  <1> SUFFICES ASSUME Init PROVE Gate!GateInit
    OBVIOUS
  <1>1. Approved = {}
    BY DEF Init, Approved, Approvals, DecisionsOn
  <1>2. Stage = [o \in Order |-> "none"] /\ Backing = [o \in Order |-> NoIdea]
    <2>1. \A o \in Order : orders[o].state = "NONE" /\ ~Issued(o)
      BY DEF Init, Issued, NoTicket
    <2>2. StageOf("NONE") = "none"
      BY DEF StageOf, Awaiting
    <2>3. QED
      BY <2>1, <2>2 DEF Stage, Backing
  <1>3. Ledger = {}
    BY DEF Init, Ledger
  <1>4. QED
    BY <1>1, <1>2, <1>3 DEF Gate!GateInit, Approved, Stage, Backing, Ledger

(* What a step does to the orders it leaves alone. *)
LEMMA OthersUntouched ==
  ASSUME NEW o \in Order, NEW s, NEW b,
         StageOf(orders'[o].state) = s,
         (IF Issued(o)' THEN orders'[o].idea ELSE NoIdea) = b,
         \A y \in Order \ {o} : orders'[y] = orders[y]
  PROVE  /\ Stage' = [Stage EXCEPT ![o] = s]
         /\ Backing' = [Backing EXCEPT ![o] = b]
  <1>1. \A y \in Order \ {o} : Issued(y)' = Issued(y)
    BY DEF Issued
  <1>2. QED
    BY <1>1 DEF Stage, Backing

LEMMA StagesOf ==
  /\ StageOf("NONE") = "none"
  /\ StageOf(Awaiting) = "ticket"
  /\ StageOf("SUBMITTED") = "working"
  /\ \A s \in {"FILLED", "PARTIAL_FILL"} : StageOf(s) = "executed"
  BY DEF StageOf, Awaiting

LEMMA NoTicketApart == NoTicket \notin Ticket
  BY DEF NoTicket, Ticket, OrderState

(* The ideas approved change with the decisions only, one at a time. *)
LEMMA ApprovedSteps ==
  ASSUME Base, [Next]_vars
  PROVE  \/ Approved' = Approved
         \/ \E i \in Idea : Approved' = Approved \cup {i} /\ UNCHANGED <<orders, fills>>
  <1>1. ASSUME NEW w \in Worker, ReviewCommit(w)
        PROVE  \/ Approved' = Approved
               \/ \E i \in Idea : Approved' = Approved \cup {i} /\ UNCHANGED <<orders, fills>>
    <2> DEFINE d == [idea |-> job[w].idea, decision |-> job[w].decision,
                     qty |-> job[w].qty, ts |-> job[w].ts]
    <2>1. decisions' = decisions \cup {d} /\ UNCHANGED <<orders, fills>>
      BY <1>1 DEF ReviewCommit
    <2>2. d.idea \in Idea
      BY <1>1, JobShape DEF ReviewCommit, At, Base, TypeOK
    <2> HIDE DEF d
    <2>3. CASE d.decision \in {"APPROVED", "REDUCE_SIZE"}
      <3>1. Approved' = Approved \cup {d.idea}
        BY <2>1, <2>2, <2>3 DEF Approved, Approvals, DecisionsOn
      <3>2. QED
        BY <2>1, <2>2, <3>1
    <2>4. CASE d.decision \notin {"APPROVED", "REDUCE_SIZE"}
      BY <2>1, <2>4 DEF Approved, Approvals, DecisionsOn
    <2>5. QED
      BY <2>3, <2>4
  <1>2. decisions' = decisions \/ \E w \in Worker : ReviewCommit(w)
    BY DEF Next, WorkerStep, CreateIdea, ReviewRead, FaroSend, FaroLog, FaroAudit,
           TicketCheck, CreateOrder, CreateOrderWithoutSize, ConfirmWorking, ConfirmFill,
           PushQuote, QuoteExpires, Restart, vars
  <1>3. decisions' = decisions => Approved' = Approved
    BY DEF Approved, Approvals, DecisionsOn
  <1>4. QED
    BY <1>1, <1>2, <1>3

(* Tickets and fills change without a new approval. *)
LEMMA OrderStepsApproveNothing ==
  ASSUME \/ \E w \in Worker, o \in Order : CreateOrder(w, o)
         \/ \E o \in Order : ConfirmWorking(o)
         \/ \E o \in Order : ConfirmFill(o)
  PROVE  Approved' = Approved
  <1>1. decisions' = decisions
    BY DEF CreateOrder, ConfirmWorking, ConfirmFill
  <1>2. QED
    BY <1>1 DEF Approved, Approvals, DecisionsOn

GateStep == [Gate!GateNext]_(Gate!gateVars)

LEMMA StepMapped ==
  Base /\ GateInv /\ FilledOnceByHuman /\ [Next]_vars => GateStep
  <1> SUFFICES ASSUME Base, GateInv, FilledOnceByHuman, [Next]_vars PROVE GateStep
    OBVIOUS
  <1>0. /\ UNCHANGED <<Approved, Stage, Backing, Ledger>> => GateStep
        /\ \A i \in Idea : Gate!Approve(i) => GateStep
        /\ \A o \in Order, i \in Idea : Gate!Issue(o, i) => GateStep
        /\ \A o \in Order : Gate!Execute(o) \/ Gate!Submit(o) => GateStep
    BY DEF GateStep, Gate!GateNext, Gate!gateVars, Approved, Stage, Backing, Ledger
  <1>1. CASE UNCHANGED <<orders, fills>>
    <2>1. UNCHANGED <<Stage, Backing, Ledger>>
      BY <1>1 DEF Stage, Backing, Ledger, Issued
    <2>2. ASSUME Approved' = Approved PROVE GateStep
      BY <1>0, <2>1, <2>2
    <2>3. ASSUME NEW i \in Idea, Approved' = Approved \cup {i} PROVE Gate!Approve(i)
      BY <2>1, <2>3 DEF Gate!Approve, Approved, Stage, Backing, Ledger
    <2>4. QED
      BY <1>0, <2>1, <2>2, <2>3, ApprovedSteps
  <1>2. ASSUME NEW w \in Worker, NEW o \in Order, CreateOrder(w, o)
        PROVE  GateStep
    <2>1. /\ orders[o] = NoTicket /\ fills' = fills
          /\ job[w].at = "ticket" /\ job[w].idea \in Idea
          /\ orders'[o].state = Awaiting /\ orders'[o].idea = job[w].idea
          /\ \A y \in Order \ {o} : orders'[y] = orders[y]
      BY <1>2, CreateOrderType DEF CreateOrder, At, Base
    <2>2. Issued(o)'
      BY <2>1 DEF Issued, NoTicket, Awaiting
    <2>3. Stage[o] = "none"
      BY <2>1, StagesOf DEF Stage, NoTicket
    <2>4. job[w].idea \in Approved
      BY <2>1 DEF GateInv, TicketApproved, Approved
    <2>5. /\ Stage' = [Stage EXCEPT ![o] = "ticket"]
          /\ Backing' = [Backing EXCEPT ![o] = job[w].idea]
      BY <2>1, <2>2, StagesOf, OthersUntouched
    <2>6. Ledger' = Ledger
      BY <2>1 DEF Ledger
    <2>7. Approved' = Approved
      BY <1>2, OrderStepsApproveNothing
    <2>8. PICK i \in Idea : i = job[w].idea
      BY <2>1
    <2>9. Gate!Issue(o, i)
      BY <2>3, <2>4, <2>5, <2>6, <2>7, <2>8 DEF Gate!Issue, Approved, Stage, Backing, Ledger
    <2>10. QED
      BY <1>0, <2>9
  <1>3. ASSUME NEW o \in Order, ConfirmWorking(o) PROVE GateStep
    <2>1. /\ orders[o] \in Ticket /\ orders[o].state = Awaiting /\ fills' = fills
          /\ orders' = [orders EXCEPT ![o].state = "SUBMITTED"]
      BY <1>3, ConfirmableAwaits DEF ConfirmWorking, Base
    <2>2. /\ orders'[o].state = "SUBMITTED" /\ orders'[o].idea = orders[o].idea
          /\ \A y \in Order \ {o} : orders'[y] = orders[y]
      BY <2>1 DEF Base, TypeOK, Ticket
    <2>3. Issued(o) /\ Issued(o)'
      BY <2>1, <2>2 DEF Issued, NoTicket, Awaiting
    <2>4. Stage[o] = "ticket" /\ Backing[o] = orders[o].idea
      BY <2>1, <2>3, StagesOf DEF Stage, Backing
    <2>5. Stage' = [Stage EXCEPT ![o] = "working"] /\ Backing' = [Backing EXCEPT ![o] = Backing[o]]
      BY <2>2, <2>3, <2>4, StagesOf, OthersUntouched
    <2>6. Backing' = Backing
      BY <2>5 DEF Backing
    <2>7. Ledger' = Ledger
      BY <2>1 DEF Ledger
    <2>8. Approved' = Approved
      BY <1>3, OrderStepsApproveNothing
    <2>9. Gate!Submit(o)
      BY <2>4, <2>5, <2>6, <2>7, <2>8 DEF Gate!Submit, Approved, Stage, Backing, Ledger
    <2>10. QED
      BY <1>0, <2>9
  <1>4. ASSUME NEW o \in Order, ConfirmFill(o) PROVE GateStep
    <2>1. PICK f \in Fill :
           /\ orders[o] \in Ticket
           /\ orders[o].state = Awaiting
           /\ fills' = Append(fills, f)
           /\ f.order = o
           /\ orders'[o] \in Ticket
           /\ orders'[o].state \in {"FILLED", "PARTIAL_FILL"}
           /\ orders'[o].idea = orders[o].idea
           /\ \A y \in Order \ {o} : orders'[y] = orders[y]
      BY <1>4, ConfirmFillType DEF Base
    <2>2. Issued(o) /\ Issued(o)'
      BY <2>1, NoTicketApart DEF Issued, NoTicket
    <2>3. Stage[o] = "ticket" /\ Backing[o] = orders[o].idea
      BY <2>1, <2>2, StagesOf DEF Stage, Backing
    <2>4. Stage' = [Stage EXCEPT ![o] = "executed"] /\ Backing' = [Backing EXCEPT ![o] = Backing[o]]
      BY <2>1, <2>2, <2>3, StagesOf, OthersUntouched
    <2>5. Backing' = Backing
      BY <2>4 DEF Backing
    <2>6. FillsOf(o) = {}
      BY <2>1 DEF FilledOnceByHuman, Awaiting
    <2>7. o \notin Ledger
      BY <2>6 DEF Ledger, FillsOf
    <2>8. /\ fills \in Seq(Fill)
          /\ DOMAIN fills' = DOMAIN fills \cup {Len(fills) + 1}
          /\ fills'[Len(fills) + 1] = f
          /\ \A k \in DOMAIN fills : fills'[k] = fills[k]
      BY <2>1 DEF Base, TypeOK
    <2>9. Ledger' = Ledger \cup {o}
      BY <2>1, <2>8 DEF Ledger
    <2>10. Approved' = Approved
      BY <1>4, OrderStepsApproveNothing
    <2>11. Gate!Execute(o)
      BY <2>3, <2>4, <2>5, <2>7, <2>9, <2>10 DEF Gate!Execute, Approved, Stage, Backing, Ledger
    <2>12. QED
      BY <1>0, <2>11
  <1>5. QED
    BY <1>0, <1>1, <1>2, <1>3, <1>4, LedgerSteps

(* The desk implements the gate: through any interleaving of reviews, tickets,
   confirmations and restarts an order exists only for an idea that was approved
   before, and enters the ledger once, from its ticket (ideas.py, orders.py). *)
THEOREM Refinement == Spec => ImplementsGate
  <1>1. Base /\ GateInv /\ [Next]_vars => GateInv'
    BY IdeaApprovedStep, TicketApprovedStep, SizedIfApprovedStep, RiskGateStep DEF GateInv
  <1>2. Spec => []GateInv
    BY <1>1, GateInit, BaseAlways, PTL DEF Spec
  <1>3. Spec => [][GateStep]_vars
    BY <1>2, BaseAlways, LedgerCorrect, StepMapped, PTL DEF Spec
  <1>4. QED
    BY <1>2, BaseAlways, LedgerCorrect, GateInitMapped, StepMapped, PTL
    DEF Spec, ImplementsGate, Gate!GateSpec, GateStep

-----------------------------------------------------------------------------
(* An idea's state is the verdict of its latest review or of one that was    *)
(* under way at the same time, for any number of reviews in flight.          *)

(* The state of an idea is a verdict of a review that overlapped the one of t. *)
Overtaken(i, t) ==
  \E d \in DecisionsOn(i) : ideaState[i] = StateOf(d.decision) /\ AtOnce(d.ts, t)

(* What is true of a review in flight: it has met every other review of its idea
   that is in flight or has been stamped later, and if the idea is no longer in the
   state it loaded, it has met the review that moved it. *)
InTouch(w) ==
  LET j == job[w]
  IN  /\ \A d \in decisions : d.ts # j.ts
      /\ \A d \in DecisionsOn(j.idea) : d.ts < j.ts \/ AtOnce(d.ts, j.ts)
      /\ \A u \in Reviewing(j.idea) \ {w} : AtOnce(job[u].ts, j.ts)
      /\ ideaState[j.idea] = j.seen \/ Overtaken(j.idea, j.ts)

OneStampEach == \A d, e \in decisions : d.ts = e.ts => d = e

ReviewsInv ==
  /\ OneStampEach
  /\ \A w \in Worker : At(w, "review") => InTouch(w)
  /\ StateIsCurrentVerdict

LEMMA AtOnceIsSymmetric ==
  ASSUME NEW s, NEW t
  PROVE  AtOnce(s, t) = AtOnce(t, s)
  BY DEF AtOnce

LEMMA ReviewsInit == Init => ReviewsInv
  BY DEF Init, ReviewsInv, OneStampEach, StateIsCurrentVerdict, DecisionsOn, At, Idle

(* Steps that decide nothing and start no review. *)
LEMMA ReviewsFrame ==
  ASSUME ReviewsInv, UNCHANGED <<ideaState, decisions, overlaps>>,
         \A w \in Worker : job'[w] = job[w] \/ job'[w].at # "review"
  PROVE  ReviewsInv'
  <1>1. OneStampEach' /\ StateIsCurrentVerdict'
    <2>1. \A x : DecisionsOn(x)' = DecisionsOn(x) /\ LatestDecision(x)' = LatestDecision(x)
      BY DEF DecisionsOn, LatestDecision
    <2>2. QED
      BY <2>1 DEF ReviewsInv, OneStampEach, StateIsCurrentVerdict, AtOnce
  <1>2. ASSUME NEW w \in Worker, At(w, "review")' PROVE InTouch(w)'
    <2>1. job'[w] = job[w] /\ InTouch(w)
      BY <1>2 DEF ReviewsInv, At
    <2>2. \A u \in Reviewing(job[w].idea)' : u \in Reviewing(job[w].idea) /\ job'[u] = job[u]
      BY <2>1 DEF Reviewing, At
    <2>3. QED
      BY <2>1, <2>2 DEF InTouch, Overtaken, DecisionsOn, AtOnce
  <1>3. QED
    BY <1>1, <1>2 DEF ReviewsInv

LEMMA CreateIdeaKeepsReviews ==
  ASSUME Base, ReviewsInv, NEW i \in Idea, CreateIdea(i)
  PROVE  ReviewsInv'
  <1>1. /\ ideaState[i] = "NONE" /\ UNCHANGED <<decisions, job, overlaps>>
        /\ \A x \in Idea \ {i} : ideaState'[x] = ideaState[x]
    BY DEF CreateIdea, Base, TypeOK
  <1>2. ASSUME NEW d \in DecisionsOn(i) PROVE StateOf(d.decision) # "NONE"
    BY StateOfType DEF Base, TypeOK, DecisionsOn, DecisionRow, IdeaState
  <1>3. DecisionsOn(i) = {}
    BY <1>1, <1>2 DEF ReviewsInv, StateIsCurrentVerdict
  <1>4. ASSUME NEW w \in Worker, At(w, "review") PROVE job[w].idea # i
    <2>1. SUFFICES ASSUME job[w].idea = i PROVE FALSE
      OBVIOUS
    <2>2. job[w].seen \in IdeaState
      BY <1>4, JobShape DEF Base, TypeOK, At
    <2>3. InTouch(w)
      BY <1>4 DEF ReviewsInv
    <2>4. QED
      BY <1>1, <1>3, <2>1, <2>2, <2>3 DEF InTouch, Overtaken, IdeaState
  <1>5. OneStampEach' /\ StateIsCurrentVerdict'
    <2>1. \A x : DecisionsOn(x)' = DecisionsOn(x) /\ LatestDecision(x)' = LatestDecision(x)
      BY <1>1 DEF DecisionsOn, LatestDecision
    <2>2. OneStampEach'
      BY <1>1 DEF ReviewsInv, OneStampEach
    <2>3. StateIsCurrentVerdict'
      BY <1>1, <1>3, <2>1 DEF ReviewsInv, StateIsCurrentVerdict, AtOnce
    <2>4. QED
      BY <2>2, <2>3
  <1>6. ASSUME NEW w \in Worker, At(w, "review")' PROVE InTouch(w)'
    <2>1. At(w, "review") /\ job[w].idea \in Idea \ {i}
      BY <1>1, <1>4, <1>6, JobShape DEF Base, TypeOK, At
    <2>2. InTouch(w)
      BY <2>1 DEF ReviewsInv
    <2>3. QED
      BY <1>1, <2>1, <2>2 DEF InTouch, Overtaken, DecisionsOn, AtOnce, Reviewing, At
  <1>7. QED
    BY <1>5, <1>6 DEF ReviewsInv

LEMMA ReviewReadKeepsReviews ==
  ASSUME Base, ReviewsInv, NEW w \in Worker, NEW i \in Idea, ReviewRead(w, i)
  PROVE  ReviewsInv'
  <1> PICK n : n = nextTs
    OBVIOUS
  <1>1. /\ job[w].at # "review"
        /\ job'[w].at = "review" /\ job'[w].ts = n
        /\ job'[w].idea = i /\ job'[w].seen = ideaState[i]
        /\ \A u \in Worker \ {w} : job'[u] = job[u]
        /\ UNCHANGED <<ideaState, decisions>>
        /\ overlaps' = overlaps \cup {{job[u].ts, n} : u \in Reviewing(i)}
    BY DEF ReviewRead, Starts, Base, TypeOK, Idle
  <1>2. \A d \in decisions : d.ts < n /\ d.ts # n
    BY DEF Base, Stamps, TypeOK, DecisionRow
  <1>3. overlaps \subseteq overlaps' /\ \A s, t : AtOnce(s, t) => AtOnce(s, t)'
    BY <1>1 DEF AtOnce
  <1>4. ASSUME NEW u \in Reviewing(i), NEW s, s = job[u].ts
        PROVE  AtOnce(s, n)' /\ AtOnce(n, s)'
    <2>1. {s, n} \in overlaps' /\ {n, s} = {s, n}
      BY <1>1, <1>4
    <2>2. QED
      BY <2>1 DEF AtOnce
  <1>5. OneStampEach' /\ StateIsCurrentVerdict'
    <2>1. \A x : DecisionsOn(x)' = DecisionsOn(x) /\ LatestDecision(x)' = LatestDecision(x)
      BY <1>1 DEF DecisionsOn, LatestDecision
    <2>2. OneStampEach'
      BY <1>1 DEF ReviewsInv, OneStampEach
    <2>3. StateIsCurrentVerdict'
      BY <1>1, <1>3, <2>1 DEF ReviewsInv, StateIsCurrentVerdict, AtOnce
    <2>4. QED
      BY <2>2, <2>3
  <1>6. ASSUME NEW u \in Worker, At(u, "review")' PROVE InTouch(u)'
    <2>1. CASE u = w
      <3>1. ASSUME NEW x \in Reviewing(job[w].idea)', x # w
            PROVE  AtOnce(job[x].ts, job[w].ts)'
        <4>1. x \in Reviewing(i) /\ job'[x] = job[x]
          BY <1>1, <3>1 DEF Reviewing, At
        <4>2. QED
          BY <1>1, <1>4, <4>1 DEF AtOnce
      <3>2. \A d \in decisions' : d.ts # job'[w].ts /\ d.ts < job'[w].ts
        BY <1>1, <1>2
      <3>3. QED
        BY <1>1, <2>1, <3>1, <3>2 DEF InTouch, DecisionsOn
    <2>2. CASE u # w
      <3>1. job'[u] = job[u] /\ InTouch(u) /\ At(u, "review") /\ u \in Worker \ {w}
        BY <1>1, <1>6, <2>2 DEF ReviewsInv, At
      <3>2. ASSUME NEW x \in Reviewing(job[u].idea)', x # u
            PROVE  AtOnce(job[x].ts, job[u].ts)'
        <4>1. CASE x = w
          <5>1. u \in Reviewing(i)
            BY <1>1, <3>1, <3>2, <4>1 DEF Reviewing
          <5>2. QED
            BY <1>1, <1>4, <3>1, <4>1, <5>1 DEF AtOnce
        <4>2. CASE x # w
          <5>1. x \in Reviewing(job[u].idea) \ {u} /\ job'[x] = job[x]
            BY <1>1, <3>1, <3>2, <4>2 DEF Reviewing, At
          <5>2. AtOnce(job[x].ts, job[u].ts)
            BY <3>1, <5>1 DEF InTouch
          <5>3. QED
            BY <1>3, <3>1, <5>1, <5>2 DEF AtOnce
        <4>3. QED
          BY <4>1, <4>2
      <3>3. Overtaken(job[u].idea, job[u].ts) => Overtaken(job[u].idea, job[u].ts)'
        BY <1>1, <1>3, <3>1 DEF Overtaken, DecisionsOn, AtOnce
      <3>4. QED
        BY <1>1, <1>3, <3>1, <3>2, <3>3 DEF InTouch, DecisionsOn, AtOnce
    <2>3. QED
      BY <2>1, <2>2
  <1>7. QED
    BY <1>5, <1>6 DEF ReviewsInv

(* The latest of some decisions is one of them and not earlier than any. *)
LEMMA LatestAmong ==
  ASSUME NEW D, NEW top \in D, \A e \in D : e.ts <= top.ts
  PROVE  LET last == CHOOSE y \in D : \A e \in D : e.ts <= y.ts
         IN  last \in D /\ \A e \in D : e.ts <= last.ts
  OBVIOUS

(* The commit of a review: the newest verdict, or an older one that comes late. *)
LEMMA ReviewCommitKeepsReviews ==
  ASSUME Base, SignalInv, ReviewsInv, NEW w \in Worker, ReviewCommit(w)
  PROVE  ReviewsInv'
  <1> PICK j : j = job[w]
    OBVIOUS
  <1> DEFINE i == j.idea
             t == j.ts
             d == [idea |-> i, decision |-> j.decision, qty |-> j.qty, ts |-> t]
  <1>1. /\ j.at = "review" /\ i \in Idea /\ j.decision \in Decision /\ t \in Nat
        /\ w \in Reviewing(i) /\ InTouch(w)
    BY JobShape DEF ReviewCommit, At, Base, TypeOK, Reviewing, ReviewsInv
  <1>2. /\ decisions' = decisions \cup {d} /\ overlaps' = overlaps
        /\ job'[w].at # "review" /\ \A u \in Worker \ {w} : job'[u] = job[u]
    BY DEF ReviewCommit, Becomes, Base, TypeOK, Idle
  <1>3. /\ \A x \in Idea \ {i} : ideaState'[x] = ideaState[x]
        /\ IF StateOf(j.decision) # j.seen
           THEN ideaState'[i] = StateOf(j.decision) ELSE ideaState'[i] = ideaState[i]
    BY <1>1 DEF ReviewCommit, ChangesState, Base, TypeOK
  <1>4. d.idea = i /\ d.ts = t /\ d.decision = j.decision
    OBVIOUS
  <1> HIDE DEF d
  <1>5. Base'
    BY BaseStep DEF Next, WorkerStep
  <1>6. /\ \A e \in decisions : e.ts # t
        /\ \A e \in decisions' : e.ts \in Nat
    BY <1>1, <1>5 DEF InTouch, Base, TypeOK, DecisionRow
  <1>7. /\ DecisionsOn(i)' = DecisionsOn(i) \cup {d}
        /\ \A x \in Idea \ {i} : DecisionsOn(x)' = DecisionsOn(x)
    BY <1>2, <1>4 DEF DecisionsOn
  <1>8. \A r, s : AtOnce(r, s)' = AtOnce(r, s) /\ AtOnce(r, s) = AtOnce(s, r)
    BY <1>2, AtOnceIsSymmetric DEF AtOnce
  <1>9. OneStampEach'
    BY <1>2, <1>4, <1>6 DEF ReviewsInv, OneStampEach
  <1>10. \/ ideaState'[i] = StateOf(d.decision)
         \/ ideaState'[i] = ideaState[i] /\ Overtaken(i, t)
    BY <1>1, <1>3, <1>4 DEF InTouch
  <1>11. \A e \in DecisionsOn(i) : e.ts # t /\ (e.ts < t \/ AtOnce(e.ts, t))
    BY <1>1 DEF InTouch, DecisionsOn
  <1>12. ASSUME NEW x \in Idea, DecisionsOn(x)' # {}
         PROVE  \E e \in DecisionsOn(x)' :
                  /\ ideaState'[x] = StateOf(e.decision)
                  /\ e = LatestDecision(x)' \/ AtOnce(e.ts, LatestDecision(x).ts)'
    <2>1. CASE x # i
      <3>1. DecisionsOn(x)' = DecisionsOn(x) /\ LatestDecision(x)' = LatestDecision(x)
        BY <1>7, <2>1 DEF LatestDecision
      <3>2. QED
        BY <1>2, <1>3, <1>12, <2>1, <3>1 DEF ReviewsInv, StateIsCurrentVerdict, AtOnce
    <2>2. CASE x = i
      <3> PICK last : last = LatestDecision(x)'
        OBVIOUS
      <3>1. last \in DecisionsOn(i)' /\ \A e \in DecisionsOn(i)' : e.ts <= last.ts
        <4> PICK D : D = DecisionsOn(i)'
          OBVIOUS
        <4>1. \A e \in D : e.ts \in Nat
          BY <1>2, <1>6 DEF DecisionsOn
        <4>2. \E top \in D : \A e \in D : e.ts <= top.ts
          <5>1. CASE DecisionsOn(i) = {}
            BY <1>7, <4>1, <5>1
          <5>2. CASE DecisionsOn(i) # {}
            <6> PICK L : L = LatestDecision(i)
              OBVIOUS
            <6>1. L \in DecisionsOn(i) /\ \A e \in DecisionsOn(i) : e.ts <= L.ts
              BY <1>1, <5>2, LatestDecisionExists DEF Base
            <6>2. L \in D /\ d \in D
              BY <1>7, <6>1
            <6>3. CASE L.ts <= t
              BY <1>4, <1>7, <4>1, <6>1, <6>2, <6>3
            <6>4. CASE ~(L.ts <= t)
              BY <1>4, <1>7, <4>1, <6>1, <6>2, <6>4
            <6>5. QED
              BY <6>3, <6>4
          <5>3. QED
            BY <5>1, <5>2
        <4>3. last = CHOOSE y \in D : \A e \in D : e.ts <= y.ts
          BY <2>2 DEF LatestDecision
        <4>4. QED
          BY <4>2, <4>3, LatestAmong
      <3>2. CASE last = d
        <4>1. CASE ideaState'[i] = StateOf(d.decision)
          BY <1>7, <2>2, <3>2, <4>1
        <4>2. CASE ideaState'[i] = ideaState[i] /\ Overtaken(i, t)
          <5>1. PICK e \in DecisionsOn(i) :
                  ideaState[i] = StateOf(e.decision) /\ AtOnce(e.ts, t)
            BY <4>2 DEF Overtaken
          <5>2. QED
            BY <1>2, <1>4, <1>7, <2>2, <3>2, <4>2, <5>1 DEF AtOnce
        <4>3. QED
          BY <1>10, <4>1, <4>2
      <3>3. CASE last # d
        <4>1. last \in DecisionsOn(i) /\ t <= last.ts
          BY <1>4, <1>7, <3>1, <3>3
        <4>2. AtOnce(t, last.ts)
          BY <1>1, <1>2, <1>6, <1>8, <1>11, <4>1 DEF DecisionsOn
        <4>3. last = LatestDecision(i)
          <5> PICK L : L = LatestDecision(i)
            OBVIOUS
          <5>1. L \in DecisionsOn(i) /\ last.ts <= L.ts
            BY <1>1, <4>1, LatestDecisionExists DEF Base
          <5>2. L.ts <= last.ts
            BY <1>7, <3>1, <5>1
          <5>3. L \in decisions /\ last \in decisions /\ L.ts \in Nat /\ last.ts \in Nat
            BY <1>2, <1>6, <4>1, <5>1 DEF DecisionsOn
          <5>4. L.ts = last.ts
            BY <5>1, <5>2, <5>3
          <5>5. QED
            BY <5>3, <5>4 DEF ReviewsInv, OneStampEach
        <4>4. CASE ideaState'[i] = StateOf(d.decision)
          BY <1>2, <1>4, <1>7, <2>2, <4>2, <4>4 DEF AtOnce
        <4>5. CASE ideaState'[i] = ideaState[i]
          <5>1. PICK e \in DecisionsOn(i) :
                  /\ ideaState[i] = StateOf(e.decision)
                  /\ e = last \/ AtOnce(e.ts, last.ts)
            BY <1>1, <4>1, <4>3 DEF ReviewsInv, StateIsCurrentVerdict
          <5>2. QED
            BY <1>2, <1>7, <2>2, <4>5, <5>1 DEF AtOnce
        <4>6. QED
          BY <1>10, <4>4, <4>5
      <3>4. QED
        BY <3>2, <3>3
    <2>3. QED
      BY <2>1, <2>2
  <1>13. ASSUME NEW u \in Worker, At(u, "review")' PROVE InTouch(u)'
    <2> PICK k : k = job[u]
      OBVIOUS
    <2>1. u # w /\ job'[u] = k /\ InTouch(u) /\ At(u, "review") /\ k.idea \in Idea
      BY <1>2, <1>13, JobShape DEF ReviewsInv, At, Base, TypeOK
    <2>2. t # k.ts
      BY <1>1, <2>1 DEF SignalInv, OwnStamp, Stamped, At
    <2>3. k.idea = i => AtOnce(t, k.ts)
      BY <1>1, <2>1 DEF InTouch
    <2>4. \A e \in decisions' : e.ts # k.ts
      BY <1>2, <1>4, <2>1, <2>2 DEF InTouch
    <2>5. \A e \in DecisionsOn(k.idea)' : e.ts < k.ts \/ AtOnce(e.ts, k.ts)
      BY <1>4, <1>7, <2>1, <2>3 DEF InTouch
    <2>6. ASSUME NEW x \in Reviewing(job[u].idea)', x # u
          PROVE  AtOnce(job[x].ts, job[u].ts)'
      <3>1. x \in Reviewing(job[u].idea) \ {u} /\ job'[x] = job[x]
        BY <1>2, <2>1, <2>6 DEF Reviewing, At
      <3>2. AtOnce(job[x].ts, job[u].ts)
        BY <2>1, <3>1 DEF InTouch
      <3>3. QED
        BY <1>2, <2>1, <3>1, <3>2 DEF AtOnce
    <2>7. ideaState'[k.idea] = k.seen \/ Overtaken(job[u].idea, job[u].ts)'
      <3>1. ideaState[k.idea] = k.seen \/ Overtaken(k.idea, k.ts)
        BY <2>1 DEF InTouch
      <3>2. ideaState'[k.idea] = ideaState[k.idea] /\ Overtaken(k.idea, k.ts)
              => Overtaken(job[u].idea, job[u].ts)'
        <4>1. DecisionsOn(k.idea) \subseteq DecisionsOn(k.idea)'
          BY <1>2 DEF DecisionsOn
        <4>2. QED
          BY <1>2, <2>1, <4>1 DEF Overtaken, AtOnce
      <3>3. k.idea = i /\ ideaState'[i] = StateOf(d.decision)
              => Overtaken(job[u].idea, job[u].ts)'
        BY <1>2, <1>4, <1>7, <2>1, <2>3 DEF Overtaken, AtOnce
      <3>4. QED
        BY <1>3, <1>10, <2>1, <3>1, <3>2, <3>3
    <2>8. \A e \in DecisionsOn(job[u].idea)' :
            e.ts < job'[u].ts \/ AtOnce(e.ts, job[u].ts)'
      BY <1>2, <2>1, <2>5 DEF DecisionsOn, AtOnce
    <2>9. QED
      BY <2>1, <2>4, <2>6, <2>7, <2>8 DEF InTouch
  <1>14. StateIsCurrentVerdict'
    BY <1>12 DEF StateIsCurrentVerdict
  <1>15. QED
    BY <1>9, <1>13, <1>14 DEF ReviewsInv

LEMMA OtherReviewSteps ==
  ASSUME Base, [Next]_vars,
         \A i \in Idea : ~CreateIdea(i),
         \A w \in Worker : ~ReviewCommit(w) /\ \A i \in Idea : ~ReviewRead(w, i)
  PROVE  /\ UNCHANGED <<ideaState, decisions, overlaps>>
         /\ \A w \in Worker : job'[w] = job[w] \/ job'[w].at # "review"
  <1>1. UNCHANGED <<ideaState, decisions, overlaps>>
    BY DEF Next, WorkerStep, FaroSend, FaroLog, FaroAudit, TicketCheck, CreateOrder,
           CreateOrderWithoutSize, ConfirmWorking, ConfirmFill, PushQuote, QuoteExpires,
           Restart, vars
  <1>2. ASSUME NEW w \in Worker, job'[w] # job[w] PROVE job'[w].at # "review"
    <2>1. ASSUME NEW i \in Idea, NEW type \in OrderTypes, NEW qty \in TypedQty,
                 TicketCheck(w, i, type, qty)
          PROVE  job'[w].at # "review"
      BY <2>1 DEF TicketCheck, Starts, Base, TypeOK
    <2>2. FaroSend(w) => job'[w].at # "review"
      BY DEF FaroSend, Becomes, Base, TypeOK, Idle
    <2>3. FaroLog(w) => job'[w].at # "review"
      <3>1. SUFFICES ASSUME FaroLog(w) PROVE job'[w].at # "review"
        OBVIOUS
      <3>2. job[w] \in [at : {"log", "audit"}, idea : Idea, ts : Nat, status : FaroOutcome]
        BY <3>1, JobShape DEF FaroLog, At, Base, TypeOK
      <3>3. QED
        BY <3>1, <3>2 DEF FaroLog, Becomes, Base, TypeOK
    <2>4. CASE job'[w] = Idle
      BY <2>4 DEF Idle
    <2>5. QED
      BY <1>2, <2>1, <2>2, <2>3, <2>4, JobSteps
  <1>3. QED
    BY <1>1, <1>2

(* However many reviews of an idea overlap, and wherever a restart cuts them off, the
   state they leave is the latest verdict or that of a review which overlapped it;
   a review that met no other is always obeyed (risk_review). *)
THEOREM StateIsCurrent == Spec => []StateIsCurrentVerdict
  <1>1. Base /\ SignalInv /\ ReviewsInv /\ [Next]_vars => ReviewsInv'
    BY CreateIdeaKeepsReviews, ReviewReadKeepsReviews, ReviewCommitKeepsReviews,
       OtherReviewSteps, ReviewsFrame
  <1>2. ReviewsInv => StateIsCurrentVerdict
    BY DEF ReviewsInv
  <1>3. QED
    BY <1>1, <1>2, ReviewsInit, SignalInit, SignalStep, BaseAlways, PTL DEF Spec

=============================================================================
