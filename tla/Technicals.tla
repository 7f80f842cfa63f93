----------------------------- MODULE Technicals -----------------------------
(***************************************************************************)
(* What the desk derives from the stored bars of one asset: the session    *)
(* map (core/doctrine/session_engine.py), the liquidity pools and sweeps   *)
(* (core/doctrine/liquidity.py), the reaction zone (core/doctrine/         *)
(* range26.py) and the candle summary of core/desk/context.py.             *)
(*                                                                         *)
(* A bar is [at, open, high, low, close]; `at` is its opening hour counted *)
(* from a Monday 00:00 UTC.  Prices are integers, averages are rounded     *)
(* down, None stands for NoValue.                                          *)
(***************************************************************************)
EXTENDS Integers, Sequences, FiniteSets, FiniteSetsExt, SequencesExt, TLC

NoValue == 999999
Known(x) == x # NoValue

Clamp(x, lo, hi) == IF x < lo THEN lo ELSE IF x > hi THEN hi ELSE x
Away(x, y) == IF x < y THEN y - x ELSE x - y

(* round(a / b) for a >= 0, b > 0: a tie goes to the even neighbour. *)
RoundEven(a, b) ==
  LET q == a \div b
      r == 2 * (a % b)
  IN  IF r > b \/ (r = b /\ q % 2 = 1) THEN q + 1 ELSE q

(* Bars, or sets of bars, by their extremes. *)
Bars(candles) == {candles[i] : i \in 1 .. Len(candles)}
HighOf(S) == IF S = {} THEN NoValue ELSE Max({b.high : b \in S})
LowOf(S)  == IF S = {} THEN NoValue ELSE Min({b.low : b \in S})
LastOf(candles, n) == SubSeq(candles, Max({1, Len(candles) - n + 1}), Len(candles))

-----------------------------------------------------------------------------
(* compute_session_map: the extremes of today's Asian and London windows, of
   the previous day and of the previous week; a level nothing covers is
   missing.  Only the levels build_liquidity_map looks at. *)
Within(candles, from, to) == {b \in Bars(candles) : b.at >= from /\ b.at < to}

(* The members of s at some of its places.  The lists of levels are sorted
   before they are used, so their order here does not matter. *)
Members(s, places) ==
  LET at == SetToSeq(places)
  IN  [k \in 1 .. Len(at) |-> s[at[k]]]

SessionLevels(candles, now) ==
  LET day    == now - (now % 24)
      week   == day - 24 * ((day \div 24) % 7)
      asia   == Within(candles, day, day + 8)
      london == Within(candles, day + 8, day + 16)
      before == Within(candles, day - 24, day)
      past   == Within(candles, week - 168, week)
      levels == <<HighOf(before), LowOf(before), HighOf(past), LowOf(past),
                  HighOf(asia), LowOf(asia), HighOf(london), LowOf(london)>>
  IN  Members(levels, {i \in DOMAIN levels : Known(levels[i])})

(* _swings: a bar whose extreme beats the two bars on either side. *)
Flanked(candles, i) == i - 2 >= 1 /\ i + 2 <= Len(candles)
Beside(candles, i)  == {candles[j] : j \in ((i - 2) .. (i + 2)) \ {i}}

SwingHighs(candles) ==
  Members([i \in DOMAIN candles |-> candles[i].high],
          {i \in DOMAIN candles : /\ Flanked(candles, i)
                                  /\ \A b \in Beside(candles, i) : candles[i].high > b.high})

SwingLows(candles) ==
  Members([i \in DOMAIN candles |-> candles[i].low],
          {i \in DOMAIN candles : /\ Flanked(candles, i)
                                  /\ \A b \in Beside(candles, i) : candles[i].low < b.low})

(* sorted, one value at a time. *)
Insert(sorted, x) == InsertAt(sorted, Max({0} \cup {i \in DOMAIN sorted : sorted[i] <= x}) + 1, x)
Ascending(s) == FoldLeft(Insert, <<>>, s)

Total(s) == FoldLeft(LAMBDA t, x : t + x, 0, s)
Mean(s) == Total(s) \div Len(s)

(* _cluster: runs of neighbouring values within tol; a run of two or more is
   an equal-high or equal-low pool at its mean. *)
Grow(runs, v, tol) ==
  IF runs # <<>> /\ v - Last(Last(runs)) <= tol
  THEN Append(Front(runs), Append(Last(runs), v))
  ELSE Append(runs, <<v>>)

Runs(values, tol) == FoldLeft(LAMBDA runs, v : Grow(runs, v, tol), <<>>, Ascending(values))

EqualLevels(values, tol) ==
  LET runs == Runs(values, tol)
  IN  Members([i \in DOMAIN runs |-> Mean(runs[i])], {i \in DOMAIN runs : Len(runs[i]) >= 2})

(* Slip: the average is added next to the pool it averages. *)
SlipMergeInto(merged, p, tol) ==
  IF merged # <<>> /\ p - Last(merged) <= tol
  THEN Append(merged, (Last(merged) + p) \div 2)
  ELSE Append(merged, p)

(* Near-identical pools become one, at the average with the one before. *)
MergeInto(merged, p, tol) ==
  IF merged # <<>> /\ p - Last(merged) <= tol
  THEN Append(Front(merged), (Last(merged) + p) \div 2)
  ELSE Append(merged, p)

Merged(values, tol) == FoldLeft(LAMBDA m, p : MergeInto(m, p, tol), <<>>, Ascending(values))

Tolerance(price, atr) ==
  IF Known(atr) /\ atr > 0 THEN (atr * 15) \div 100 ELSE price \div 2000

(* build_liquidity_map: the pool prices, ascending; the ones at or above the
   price are the buy side, the others the sell side. *)
Pools(candles, price, sessions, atr) ==
  IF candles = <<>> \/ ~Known(price) THEN <<>>
  ELSE LET tol   == Tolerance(price, atr)
           highs == SwingHighs(candles)
           lows  == SwingLows(candles)
           all   == highs \o lows \o EqualLevels(highs, tol) \o EqualLevels(lows, tol)
                    \o <<HighOf(Bars(candles)), LowOf(Bars(candles))>> \o sessions
       IN  Merged(all, tol)

BuySide(pools, price)  == {p \in ToSet(pools) : p >= price}
SellSide(pools, price) == {p \in ToSet(pools) : p < price}

(* detect_sweeps: one of the last three bars has a wick beyond a pool, by 2%
   of its range, and a close back inside. *)
SweepsHigh(b, p) == 50 * (b.high - p) >= b.high - b.low /\ b.close < p
SweepsLow(b, p)  == 50 * (p - b.low) >= b.high - b.low /\ b.close > p

Swept(candles, pools) ==
  /\ Len(candles) >= 2
  /\ \E b \in ToSet(LastOf(candles, 3)), p \in ToSet(pools) :
       b.high > b.low /\ (SweepsHigh(b, p) \/ SweepsLow(b, p))

(* orion_range_zone: high - range / 2.6, when the range is significant. *)
ReactionZone(candles, atr) ==
  LET hi == HighOf(Bars(LastOf(candles, 40)))
      lo == LowOf(Bars(LastOf(candles, 40)))
  IN  IF Len(candles) < 5 \/ hi <= lo \/ (Known(atr) /\ atr > 0 /\ hi - lo < 3 * atr)
      THEN NoValue
      ELSE hi - (10 * (hi - lo)) \div 26

(* _mean_true_range over the last 14 bars. *)
TrueRange(prev, cur) ==
  Max({cur.high - cur.low, Away(cur.high, prev.close), Away(cur.low, prev.close)})

MeanTrueRange(candles) ==
  LET bars == LastOf(candles, 14)
  IN  IF Len(bars) < 2 THEN NoValue
      ELSE Mean([i \in 1 .. Len(bars) - 1 |-> TrueRange(bars[i], bars[i + 1])])

=============================================================================
