------------------------------- MODULE Journal -------------------------------
(***************************************************************************)
(* The doctrine journal (core/desk/journal.py): a decision is recorded     *)
(* with the price it was taken at, and judged once against the latest H1   *)
(* candles.  The code works with floats; here prices are integers, and a   *)
(* comparison with a fraction of the mean true range is multiplied out.    *)
(***************************************************************************)
EXTENDS Integers, Sequences, FiniteSetsExt, SequencesExt

CONSTANTS
  Bars,      \* H1 candles the market may print
  Prices,    \* prices a decision may be taken at
  Biases,    \* "LONG", "SHORT" and any other bias
  Horizon,   \* horizon_bars
  RRTarget,  \* rr_target
  MaxBars    \* bound on the candles printed

Bar == [high : Nat, low : Nat, close : Nat]

ASSUME JournalAssumption ==
  /\ Bars \subseteq Bar
  /\ \A b \in Bars : b.low <= b.close /\ b.close <= b.high
  /\ Prices \subseteq Nat
  /\ Biases \subseteq {"LONG", "SHORT", "NEUTRAL"}
  /\ Horizon \in Nat \ {0} /\ RRTarget \in Nat \ {0}
  /\ MaxBars \in Nat

VARIABLES
  candles,    \* the stored H1 candles of the symbol, oldest first
  entry       \* the journal row

vars == <<candles, entry>>

NoEntry == [status |-> "NONE"]

(* correct_bias and correct_entry: a Boolean or None. *)
Answer == {"YES", "NO", "NONE"}
YesIf(p) == IF p THEN "YES" ELSE "NO"

Init == candles = <<>> /\ entry = NoEntry

-----------------------------------------------------------------------------
(* record_decision *)
RecordDecision(bias, decision, price) ==
  /\ entry = NoEntry
  /\ entry' = [status |-> "PENDING", bias |-> bias, decision |-> decision,
               price |-> price, bias_ok |-> "NONE", entry_ok |-> "NONE"]
  /\ UNCHANGED candles

(* The market prints a candle, and the rollup stores it. *)
NewCandle(b) ==
  /\ Len(candles) < MaxBars
  /\ candles' = Append(candles, b)
  /\ UNCHANGED entry

-----------------------------------------------------------------------------
(* The candles the SELECT returns: the latest, whenever the decision was. *)
Window ==
  LET first == IF Len(candles) > Horizon + 1 THEN Len(candles) - Horizon ELSE 1
  IN  SubSeq(candles, first, Len(candles))

Gap(x, y) == IF x < y THEN y - x ELSE x - y

TrueRange(previous, b) ==
  Max({b.high - b.low, Gap(b.high, previous.close), Gap(b.low, previous.close)})

(* The mean true range is RangeSum / RangeCount; there is none of one candle. *)
RangeCount(w) == Len(w) - 1
RangeSum(w) ==
  FoldFunction(LAMBDA x, y : x + y, 0, [k \in 1..RangeCount(w) |-> TrueRange(w[k], w[k + 1])])

Highest(w) == Max({w[k].high : k \in DOMAIN w})
Lowest(w)  == Min({w[k].low : k \in DOMAIN w})

(* Slip: the excursions of a long are exchanged too. *)
SlipFavourable(bias, price, w) ==
  CASE bias = "LONG"  -> price - Lowest(w)
    [] bias = "SHORT" -> -(price - Lowest(w))
    [] OTHER          -> 0

(* mfe and mae, as computed: for a short they are the negated excursions of a
   long, exchanged. *)
Favourable(bias, price, w) ==
  CASE bias = "LONG"  -> Highest(w) - price
    [] bias = "SHORT" -> -(price - Lowest(w))
    [] OTHER          -> 0

Adverse(bias, price, w) ==
  CASE bias = "LONG"  -> price - Lowest(w)
    [] bias = "SHORT" -> -(Highest(w) - price)
    [] OTHER          -> 0

(* excursion >= halves / 2 of the mean true range; without a range the threshold
   is next to nothing. *)
Reaches(excursion, halves, w) ==
  IF RangeSum(w) > 0 THEN 2 * RangeCount(w) * excursion >= halves * RangeSum(w)
  ELSE excursion > 0

BiasAnswer(bias, price, w) ==
  IF bias \notin {"LONG", "SHORT"} THEN "NONE"
  ELSE YesIf(/\ Reaches(Favourable(bias, price, w), 1, w)
             /\ Favourable(bias, price, w) > Gap(0, Adverse(bias, price, w)))

(* Slip: the target decides, the stop is looked at when it was not reached. *)
SlipEntryOutcome(target, stop) ==
  CASE target -> "YES" [] ~target /\ stop -> "NO" [] OTHER -> "NONE"

EntryOutcome(target, stop) ==
  CASE target /\ ~stop -> "YES" [] stop -> "NO" [] OTHER -> "NONE"

(* Slip: an entry is judged whether or not the decision was to trade. *)
SlipTraded(bias, decision) == bias \in {"LONG", "SHORT"}

Traded(bias, decision) == decision = "TRADE" /\ bias \in {"LONG", "SHORT"}

(* The stop is 1.5 mean ranges away, the target RRTarget times that. *)
EntryAnswer(bias, decision, price, w) ==
  LET up   == Highest(w) - price
      down == price - Lowest(w)
  IN  IF ~Traded(bias, decision) \/ RangeSum(w) = 0
      THEN "NONE"
      ELSE IF bias = "LONG"
      THEN EntryOutcome(Reaches(up, 3 * RRTarget, w), Reaches(down, 3, w))
      ELSE EntryOutcome(Reaches(down, 3 * RRTarget, w), Reaches(up, 3, w))

Pending(row) == row.status = "PENDING"

(* evaluate_journal_outcome; without a candle or a quote the row stays PENDING. *)
Evaluate ==
  /\ Pending(entry)
  /\ candles # <<>>
  /\ entry' = [entry EXCEPT
       !.status = "EVALUATED",
       !.bias_ok = BiasAnswer(entry.bias, entry.price, Window),
       !.entry_ok = EntryAnswer(entry.bias, entry.decision, entry.price, Window)]
  /\ UNCHANGED candles

Next ==
  \/ \E bias \in Biases, decision \in {"TRADE", "WAIT"}, price \in Prices :
       RecordDecision(bias, decision, price)
  \/ \E b \in Bars : NewCandle(b)
  \/ Evaluate

Spec == Init /\ [][Next]_vars

-----------------------------------------------------------------------------
(* Type invariant; only a judged row has answers, and only a trade with a
   direction has an answer about its entry. *)
TypeOK ==
  /\ candles \in Seq(Bars) /\ Len(candles) <= MaxBars
  /\ entry = NoEntry \/
       entry \in [status : {"PENDING", "EVALUATED"}, bias : Biases,
                  decision : {"TRADE", "WAIT"}, price : Prices,
                  bias_ok : Answer, entry_ok : Answer]
  /\ entry # NoEntry /\ entry.status = "PENDING" =>
       entry.bias_ok = "NONE" /\ entry.entry_ok = "NONE"
  /\ entry # NoEntry /\ entry.entry_ok # "NONE" =>
       entry.decision = "TRADE" /\ entry.bias # "NEUTRAL"

Judged == entry # NoEntry /\ entry.status = "EVALUATED"

(* The two answers on a long agree: a trade that reached its target before its
   stop had the right bias too, although one answer comes from the extremes and
   the other from the excursions (evaluate_journal_outcome). *)
LongAnswersAgree ==
  Judged /\ entry.bias = "LONG" /\ entry.entry_ok = "YES" => entry.bias_ok = "YES"

(* A trade answered YES was never stopped: no candle of the window that judged
   it touched the stop. *)
YesWasNeverStopped ==
  [][ ( /\ entry # NoEntry /\ entry.status = "PENDING"
        /\ entry' # entry /\ entry'.entry_ok = "YES" ) =>
        \A k \in DOMAIN Window :
          LET against == IF entry.bias = "LONG" THEN entry.price - Window[k].low
                         ELSE Window[k].high - entry.price
          IN  2 * RangeCount(Window) * against < 3 * RangeSum(Window) ]_vars

-----------------------------------------------------------------------------
(* core/desk/journal.py:61-62, correct_bias: "did price move >= 0.5 ATR in the
   biased direction before the opposite move": so a short whose candles fell
   half a range and never rose above its price was right. *)
FallingMarketProvesShort ==
  [][ ( /\ entry # NoEntry /\ entry.status = "PENDING" /\ entry' # entry
        /\ entry.bias = "SHORT"
        /\ Highest(Window) <= entry.price
        /\ RangeSum(Window) > 0
        /\ 2 * RangeCount(Window) * (entry.price - Lowest(Window)) >= RangeSum(Window) ) =>
        entry'.bias_ok = "YES" ]_vars

(* The state invariant of a decision: types, answers only where something was
   judged, and answers on a long that agree (record_decision,
   evaluate_journal_outcome). *)
JournalInv == TypeOK /\ LongAnswersAgree
=============================================================================
