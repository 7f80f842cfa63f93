------------------------------- MODULE Scanner -------------------------------
(***************************************************************************)
(* The opportunity scanner (core/scanner/service.py) and its quality gate  *)
(* (core/setups/quality.py).  A cycle takes the symbols in turn.  Scanning *)
(* one reads its candles and its latest quote, looks for a liquidity       *)
(* sweep, scores it, and keeps one row per setup identity: symbol, setup,  *)
(* direction, level, and the day's session the scan falls into.            *)
(*                                                                         *)
(* What the features compute from the market is an input here: a reading.  *)
(* The rows other identities held before are expired in one commit and the *)
(* row of the scan is recorded in a second one.                            *)
(***************************************************************************)
EXTENDS Integers, Sequences, FiniteSetsExt

CONSTANTS
  Symbols,       \* the watchlist, in the order it is scanned
  Levels,        \* liquidity levels a sweep can be found at
  Readings,      \* what a scan may find
  BucketLength,  \* clock units in a session
  Heartbeat,     \* 60 s, in clock units
  Cooldown,      \* 30 min, in clock units
  MaxTime,       \* bound on the clock
  MaxRestarts    \* bound on the restarts of the monitor

(* priced: there is a quote and at least 5 H1 candles; recent: the quote is at
   most 5 minutes old; near: within 0.3 ATR of the level; rr in tenths, 0 when
   the geometry has no target or no risk; score: opportunity_score's total. *)
Reading ==
  [priced : BOOLEAN, status : {"LIVE", "DELAYED", "STALE", "DISCONNECTED"},
   recent : BOOLEAN, sweep : {"NONE", "LOW", "HIGH"}, level : Levels,
   atr : BOOLEAN, adx : BOOLEAN, near : BOOLEAN, reaction : BOOLEAN,
   rr : Nat, score : 0..100]

(* No distance without an ATR; a reaction and a trade geometry need a sweep. *)
Consistent(r) ==
  /\ r.near => r.atr
  /\ r.reaction \/ r.rr > 0 => r.atr /\ r.sweep # "NONE"

ASSUME ScannerAssumption ==
  /\ Symbols \in Seq(STRING) \ {<<>>}
  /\ \A i, j \in DOMAIN Symbols : Symbols[i] = Symbols[j] => i = j
  /\ 0 \notin Levels
  /\ Readings \subseteq Reading
  /\ \A r \in Readings : Consistent(r)
  /\ BucketLength \in Nat \ {0} /\ Heartbeat \in Nat \ {0}
  /\ Cooldown \in Nat \ {0}
  /\ MaxTime \in Nat /\ MaxRestarts \in Nat

VARIABLES
  candidates,  \* rows of opportunity_candidates by identity
  latest,      \* the latest row of opportunity_transitions of each identity
  turn,        \* the symbol whose scan is next or under way
  reading,     \* what the scan under way has read, before its first commit
  pending,     \* what it is to record, between its two commits
  now,
  restarts

vars == <<candidates, latest, turn, reading, pending, now, restarts>>

Bucket(t) == t \div BucketLength

(* setup_identity; level 0 stands for None. *)
Watchlist == {Symbols[i] : i \in DOMAIN Symbols}

SetupId ==
  [symbol : Watchlist, setup : {"SWEEP"}, direction : {"LONG", "SHORT"},
   level : Levels, bucket : 0..Bucket(MaxTime)]
  \cup [symbol : Watchlist, setup : {"NO_SETUP"}, direction : {"NEUTRAL"},
        level : {0}, bucket : 0..Bucket(MaxTime)]

ActiveStates == {"WATCHING", "ARMED", "CONFIRMED", "INSUFFICIENT_DATA"}
States == ActiveStates \cup {"REJECTED", "EXPIRED"}

(* The score caps and what they are called in a row's reason. *)
CapOf ==
  [stale |-> 39, no_rr |-> 49, low_rr |-> 49, no_reaction |-> 59, no_adx |-> 59]
ReasonName == DOMAIN CapOf \cup {"unavailable", "bucket changed", "cooldown"}

NoReading == [priced |-> FALSE]
NoRow == [state |-> "NONE"]
Row ==
  [state : States, score : 0..100, reason : SUBSET ReasonName, ts : Nat,
   features : Readings \cup {NoReading}]

NoScan == [state |-> "NONE"]
Scanned ==
  [id : SetupId, state : States, score : 0..100, reason : SUBSET ReasonName,
   features : Readings \cup {NoReading}]

NoTransition == [previous |-> "NONE", new |-> "NONE"]
Transition == [previous : States \cup {"NONE"}, new : States]

Init ==
  /\ candidates = [id \in SetupId |-> NoRow]
  /\ latest = [id \in SetupId |-> NoTransition]
  /\ turn = 1
  /\ reading = NoReading
  /\ pending = NoScan
  /\ now = 0
  /\ restarts = 0

-----------------------------------------------------------------------------
(* The quality gate.                                                       *)

(* _fresh_quote *)
Fresh(r) == r.status \in {"LIVE", "DELAYED"} /\ r.recent

MinRR == 20

(* CRITICAL_INPUTS that are absent.  A sweep comes with its level, entry and
   invalidation exist with the ATR, a target with rr, and structure is judged
   by the reaction. *)
Missing(r) ==
  {n \in {"atr", "adx", "fresh_data", "entry_zone", "reaction", "rr"} :
     CASE n = "atr"        -> ~r.atr
       [] n = "adx"        -> ~r.adx
       [] n = "fresh_data" -> ~Fresh(r)
       [] n = "entry_zone" -> ~r.near
       [] n = "reaction"   -> ~r.reaction
       [] OTHER            -> r.rr = 0}

(* Slip: a reward below the minimum is no reason to cap. *)
SlipReasons(r) ==
  {n \in DOMAIN CapOf \ {"low_rr"} :
     CASE n = "stale"       -> ~Fresh(r)
       [] n = "no_rr"       -> r.rr = 0
       [] n = "no_reaction" -> ~r.reaction
       [] OTHER             -> ~r.adx}

(* The caps that apply. *)
Reasons(r) ==
  {n \in DOMAIN CapOf :
     CASE n = "stale"       -> ~Fresh(r)
       [] n = "no_rr"       -> r.rr = 0
       [] n = "low_rr"      -> r.rr \in 1..(MinRR - 1)
       [] n = "no_reaction" -> ~r.reaction
       [] OTHER             -> ~r.adx}

CappedScore(r) == Min({r.score} \cup {CapOf[n] : n \in Reasons(r)})

Graded(score) ==
  IF score >= 82 THEN "CONFIRMED" ELSE IF score >= 72 THEN "ARMED" ELSE "WATCHING"

(* SetupQualityGate.evaluate, and the state scan_symbol makes of it. *)
Judged(r) ==
  IF Missing(r) \cap {"atr", "adx", "fresh_data"} # {} THEN "INSUFFICIENT_DATA"
  ELSE IF Missing(r) # {} THEN "WATCHING"
  ELSE IF r.rr < MinRR THEN "REJECTED"
  ELSE IF Graded(CappedScore(r)) = "CONFIRMED" /\ r.status # "LIVE" THEN "ARMED"
  ELSE Graded(CappedScore(r))

(* Without a sweep no input is critical and there is no rr: the gate compares
   None with the minimum, and scan_symbol raises. *)
Raises(r) == r.priced /\ r.sweep = "NONE"

(* What a scan is about to record. *)
Outcome(symbol, r) ==
  IF r.priced
  THEN [id |-> [symbol |-> symbol, setup |-> "SWEEP",
                direction |-> IF r.sweep = "LOW" THEN "LONG" ELSE "SHORT",
                level |-> r.level, bucket |-> Bucket(now)],
        state |-> Judged(r), score |-> CappedScore(r), reason |-> Reasons(r),
        features |-> r]
  ELSE [id |-> [symbol |-> symbol, setup |-> "NO_SETUP", direction |-> "NEUTRAL",
                level |-> 0, bucket |-> Bucket(now)],
        state |-> "INSUFFICIENT_DATA", score |-> 0, reason |-> {"unavailable"},
        features |-> NoReading]

-----------------------------------------------------------------------------
Active(id) == candidates[id].state \in ActiveStates

(* Slip: only rows of an earlier session are superseded. *)
SlipSuperseded(id) ==
  {other \in SetupId :
     /\ other.symbol = id.symbol /\ other.setup = id.setup
     /\ other.bucket # id.bucket
     /\ Active(other)}

(* The rows _expire_previous selects. *)
Superseded(id) ==
  {other \in SetupId :
     /\ other.symbol = id.symbol /\ other.setup = id.setup
     /\ other # id
     /\ Active(other)}

(* Slip: the rows change and the history does not. *)
SlipWithExpiries(expired) == latest

(* The transitions _expire_previous adds. *)
WithExpiries(expired) ==
  [id \in SetupId |->
     IF id \in expired THEN [previous |-> candidates[id].state, new |-> "EXPIRED"]
     ELSE latest[id]]

(* scan_symbol reads the candles and the quote. *)
Read(r) ==
  /\ reading = NoReading /\ pending = NoScan
  /\ reading' = r
  /\ UNCHANGED <<candidates, latest, turn, pending, now, restarts>>

(* scan_symbol up to the commit of _expire_previous, which an unpriced scan does
   not reach.  ts is left alone. *)
Scan ==
  LET found   == Outcome(Symbols[turn], reading)
      expired == IF reading.priced THEN Superseded(found.id) ELSE {}
  IN  /\ reading # NoReading
      /\ ~Raises(reading)
      /\ reading' = NoReading
      /\ pending' = found
      /\ candidates' = [id \in SetupId |->
           IF id \in expired
           THEN [candidates[id] EXCEPT !.state = "EXPIRED", !.reason = {"bucket changed"}]
           ELSE candidates[id]]
      /\ latest' = WithExpiries(expired)
      /\ UNCHANGED <<turn, now, restarts>>

(* scan_symbol raises: scan_once and the monitor's tick are abandoned, and the
   next cycle starts over. *)
ScanRaises ==
  /\ reading # NoReading
  /\ Raises(reading)
  /\ reading' = NoReading
  /\ turn' = 1
  /\ UNCHANGED <<candidates, latest, pending, now, restarts>>

Cooling(row) ==
  row.state = "EXPIRED" /\ now - row.ts < Cooldown

(* Slip: a row's cooldown is looked up and not applied. *)
SlipRecorded(row) ==
  [state |-> pending.state, score |-> pending.score, reason |-> pending.reason,
   ts |-> now, features |-> pending.features]

(* The row _record would write: a row that is cooling keeps its state, and takes
   the score and the features of the scan. *)
Recorded(row) ==
  [state    |-> IF Cooling(row) THEN row.state ELSE pending.state,
   score    |-> pending.score,
   reason   |-> IF Cooling(row) THEN {"cooldown"} ELSE pending.reason,
   ts       |-> now,
   features |-> pending.features]

HeartbeatDue(row) == now - row.ts >= Heartbeat

Material(row, written) ==
  \/ row = NoRow
  \/ <<row.state, row.score, row.reason>> # <<written.state, written.score, written.reason>>

(* Slip: the cycle does not start over. *)
SlipNextTurn == turn + 1

(* The symbol scan_once takes next. *)
NextTurn == IF turn = Len(Symbols) THEN 1 ELSE turn + 1

(* _record: the row is written when something material changed or its heartbeat
   is due, and a change of state leaves a transition in the same commit. *)
Record ==
  LET id      == pending.id
      row     == candidates[id]
      written == Recorded(row)
  IN  /\ pending # NoScan
      /\ IF Material(row, written) \/ HeartbeatDue(row)
         THEN /\ candidates' = [candidates EXCEPT ![id] = written]
              /\ latest' = IF written.state = row.state THEN latest
                           ELSE [latest EXCEPT ![id] =
                                  [previous |-> row.state, new |-> written.state]]
         ELSE UNCHANGED <<candidates, latest>>
      /\ pending' = NoScan
      /\ turn' = NextTurn
      /\ UNCHANGED <<reading, now, restarts>>

Tick ==
  /\ now < MaxTime
  /\ now' = now + 1
  /\ UNCHANGED <<candidates, latest, turn, reading, pending, restarts>>

(* The monitor restarts: the scan under way is lost. *)
Restart ==
  /\ restarts < MaxRestarts
  /\ restarts' = restarts + 1
  /\ reading' = NoReading
  /\ pending' = NoScan
  /\ turn' = 1
  /\ UNCHANGED <<candidates, latest, now>>

ScanStep == (\E r \in Readings : Read(r)) \/ Scan \/ ScanRaises \/ Record

Next == ScanStep \/ Tick \/ Restart

Spec == Init /\ [][Next]_vars

-----------------------------------------------------------------------------
(* Type invariant. *)
TypeOK ==
  /\ candidates \in [SetupId -> Row \cup {NoRow}]
  /\ latest \in [SetupId -> Transition \cup {NoTransition}]
  /\ turn \in DOMAIN Symbols
  /\ reading \in Readings \cup {NoReading}
  /\ pending \in Scanned \cup {NoScan}
  /\ reading = NoReading \/ pending = NoScan
  /\ now \in 0..MaxTime
  /\ restarts \in 0..MaxRestarts

(* The append-only history explains every row: the last transition of an
   identity leads to the state its row is in, and each transition starts where
   the one before it ended, across both commits and a crash between them
   (_expire_previous and _record write the two tables together). *)
HistoryExplainsState ==
  /\ [](\A id \in SetupId : candidates[id].state = latest[id].new)
  /\ [][\A id \in SetupId :
        latest'[id] # latest[id] => latest'[id].previous = latest[id].new]_vars

(* A symbol has one active sweep on the radar at most, even between the commit
   that expires the old row and the one that records the new row
   (_expire_previous before _record, in one task). *)
OneActiveSweep ==
  \A one, other \in SetupId :
    ( /\ one.setup = "SWEEP" /\ other.setup = "SWEEP"
      /\ one.symbol = other.symbol
      /\ Active(one) /\ Active(other) ) => one = other

(* A row never says more than the reading stored with it supports: the score is
   within the caps of that reading, and a confirmed row was read from a live
   and recent quote, near its level, with a reaction, an ADX and 2:1, and scored
   82 (the heartbeat, the cooldown and the expiry write the parts of a row at
   different times). *)
RowIsEarned ==
  \A id \in SetupId :
    LET row  == candidates[id]
        read == row.features
    IN  row # NoRow /\ read # NoReading =>
          /\ ~Fresh(read) => row.score <= 39
          /\ read.rr < 20 => row.score <= 49
          /\ ~read.reaction \/ ~read.adx => row.score <= 59
          /\ row.state = "CONFIRMED" =>
               /\ read.status = "LIVE" /\ read.recent
               /\ read.near /\ read.reaction /\ read.adx
               /\ read.rr >= 20 /\ row.score >= 82

(* An identity does not flap: it comes back from EXPIRED only when it was left
   unrecorded for the whole cooldown, and a scan that finds it cooling starts
   the cooldown over as soon as it writes (_record). *)
NoFlapping ==
  [][\A id \in SetupId :
      ( /\ candidates[id].state = "EXPIRED"
        /\ candidates'[id] # candidates[id]
        /\ now - candidates[id].ts < Cooldown ) =>
          candidates'[id].state = "EXPIRED" /\ candidates'[id].ts = now]_vars

(* The state invariant of the radar: types, one commit pending at a time, and one
   active sweep of a symbol (scan_symbol, _expire_previous, _record). *)
RadarInv == TypeOK /\ OneActiveSweep
=============================================================================
