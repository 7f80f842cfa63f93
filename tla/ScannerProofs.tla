---------------------------- MODULE ScannerProofs ----------------------------
(***************************************************************************)
(* The scanner, for any watchlist, levels, readings and clocks: a symbol   *)
(* has one active sweep at most, no row says more than its reading earned, *)
(* the history of transitions explains every row, and an expired identity  *)
(* does not come back within its cooldown.                                 *)
(***************************************************************************)
EXTENDS Scanner, WellFoundedInduction, TLAPS

-----------------------------------------------------------------------------
(* Numbers. *)

LEMMA MinOfNats ==
  ASSUME NEW S, S \subseteq Nat, S # {}
  PROVE  Min(S) \in S /\ \A y \in S : Min(S) <= y
  <1>1. PICK m \in S : \A k \in S : <<k, m>> \notin OpToRel(<, Nat)
    BY NatLessThanWellFounded, WFMin, Zenon
  <1>2. \A k \in S : ~(k < m)
    BY <1>1 DEF OpToRel
  <1>3. \A k \in S : m <= k
    BY <1>2
  <1>4. \E x \in S : \A y \in S : x <= y
    BY <1>3
  <1> QED BY <1>4 DEF Min

LEMMA BucketsGrow ==
  ASSUME NEW s \in Nat, NEW t \in Nat, s <= t
  PROVE  Bucket(s) \in 0..Bucket(t)
  <1> DEFINE n == BucketLength
             q == s \div n
             r == t \div n
  <1>1. n \in Nat \ {0}
    BY ScannerAssumption
  <1>2. q \in Int /\ s = n * q + (s % n) /\ s % n \in 0..(n - 1)
    BY <1>1
  <1>3. r \in Int /\ t = n * r + (t % n) /\ t % n \in 0..(n - 1)
    BY <1>1
  <1> HIDE DEF n, q, r
  <1>4. q >= 0
    <2>1. q + 1 <= 0 => n * (q + 1) <= 0
      BY <1>1, <1>2
    <2>2. n * (q + 1) = n * q + n
      BY <1>1, <1>2
    <2> QED BY <1>1, <1>2, <2>1, <2>2
  <1>5. q <= r
    <2>1. r + 1 <= q => n * (r + 1) <= n * q
      BY <1>1, <1>2, <1>3
    <2>2. n * (r + 1) = n * r + n
      BY <1>1, <1>3
    <2> QED BY <1>1, <1>2, <1>3, <2>1, <2>2
  <1> QED BY <1>2, <1>3, <1>4, <1>5 DEF Bucket, n, q, r

-----------------------------------------------------------------------------
(* What the quality gate makes of a reading. *)

LEMMA ScoreIsCapped ==
  ASSUME NEW r \in Readings
  PROVE  /\ CappedScore(r) \in 0..100
         /\ \A n \in Reasons(r) : CappedScore(r) <= CapOf[n]
  <1> DEFINE S == {r.score} \cup {CapOf[n] : n \in Reasons(r)}
  <1>1. r.score \in 0..100
    BY ScannerAssumption DEF Reading
  <1>2. \A n \in Reasons(r) : CapOf[n] \in 0..100
    BY DEF Reasons, CapOf
  <1>3. S \subseteq 0..100 /\ S # {}
    BY <1>1, <1>2
  <1> HIDE DEF S
  <1>a. S \subseteq Nat
    BY <1>3
  <1>4. Min(S) \in S /\ \A y \in S : Min(S) <= y
    BY <1>3, <1>a, MinOfNats
  <1>5. Min(S) \in 0..100
    BY <1>3, <1>4
  <1> QED BY <1>4, <1>5 DEF CappedScore, S

(* A score, a state and the reading they are said of. *)
EarnedBy(state, score, read) ==
  read # NoReading =>
    /\ ~Fresh(read) => score <= 39
    /\ read.rr < 20 => score <= 49
    /\ ~read.reaction \/ ~read.adx => score <= 59
    /\ state = "CONFIRMED" =>
         /\ read.status = "LIVE" /\ read.recent
         /\ read.near /\ read.reaction /\ read.adx
         /\ read.rr >= 20 /\ score >= 82

LEMMA GateEarns ==
  ASSUME NEW r \in Readings
  PROVE  /\ EarnedBy(Judged(r), CappedScore(r), r)
         /\ Judged(r) \in States /\ Judged(r) # "EXPIRED"
  <1>1. CappedScore(r) \in Nat /\ \A n \in Reasons(r) : CappedScore(r) <= CapOf[n]
    BY ScoreIsCapped
  <1>2. r \in Reading
    BY ScannerAssumption
  <1>3. ~Fresh(r) => CappedScore(r) <= 39
    <2>1. ~Fresh(r) => "stale" \in Reasons(r)
      BY DEF Reasons, CapOf
    <2> QED BY <1>1, <2>1 DEF CapOf
  <1>4. r.rr < 20 => CappedScore(r) <= 49
    <2>1. r.rr < 20 => "no_rr" \in Reasons(r) \/ "low_rr" \in Reasons(r)
      BY <1>2 DEF Reasons, CapOf, MinRR, Reading
    <2> QED BY <1>1, <2>1 DEF CapOf
  <1>5. ~r.reaction \/ ~r.adx => CappedScore(r) <= 59
    <2>1. ~r.reaction => "no_reaction" \in Reasons(r)
      BY DEF Reasons, CapOf
    <2>2. ~r.adx => "no_adx" \in Reasons(r)
      BY DEF Reasons, CapOf
    <2> QED BY <1>1, <2>1, <2>2 DEF CapOf
  <1>6. Judged(r) \in States /\ Judged(r) # "EXPIRED"
    BY DEF Judged, Graded, States, ActiveStates
  <1>7. ASSUME Judged(r) = "CONFIRMED"
        PROVE  /\ r.status = "LIVE" /\ r.recent
               /\ r.near /\ r.reaction /\ r.adx
               /\ r.rr >= 20 /\ CappedScore(r) >= 82
    <2>1. /\ Missing(r) = {} /\ ~(r.rr < MinRR)
          /\ Graded(CappedScore(r)) = "CONFIRMED" /\ r.status = "LIVE"
      BY <1>7 DEF Judged
    <2>2. Fresh(r) /\ r.near /\ r.reaction /\ r.adx
      BY <2>1 DEF Missing
    <2>3. CappedScore(r) >= 82
      BY <2>1 DEF Graded
    <2> QED BY <1>2, <2>1, <2>2, <2>3 DEF Fresh, MinRR, Reading
  <1> QED BY <1>3, <1>4, <1>5, <1>6, <1>7 DEF EarnedBy

-----------------------------------------------------------------------------
(* What a scan is about to record. *)

LEMMA OutcomeIsScanned ==
  ASSUME TypeOK, reading # NoReading
  PROVE  LET found == Outcome(Symbols[turn], reading)
         IN  /\ found \in Scanned /\ found # NoScan
             /\ found.id.symbol \in Watchlist
             /\ found.id.setup = "SWEEP" => reading.priced
             /\ reading.priced => found.id.setup = "SWEEP"
             /\ EarnedBy(found.state, found.score, found.features)
  <1> DEFINE symbol == Symbols[turn]
             found  == Outcome(symbol, reading)
  <1>1. symbol \in Watchlist
    BY DEF TypeOK, Watchlist
  <1>2. reading \in Readings /\ reading \in Reading
    BY ScannerAssumption DEF TypeOK
  <1>3. Bucket(now) \in 0..Bucket(MaxTime)
    <2>1. now \in Nat /\ MaxTime \in Nat /\ now <= MaxTime
      BY ScannerAssumption DEF TypeOK
    <2> QED BY <2>1, BucketsGrow
  <1> HIDE DEF symbol
  <1>4. CASE reading.priced
    <2> DEFINE id == [symbol |-> symbol, setup |-> "SWEEP",
                      direction |-> IF reading.sweep = "LOW" THEN "LONG" ELSE "SHORT",
                      level |-> reading.level, bucket |-> Bucket(now)]
    <2>1. found = [id |-> id, state |-> Judged(reading), score |-> CappedScore(reading),
                   reason |-> Reasons(reading), features |-> reading]
      BY <1>4 DEF Outcome
    <2>2. id \in SetupId
      BY <1>1, <1>2, <1>3 DEF SetupId, Reading
    <2>3. id.setup = "SWEEP" /\ id.symbol = symbol
      OBVIOUS
    <2> HIDE DEF id, found
    <2>4. Judged(reading) \in States /\ EarnedBy(Judged(reading), CappedScore(reading), reading)
      BY <1>2, GateEarns
    <2>5. CappedScore(reading) \in 0..100
      BY <1>2, ScoreIsCapped
    <2>6. Reasons(reading) \in SUBSET ReasonName
      BY DEF Reasons, ReasonName
    <2>7. found \in Scanned
      BY <1>2, <2>1, <2>2, <2>4, <2>5, <2>6 DEF Scanned
    <2>8. found.state = Judged(reading) /\ "NONE" \notin States
      BY <2>1 DEF States, ActiveStates
    <2>9. found # NoScan
      BY <2>4, <2>8 DEF NoScan
    <2>10. /\ found.score = CappedScore(reading) /\ found.features = reading
           /\ found.id = id
      BY <2>1
    <2>11. EarnedBy(found.state, found.score, found.features)
      BY <2>4, <2>8, <2>10
    <2> QED BY <1>1, <1>4, <2>3, <2>7, <2>9, <2>10, <2>11 DEF found, symbol
  <1>5. CASE ~reading.priced
    <2> DEFINE id == [symbol |-> symbol, setup |-> "NO_SETUP",
                      direction |-> "NEUTRAL", level |-> 0, bucket |-> Bucket(now)]
    <2>1. found = [id |-> id, state |-> "INSUFFICIENT_DATA", score |-> 0,
                   reason |-> {"unavailable"}, features |-> NoReading]
      BY <1>5 DEF Outcome
    <2>2. id \in SetupId
      BY <1>1, <1>3 DEF SetupId
    <2>3. id.setup = "NO_SETUP" /\ id.symbol = symbol
      OBVIOUS
    <2> HIDE DEF id, found
    <2>4. found \in Scanned
      BY <2>1, <2>2 DEF Scanned, States, ActiveStates, ReasonName
    <2>5. found # NoScan
      BY <2>1 DEF NoScan
    <2>6. found.features = NoReading /\ found.id = id
      BY <2>1
    <2>7. EarnedBy(found.state, found.score, found.features)
      BY <2>6 DEF EarnedBy
    <2> QED BY <1>1, <1>5, <2>3, <2>4, <2>5, <2>6, <2>7 DEF found, symbol
  <1> QED BY <1>4, <1>5

-----------------------------------------------------------------------------
(* Rows. *)

ExpiredRow(row) == [row EXCEPT !.state = "EXPIRED", !.reason = {"bucket changed"}]

LEMMA ExpiredRowIsARow ==
  ASSUME NEW row \in Row
  PROVE  /\ ExpiredRow(row) \in Row
         /\ ExpiredRow(row).state = "EXPIRED"
         /\ ExpiredRow(row).score = row.score
         /\ ExpiredRow(row).features = row.features
  BY DEF ExpiredRow, Row, States, ActiveStates, ReasonName

LEMMA ARowHasAState ==
  /\ \A row \in Row : row.state \in States /\ row # NoRow
  /\ NoRow.state = "NONE" /\ "NONE" \notin States
  BY DEF Row, NoRow, States, ActiveStates

LEMMA AnActiveRowIsARow ==
  ASSUME TypeOK, NEW id \in SetupId, Active(id)
  PROVE  candidates[id] \in Row
  <1>1. candidates[id] \in Row \cup {NoRow}
    BY DEF TypeOK
  <1>2. candidates[id] # NoRow
    BY ARowHasAState DEF Active, States
  <1> QED BY <1>1, <1>2

(* The row _record writes. *)
LEMMA RecordedIsARow ==
  ASSUME TypeOK, pending # NoScan
  PROVE  LET written == Recorded(candidates[pending.id])
         IN  /\ pending \in Scanned /\ pending.id \in SetupId
             /\ written \in Row
             /\ written.state \in {"EXPIRED", pending.state}
             /\ written.score = pending.score /\ written.features = pending.features
             /\ written.ts = now
  <1> DEFINE row == candidates[pending.id]
             written == Recorded(row)
  <1>1. pending \in Scanned
    BY DEF TypeOK
  <1>2. now \in Nat
    BY ScannerAssumption DEF TypeOK
  <1>3. /\ pending.id \in SetupId /\ pending.state \in States /\ pending.score \in 0..100
        /\ pending.reason \in SUBSET ReasonName
        /\ pending.features \in Readings \cup {NoReading}
    BY <1>1 DEF Scanned
  <1> HIDE DEF row
  <1>4. Cooling(row) => row.state = "EXPIRED"
    BY DEF Cooling
  <1>5. CASE Cooling(row)
    <2>1. written = [state |-> "EXPIRED", score |-> pending.score, reason |-> {"cooldown"},
                     ts |-> now, features |-> pending.features]
      BY <1>4, <1>5 DEF Recorded
    <2> HIDE DEF written
    <2>2. written \in Row
      BY <1>2, <1>3, <2>1 DEF Row, States, ReasonName
    <2> QED BY <1>1, <1>3, <2>1, <2>2 DEF written, row
  <1>6. CASE ~Cooling(row)
    <2>1. written = [state |-> pending.state, score |-> pending.score,
                     reason |-> pending.reason, ts |-> now, features |-> pending.features]
      BY <1>6 DEF Recorded
    <2> HIDE DEF written
    <2>2. written \in Row
      BY <1>2, <1>3, <2>1 DEF Row
    <2> QED BY <1>1, <1>3, <2>1, <2>2 DEF written, row
  <1> QED BY <1>5, <1>6

-----------------------------------------------------------------------------
(* The inductive invariant: between its two commits a scan has its symbol to
   itself, and what it is to record is earned by its reading. *)

PendingAlone ==
  pending # NoScan /\ pending.id.setup = "SWEEP" =>
    \A other \in SetupId :
      /\ other.symbol = pending.id.symbol /\ other.setup = "SWEEP"
      /\ Active(other)
      => other = pending.id

PendingEarned ==
  pending # NoScan => EarnedBy(pending.state, pending.score, pending.features)

RowsEarned ==
  \A id \in SetupId :
    candidates[id] # NoRow =>
      EarnedBy(candidates[id].state, candidates[id].score, candidates[id].features)

RadarIInv ==
  TypeOK /\ OneActiveSweep /\ PendingAlone /\ PendingEarned /\ RowsEarned

LEMMA InitRadar == Init => RadarIInv
  <1> SUFFICES ASSUME Init PROVE RadarIInv
    OBVIOUS
  <1>1. \A id \in SetupId : candidates[id] = NoRow /\ ~Active(id)
    BY ARowHasAState DEF Init, Active, States
  <1>2. 1 \in DOMAIN Symbols
    <2>1. Symbols \in Seq(STRING) /\ Symbols # <<>>
      BY ScannerAssumption
    <2> QED BY <2>1
  <1>3. TypeOK
    BY <1>2, ScannerAssumption DEF Init, TypeOK
  <1> QED BY <1>1, <1>3
       DEF Init, RadarIInv, OneActiveSweep, PendingAlone, PendingEarned, RowsEarned

-----------------------------------------------------------------------------
(* Its steps. *)

(* What a scan does to the rows. *)
LEMMA ScanExpires ==
  ASSUME TypeOK, Scan
  PROVE  LET found == Outcome(Symbols[turn], reading)
         IN  /\ pending' = found /\ reading' = NoReading
             /\ \A id \in SetupId :
                  \/ candidates'[id] = candidates[id] /\ latest'[id] = latest[id]
                  \/ /\ Active(id)
                     /\ candidates'[id] = ExpiredRow(candidates[id])
                     /\ latest'[id] = [previous |-> candidates[id].state, new |-> "EXPIRED"]
             /\ found.id.setup = "SWEEP" =>
                  \A id \in Superseded(found.id) :
                    candidates'[id] = ExpiredRow(candidates[id])
  <1> DEFINE found   == Outcome(Symbols[turn], reading)
             expired == IF reading.priced THEN Superseded(found.id) ELSE {}
  <1>1. found.id.setup = "SWEEP" => reading.priced
    BY OutcomeIsScanned DEF Scan
  <1>2. \A id \in expired : id \in SetupId /\ Active(id)
    BY DEF Superseded
  <1>3. /\ pending' = found /\ reading' = NoReading
        /\ candidates' = [id \in SetupId |->
             IF id \in expired THEN ExpiredRow(candidates[id]) ELSE candidates[id]]
        /\ latest' = [id \in SetupId |->
             IF id \in expired THEN [previous |-> candidates[id].state, new |-> "EXPIRED"]
             ELSE latest[id]]
    BY DEF Scan, ExpiredRow, WithExpiries
  <1>4. reading.priced => expired = Superseded(found.id)
    OBVIOUS
  <1> HIDE DEF expired, found
  <1>5. \A id \in SetupId :
          \/ candidates'[id] = candidates[id] /\ latest'[id] = latest[id]
          \/ /\ Active(id)
             /\ candidates'[id] = ExpiredRow(candidates[id])
             /\ latest'[id] = [previous |-> candidates[id].state, new |-> "EXPIRED"]
    BY <1>2, <1>3
  <1>6. \A id \in expired : candidates'[id] = ExpiredRow(candidates[id])
    BY <1>2, <1>3
  <1> QED BY <1>1, <1>3, <1>4, <1>5, <1>6 DEF found

(* What a record does to the rows. *)
LEMMA RecordWrites ==
  ASSUME TypeOK, Record
  PROVE  LET id      == pending.id
             written == Recorded(candidates[id])
         IN  /\ pending # NoScan /\ pending' = NoScan
             /\ \/ candidates' = candidates /\ latest' = latest
                \/ /\ candidates' = [candidates EXCEPT ![id] = written]
                   /\ \/ latest' = latest /\ written.state = candidates[id].state
                      \/ latest' = [latest EXCEPT ![id] =
                           [previous |-> candidates[id].state, new |-> written.state]]
  BY DEF Record

LEMMA TypesAreKept == TypeOK /\ [Next]_vars => TypeOK'
  <1> SUFFICES ASSUME TypeOK, [Next]_vars PROVE TypeOK'
    OBVIOUS
  <1>r. /\ now \in Nat /\ restarts \in Nat
        /\ MaxTime \in Nat /\ MaxRestarts \in Nat /\ NoReading = NoReading
    BY ScannerAssumption DEF TypeOK
  <1>s. Symbols \in Seq(STRING) /\ Symbols # <<>>
    BY ScannerAssumption
  <1>t. 1 \in DOMAIN Symbols
    BY <1>s
  <1>1. CASE \E r \in Readings : Read(r)
    BY <1>1 DEF TypeOK, Read
  <1>2. CASE Scan
    <2> DEFINE found == Outcome(Symbols[turn], reading)
    <2>1. reading # NoReading /\ UNCHANGED <<turn, now, restarts>>
      BY <1>2 DEF Scan
    <2>2. found \in Scanned
      BY <2>1, OutcomeIsScanned
    <2>3. /\ pending' = found /\ reading' = NoReading
          /\ \A id \in SetupId :
               \/ candidates'[id] = candidates[id] /\ latest'[id] = latest[id]
               \/ /\ Active(id)
                  /\ candidates'[id] = ExpiredRow(candidates[id])
                  /\ latest'[id] = [previous |-> candidates[id].state, new |-> "EXPIRED"]
      BY <1>2, ScanExpires
    <2> HIDE DEF found
    <2>4. \A id \in SetupId : candidates'[id] \in Row \cup {NoRow}
      <3> SUFFICES ASSUME NEW id \in SetupId PROVE candidates'[id] \in Row \cup {NoRow}
        OBVIOUS
      <3>1. CASE candidates'[id] = candidates[id]
        BY <3>1 DEF TypeOK
      <3>2. CASE Active(id) /\ candidates'[id] = ExpiredRow(candidates[id])
        BY <3>2, AnActiveRowIsARow, ExpiredRowIsARow
      <3> QED BY <2>3, <3>1, <3>2
    <2>5. \A id \in SetupId : latest'[id] \in Transition \cup {NoTransition}
      <3> SUFFICES ASSUME NEW id \in SetupId
                   PROVE latest'[id] \in Transition \cup {NoTransition}
        OBVIOUS
      <3>1. CASE latest'[id] = latest[id]
        BY <3>1 DEF TypeOK
      <3>2. CASE /\ Active(id)
                 /\ latest'[id] = [previous |-> candidates[id].state, new |-> "EXPIRED"]
        BY <3>2 DEF Active, Transition, States
      <3> QED BY <2>3, <3>1, <3>2
    <2>6. /\ candidates' = [id \in SetupId |-> candidates'[id]]
          /\ latest' = [id \in SetupId |-> latest'[id]]
      BY <1>2 DEF Scan, WithExpiries
    <2> QED BY <2>1, <2>2, <2>3, <2>4, <2>5, <2>6 DEF TypeOK
  <1>3. CASE ScanRaises
    BY <1>3, <1>t DEF TypeOK, ScanRaises
  <1>4. CASE Record
    <2> DEFINE id      == pending.id
               written == Recorded(candidates[id])
    <2>1. /\ pending # NoScan /\ pending' = NoScan
          /\ \/ candidates' = candidates /\ latest' = latest
             \/ /\ candidates' = [candidates EXCEPT ![id] = written]
                /\ \/ latest' = latest
                   \/ latest' = [latest EXCEPT ![id] =
                        [previous |-> candidates[id].state, new |-> written.state]]
      BY <1>4, RecordWrites
    <2>2. id \in SetupId /\ written \in Row
      BY <2>1, RecordedIsARow
    <2>3. NextTurn \in DOMAIN Symbols
      BY <1>s, <1>t DEF TypeOK, NextTurn
    <2>4. turn' = NextTurn /\ UNCHANGED <<reading, now, restarts>>
      BY <1>4 DEF Record
    <2>5. candidates[id].state \in States \cup {"NONE"} /\ written.state \in States
      BY <2>2, ARowHasAState DEF TypeOK
    <2>6. [previous |-> candidates[id].state, new |-> written.state] \in Transition
      BY <2>5 DEF Transition
    <2> HIDE DEF id, written
    <2>7. candidates' \in [SetupId -> Row \cup {NoRow}]
      BY <2>1, <2>2 DEF TypeOK
    <2>8. latest' \in [SetupId -> Transition \cup {NoTransition}]
      BY <2>1, <2>6 DEF TypeOK
    <2> QED BY <2>1, <2>3, <2>4, <2>7, <2>8 DEF TypeOK
  <1>5. CASE Tick
    BY <1>5, <1>r DEF TypeOK, Tick
  <1>6. CASE Restart
    BY <1>6, <1>r, <1>t DEF TypeOK, Restart
  <1>7. CASE UNCHANGED vars
    BY <1>7 DEF TypeOK, vars
  <1> QED BY <1>1, <1>2, <1>3, <1>4, <1>5, <1>6, <1>7 DEF Next, ScanStep

(* The rows that are active after a scan were active before it. *)
LEMMA ScanOnlyRetires ==
  ASSUME TypeOK, Scan, NEW id \in SetupId, candidates'[id].state \in ActiveStates
  PROVE  candidates'[id] = candidates[id] /\ Active(id)
  <1>1. CASE candidates'[id] = candidates[id]
    BY <1>1 DEF Active
  <1>2. CASE Active(id) /\ candidates'[id] = ExpiredRow(candidates[id])
    BY <1>2, AnActiveRowIsARow, ExpiredRowIsARow DEF ActiveStates
  <1> QED BY <1>1, <1>2, ScanExpires

LEMMA SweepsStayApart == RadarIInv /\ [Next]_vars => OneActiveSweep' /\ PendingAlone'
  <1> SUFFICES ASSUME RadarIInv, [Next]_vars PROVE OneActiveSweep' /\ PendingAlone'
    OBVIOUS
  <1> USE DEF RadarIInv
  <1>1. CASE \E r \in Readings : Read(r)
    BY <1>1 DEF OneActiveSweep, PendingAlone, Read, Active
  <1>2. CASE Scan
    <2> DEFINE found == Outcome(Symbols[turn], reading)
    <2>1. \A id \in SetupId : Active(id)' => Active(id)
      BY <1>2, ScanOnlyRetires DEF Active
    <2>2. OneActiveSweep'
      BY <2>1 DEF OneActiveSweep
    <2>3. /\ pending' = found
          /\ found.id.setup = "SWEEP" =>
               \A id \in Superseded(found.id) : candidates'[id] = ExpiredRow(candidates[id])
      BY <1>2, ScanExpires
    <2> HIDE DEF found
    <2>4. PendingAlone'
      <3> SUFFICES ASSUME found.id.setup = "SWEEP", NEW other \in SetupId,
                          other.symbol = found.id.symbol, other.setup = "SWEEP",
                          Active(other)', other # found.id
                   PROVE  FALSE
        BY <2>3 DEF PendingAlone
      <3>1. Active(other)
        BY <2>1
      <3>2. other \in Superseded(found.id)
        BY <3>1 DEF Superseded
      <3>3. candidates'[other] = ExpiredRow(candidates[other])
        BY <2>3, <3>2
      <3>4. candidates'[other].state = "EXPIRED"
        BY <3>1, <3>3, AnActiveRowIsARow, ExpiredRowIsARow
      <3> QED BY <3>4 DEF Active, ActiveStates
    <2> QED BY <2>2, <2>4
  <1>3. CASE ScanRaises
    BY <1>3 DEF OneActiveSweep, PendingAlone, ScanRaises, Active
  <1>4. CASE Record
    <2> DEFINE at == pending.id
    <2>1. pending # NoScan /\ pending' = NoScan /\ at \in SetupId
      BY <1>4, RecordedIsARow DEF Record
    <2>2. \A id \in SetupId \ {at} : candidates'[id] = candidates[id]
      BY <1>4 DEF Record, TypeOK
    <2> HIDE DEF at
    <2>3. ASSUME NEW one \in SetupId, NEW other \in SetupId,
                 one.setup = "SWEEP", other.setup = "SWEEP", one.symbol = other.symbol,
                 Active(one)', Active(other)', one # other
          PROVE  FALSE
      <3>1. CASE one # at /\ other # at
        BY <2>2, <2>3, <3>1 DEF OneActiveSweep, Active
      <3>2. CASE one = at
        BY <2>1, <2>2, <2>3, <3>2 DEF PendingAlone, Active, at
      <3>3. CASE other = at
        BY <2>1, <2>2, <2>3, <3>3 DEF PendingAlone, Active, at
      <3> QED BY <3>1, <3>2, <3>3
    <2> QED BY <2>1, <2>3 DEF OneActiveSweep, PendingAlone
  <1>5. CASE Tick
    BY <1>5 DEF OneActiveSweep, PendingAlone, Tick, Active
  <1>6. CASE Restart
    BY <1>6 DEF OneActiveSweep, PendingAlone, Restart, Active
  <1>7. CASE UNCHANGED vars
    BY <1>7 DEF OneActiveSweep, PendingAlone, vars, Active
  <1> QED BY <1>1, <1>2, <1>3, <1>4, <1>5, <1>6, <1>7 DEF Next, ScanStep

LEMMA EarningsAreKept == RadarIInv /\ [Next]_vars => PendingEarned' /\ RowsEarned'
  <1> SUFFICES ASSUME RadarIInv, [Next]_vars PROVE PendingEarned' /\ RowsEarned'
    OBVIOUS
  <1> USE DEF RadarIInv
  <1>1. CASE \E r \in Readings : Read(r)
    BY <1>1 DEF PendingEarned, RowsEarned, Read
  <1>2. CASE Scan
    <2> DEFINE found == Outcome(Symbols[turn], reading)
    <2>1. pending' = found /\ EarnedBy(found.state, found.score, found.features)
      BY <1>2, ScanExpires, OutcomeIsScanned DEF Scan
    <2>2. \A id \in SetupId :
            \/ candidates'[id] = candidates[id]
            \/ Active(id) /\ candidates'[id] = ExpiredRow(candidates[id])
      BY <1>2, ScanExpires
    <2> HIDE DEF found
    <2>3. ASSUME NEW id \in SetupId, candidates'[id] # NoRow
          PROVE  EarnedBy(candidates'[id].state, candidates'[id].score,
                          candidates'[id].features)
      <3>1. CASE candidates'[id] = candidates[id]
        BY <2>3, <3>1 DEF RowsEarned
      <3>2. CASE Active(id) /\ candidates'[id] = ExpiredRow(candidates[id])
        <4>1. candidates[id] \in Row /\ candidates[id] # NoRow
          BY <3>2, AnActiveRowIsARow, ARowHasAState
        <4>2. EarnedBy(candidates[id].state, candidates[id].score, candidates[id].features)
          BY <4>1 DEF RowsEarned
        <4>3. /\ candidates'[id].state = "EXPIRED"
              /\ candidates'[id].score = candidates[id].score
              /\ candidates'[id].features = candidates[id].features
          BY <3>2, <4>1, ExpiredRowIsARow
        <4> QED BY <4>2, <4>3 DEF EarnedBy
      <3> QED BY <2>2, <3>1, <3>2
    <2> QED BY <2>1, <2>3 DEF PendingEarned, RowsEarned
  <1>3. CASE ScanRaises
    BY <1>3 DEF PendingEarned, RowsEarned, ScanRaises
  <1>4. CASE Record
    <2> DEFINE at      == pending.id
               written == Recorded(candidates[at])
    <2>1. pending # NoScan /\ pending' = NoScan
      BY <1>4 DEF Record
    <2>2. /\ written.state \in {"EXPIRED", pending.state}
          /\ written.score = pending.score /\ written.features = pending.features
      BY <2>1, RecordedIsARow
    <2>3. EarnedBy(written.state, written.score, written.features)
      BY <2>1, <2>2 DEF PendingEarned, EarnedBy
    <2>4. candidates' = candidates \/ candidates' = [candidates EXCEPT ![at] = written]
      BY <1>4 DEF Record
    <2> HIDE DEF at, written
    <2>5. \A id \in SetupId : candidates'[id] = candidates[id] \/ candidates'[id] = written
      BY <2>4 DEF TypeOK
    <2>6. RowsEarned'
      BY <2>3, <2>5 DEF RowsEarned
    <2> QED BY <2>1, <2>6 DEF PendingEarned
  <1>5. CASE Tick
    BY <1>5 DEF PendingEarned, RowsEarned, Tick
  <1>6. CASE Restart
    BY <1>6 DEF PendingEarned, RowsEarned, Restart
  <1>7. CASE UNCHANGED vars
    BY <1>7 DEF PendingEarned, RowsEarned, vars
  <1> QED BY <1>1, <1>2, <1>3, <1>4, <1>5, <1>6, <1>7 DEF Next, ScanStep

LEMMA RadarIInvHolds == Spec => []RadarIInv
  <1>1. RadarIInv /\ [Next]_vars => RadarIInv'
    BY TypesAreKept, SweepsStayApart, EarningsAreKept DEF RadarIInv
  <1> QED BY <1>1, InitRadar, PTL DEF Spec

-----------------------------------------------------------------------------
(* A symbol never has two active sweeps on the radar, whatever the scans find,
   in whatever order the commits, the restarts and the clock come
   (_expire_previous before _record). *)
THEOREM OneSweepOnTheRadar == Spec => []RadarInv
  <1>1. RadarIInv => RadarInv
    BY DEF RadarIInv, RadarInv
  <1> QED BY <1>1, RadarIInvHolds, PTL

(* No row on the radar says more than the reading stored with it supports
   (SetupQualityGate.evaluate, _record, _expire_previous). *)
THEOREM NothingUnearned == Spec => []RowIsEarned
  <1>1. RadarIInv => RowIsEarned
    BY DEF RadarIInv, RowsEarned, RowIsEarned, EarnedBy
  <1> QED BY <1>1, RadarIInvHolds, PTL

(* The history and the rows are written together: the last transition of an
   identity leads to the state of its row, and each one starts where the one
   before it ended (_expire_previous, _record). *)
Explained == \A id \in SetupId : candidates[id].state = latest[id].new

Chained ==
  \A id \in SetupId :
    latest'[id] # latest[id] => latest'[id].previous = latest[id].new

LEMMA HistoryStep ==
  TypeOK /\ Explained /\ [Next]_vars => Explained' /\ Chained
  <1> SUFFICES ASSUME TypeOK, Explained, [Next]_vars PROVE Explained' /\ Chained
    OBVIOUS
  <1>1. CASE Scan
    <2> SUFFICES ASSUME NEW id \in SetupId
                 PROVE  /\ candidates'[id].state = latest'[id].new
                        /\ latest'[id] # latest[id] =>
                             latest'[id].previous = latest[id].new
      BY DEF Explained, Chained
    <2>1. CASE candidates'[id] = candidates[id] /\ latest'[id] = latest[id]
      BY <2>1 DEF Explained
    <2>2. CASE /\ Active(id)
               /\ candidates'[id] = ExpiredRow(candidates[id])
               /\ latest'[id] = [previous |-> candidates[id].state, new |-> "EXPIRED"]
      BY <2>2, AnActiveRowIsARow, ExpiredRowIsARow DEF Explained
    <2> QED BY <1>1, <2>1, <2>2, ScanExpires
  <1>2. CASE Record
    <2> DEFINE at      == pending.id
               written == Recorded(candidates[at])
    <2>1. at \in SetupId
      BY <1>2, RecordedIsARow DEF Record
    <2>2. \/ candidates' = candidates /\ latest' = latest
          \/ /\ candidates' = [candidates EXCEPT ![at] = written]
             /\ \/ latest' = latest /\ written.state = candidates[at].state
                \/ latest' = [latest EXCEPT ![at] =
                     [previous |-> candidates[at].state, new |-> written.state]]
      BY <1>2, RecordWrites
    <2> HIDE DEF at, written
    <2>3. CASE candidates' = candidates /\ latest' = latest
      BY <2>3 DEF Explained, Chained
    <2>4. CASE /\ candidates' = [candidates EXCEPT ![at] = written]
               /\ latest' = latest /\ written.state = candidates[at].state
      BY <2>1, <2>4 DEF Explained, Chained, TypeOK
    <2>5. CASE /\ candidates' = [candidates EXCEPT ![at] = written]
               /\ latest' = [latest EXCEPT ![at] =
                    [previous |-> candidates[at].state, new |-> written.state]]
      BY <2>1, <2>5 DEF Explained, Chained, TypeOK
    <2> QED BY <2>2, <2>3, <2>4, <2>5
  <1>3. CASE UNCHANGED <<candidates, latest>>
    BY <1>3 DEF Explained, Chained
  <1>4. Scan \/ Record \/ UNCHANGED <<candidates, latest>>
    BY DEF Next, ScanStep, Read, ScanRaises, Tick, Restart, vars
  <1> QED BY <1>1, <1>2, <1>3, <1>4

THEOREM HistoryIsExplained == Spec => HistoryExplainsState
  <1>1. Init => Explained
    BY ARowHasAState DEF Init, Explained, NoTransition
  <1>2. TypeOK /\ Explained /\ [Next]_vars => Explained' /\ [Chained]_vars
    BY HistoryStep
  <1>3. Spec => []TypeOK
    <2>1. RadarIInv => TypeOK
      BY DEF RadarIInv
    <2> QED BY <2>1, RadarIInvHolds, PTL
  <1>4. Spec => []Explained /\ [][Chained]_vars
    BY <1>1, <1>2, <1>3, PTL DEF Spec
  <1> QED BY <1>4 DEF HistoryExplainsState, Explained, Chained

(* An identity that expired stays expired until it was left unrecorded for the
   whole cooldown (_record). *)
THEOREM ExpiredStaysExpired == Spec => NoFlapping
  <1> DEFINE Cooled ==
        \A id \in SetupId :
          ( /\ candidates[id].state = "EXPIRED"
            /\ candidates'[id] # candidates[id]
            /\ now - candidates[id].ts < Cooldown ) =>
              candidates'[id].state = "EXPIRED" /\ candidates'[id].ts = now
  <1>1. TypeOK /\ [Next]_vars => Cooled
    <2> SUFFICES ASSUME TypeOK, [Next]_vars, NEW id \in SetupId,
                        candidates[id].state = "EXPIRED",
                        candidates'[id] # candidates[id],
                        now - candidates[id].ts < Cooldown
                 PROVE  candidates'[id].state = "EXPIRED" /\ candidates'[id].ts = now
      OBVIOUS
    <2>1. CASE Scan
      BY <2>1, ScanExpires DEF Active, ActiveStates
    <2>2. CASE Record
      <3> DEFINE at      == pending.id
                 written == Recorded(candidates[at])
      <3>1. at \in SetupId /\ written.ts = now
        BY <2>2, RecordedIsARow DEF Record
      <3>2. candidates' = [candidates EXCEPT ![at] = written]
        BY <2>2, RecordWrites
      <3>3. id = at /\ candidates'[id] = written
        <4> HIDE DEF at, written
        <4> QED BY <3>1, <3>2 DEF TypeOK
      <3>4. Cooling(candidates[at])
        BY <3>3 DEF Cooling
      <3>5. written.state = "EXPIRED"
        BY <3>4 DEF Recorded, Cooling
      <3> QED BY <3>1, <3>3, <3>5
    <2>3. CASE UNCHANGED candidates
      BY <2>3
    <2> QED BY <2>1, <2>2, <2>3 DEF Next, ScanStep, Read, ScanRaises, Tick, Restart, vars
  <1>2. Spec => []TypeOK
    <2>1. RadarIInv => TypeOK
      BY DEF RadarIInv
    <2> QED BY <2>1, RadarIInvHolds, PTL
  <1>3. TypeOK /\ [Next]_vars => [Cooled]_vars
    BY <1>1
  <1> HIDE DEF Cooled
  <1>4. Spec => [][Cooled]_vars
    BY <1>2, <1>3, PTL DEF Spec
  <1> QED BY <1>4 DEF NoFlapping, Cooled
=============================================================================
