--------------------------- MODULE WatchModeProofs ---------------------------
(***************************************************************************)
(* Watch mode, for any number of watches, prices, zones and evaluations:   *)
(* nothing is confirmed without having been armed, the zone a caller       *)
(* supplied is never replaced, and while evaluations do not overlap the    *)
(* rows tell what was seen and only move forward.                          *)
(***************************************************************************)
EXTENDS WatchMode, SequenceTheorems, TLAPS

(* What an evaluation has loaded. *)
Loaded == [id : Id, row : Row]
Pass == [todo : Seq(Loaded), priced : Prices \cup {0}]
PassOK == pass \in [Evaluator -> Pass]

(* A row is armed only with evidence, a confirmation presupposes arming even
   where no row is left to say so, and what was loaded is not ahead of the
   row: a zone or an arming it saw is there to stay. *)
ArmedIsEvidenced ==
  /\ \A w \in DOMAIN rows :
       /\ rows[w].state = "ARMED" => evidence[w].armed # 0
       /\ rows[w].state \in {"ARMED", "CONFIRMED"} => rows[w].zone # NoZone
       /\ rows[w].state = "CONFIRMED" => evidence[w].armed # 0 /\ evidence[w].confirmed # 0
  /\ \A w \in Id : evidence[w].confirmed # 0 => evidence[w].armed # 0

LoadedIsPast(e) ==
  \A k \in DOMAIN pass[e].todo :
    LET loaded == pass[e].todo[k]
    IN  /\ loaded.row.state = "ARMED" => evidence[loaded.id].armed # 0
        /\ loaded.row.zone # NoZone => rows[loaded.id].zone # NoZone

WatchIInv ==
  /\ TypeOK
  /\ PassOK
  /\ ArmedIsEvidenced
  /\ \A e \in Evaluator : LoadedIsPast(e)

-----------------------------------------------------------------------------
(* What a row is judged by. *)

LEMMA BandIsAZone ==
  ASSUME NEW p \in Prices
  PROVE  Band(p) \in Zone /\ Band(p) # NoZone /\ Inside(Band(p), p)
  <1> DEFINE half == (p * FallbackMille) \div 1000
  <1>1. p \in Nat /\ FallbackMille \in Nat
    BY WatchAssumption
  <1>2. p * FallbackMille \in Nat
    BY <1>1
  <1>3. half \in Nat
    <2> DEFINE product == p * FallbackMille
    <2>1. product \in Nat BY <1>2
    <2> HIDE DEF product
    <2>2. product \div 1000 \in Nat BY <2>1
    <2> QED BY <2>2 DEF product
  <1> HIDE DEF half
  <1>4. Band(p) = [lo |-> p - half, hi |-> p + half]
    BY DEF Band, half
  <1>5. Band(p) \in Zone
    BY <1>1, <1>3, <1>4 DEF Zone
  <1>6. Inside(Band(p), p)
    BY <1>1, <1>3, <1>4 DEF Inside
  <1> QED BY <1>5, <1>6, WatchAssumption

LEMMA ZoneAtIsAZone ==
  ASSUME NEW p \in Prices, NEW zone \in Zone \cup {NoZone}
  PROVE  /\ ZoneAt(zone, p) \in Zone /\ ZoneAt(zone, p) # NoZone
         /\ zone # NoZone => ZoneAt(zone, p) = zone
         /\ zone = NoZone => Inside(ZoneAt(zone, p), p)
  BY BandIsAZone, WatchAssumption DEF ZoneAt

LEMMA AdvancedMoves ==
  ASSUME NEW p \in Prices, NEW loaded \in Row, Active(loaded.state)
  PROVE  LET zone  == ZoneAt(loaded.zone, p)
             state == Advanced(loaded, p)
         IN  /\ state \in WatchState
             /\ state # loaded.state =>
                  \/ loaded.state = "WATCHING" /\ state = "ARMED" /\ Inside(zone, p)
                  \/ loaded.state = "ARMED" /\ state = "CONFIRMED" /\ ~Inside(zone, p)
  BY DEF Advanced, Reacted, Active, Row, WatchState

(* What handling the next row of a pass writes. *)
LEMMA HeadIsLoaded ==
  ASSUME TypeOK, PassOK, NEW e \in Evaluator, pass[e].todo # <<>>
  PROVE  LET next == Head(pass[e].todo)
         IN  /\ next = pass[e].todo[1] /\ 1 \in DOMAIN pass[e].todo
             /\ next \in Loaded
             /\ next.id \in DOMAIN rows /\ next.id \in Id
             /\ Active(next.row.state)
             /\ Tail(pass[e].todo) \in Seq(Loaded)
             /\ Len(Tail(pass[e].todo)) = Len(pass[e].todo) - 1
             /\ \A k \in DOMAIN Tail(pass[e].todo) :
                  /\ k + 1 \in DOMAIN pass[e].todo
                  /\ Tail(pass[e].todo)[k] = pass[e].todo[k + 1]
  <1>1. pass[e].todo \in Seq(Loaded)
    BY DEF PassOK, Pass
  <1>2. /\ Len(pass[e].todo) \in Nat /\ Len(pass[e].todo) > 0
        /\ DOMAIN pass[e].todo = 1..Len(pass[e].todo)
    BY <1>1, EmptySeq, LenProperties
  <1>3. 1 \in DOMAIN pass[e].todo
    BY <1>2
  <1>4. /\ pass[e].todo[1] \in Loaded
        /\ pass[e].todo[1].id \in DOMAIN rows
        /\ Active(pass[e].todo[1].row.state)
    BY <1>1, <1>3 DEF TypeOK
  <1>5. Head(pass[e].todo) = pass[e].todo[1]
    BY <1>1, <1>2, HeadTailProperties
  <1>6. /\ Tail(pass[e].todo) \in Seq(Loaded)
        /\ Len(Tail(pass[e].todo)) = Len(pass[e].todo) - 1
        /\ \A k \in 1..Len(Tail(pass[e].todo)) : Tail(pass[e].todo)[k] = pass[e].todo[k + 1]
    BY <1>1, <1>2, HeadTailProperties
  <1>7. DOMAIN Tail(pass[e].todo) = 1..(Len(pass[e].todo) - 1)
    BY <1>6, LenProperties
  <1>8. pass[e].todo[1].id \in Id
    BY <1>4 DEF Loaded
  <1> QED BY <1>2, <1>3, <1>4, <1>5, <1>6, <1>7, <1>8

LEMMA CommitEffect ==
  ASSUME TypeOK, PassOK, NEW e \in Evaluator, CommitRow(e),
         NEW w, w = Head(pass[e].todo).id,
         NEW loaded, loaded = Head(pass[e].todo).row,
         NEW p, p = pass[e].priced
  PROVE  /\ w \in DOMAIN rows /\ w \in Id /\ loaded \in Row /\ Active(loaded.state)
         /\ p \in Prices /\ p # 0
         /\ rows' \in Seq(Row) /\ Len(rows') = Len(rows) /\ DOMAIN rows' = DOMAIN rows
         /\ \A v \in DOMAIN rows : v # w => rows'[v] = rows[v]
         /\ rows'[w].state = (IF Advanced(loaded, p) = loaded.state
                              THEN rows[w].state ELSE Advanced(loaded, p))
         /\ rows'[w].zone = (IF ZoneAt(loaded.zone, p) = loaded.zone
                             THEN rows[w].zone ELSE ZoneAt(loaded.zone, p))
         /\ evidence' \in [Id -> [armed : Prices \cup {0}, confirmed : Prices \cup {0}]]
         /\ \A v \in Id : v # w => evidence'[v] = evidence[v]
         /\ evidence'[w].armed = (IF Advanced(loaded, p) = "ARMED" /\ loaded.state # "ARMED"
                                  THEN p ELSE evidence[w].armed)
         /\ evidence'[w].confirmed =
              (IF Advanced(loaded, p) \notin {"ARMED", loaded.state}
               THEN p ELSE evidence[w].confirmed)
         /\ pass' = [pass EXCEPT ![e] = [todo |-> Tail(pass[e].todo), priced |-> 0]]
         /\ pass' \in [Evaluator -> Pass]
  <1> DEFINE state == Advanced(loaded, p)
             zone  == ZoneAt(loaded.zone, p)
             row   == Written(rows[w], loaded, state, zone)
             seen  == IF state = loaded.state THEN evidence[w] ELSE Seen(evidence[w], state, p)
  <1>1. /\ pass[e].todo # <<>> /\ p # 0
        /\ rows' = [rows EXCEPT ![w] = row]
        /\ evidence' = [evidence EXCEPT ![w] = seen]
        /\ pass' = [pass EXCEPT ![e] = [todo |-> Tail(pass[e].todo), priced |-> 0]]
    BY DEF CommitRow
  <1>2. /\ w \in DOMAIN rows /\ w \in Id /\ loaded \in Row /\ Active(loaded.state)
        /\ p \in Prices /\ Tail(pass[e].todo) \in Seq(Loaded)
    BY <1>1, HeadIsLoaded DEF TypeOK, Loaded
  <1>3. /\ state \in WatchState /\ zone \in Zone /\ rows[w] \in Row
        /\ evidence[w] \in [armed : Prices \cup {0}, confirmed : Prices \cup {0}]
    <2>1. state \in WatchState
      BY <1>2, AdvancedMoves
    <2>2. zone \in Zone
      BY <1>2, ZoneAtIsAZone DEF Row
    <2>3. rows[w] \in Row
      BY <1>2 DEF TypeOK
    <2> QED BY <1>2, <2>1, <2>2, <2>3 DEF TypeOK
  <1> HIDE DEF state, zone
  <1>4. /\ row \in Row
        /\ row.state = (IF state = loaded.state THEN rows[w].state ELSE state)
        /\ row.zone = (IF zone = loaded.zone THEN rows[w].zone ELSE zone)
    BY <1>3 DEF Row, Written
  <1>5. /\ seen \in [armed : Prices \cup {0}, confirmed : Prices \cup {0}]
        /\ seen.armed = (IF state = "ARMED" /\ loaded.state # "ARMED" THEN p ELSE evidence[w].armed)
        /\ seen.confirmed = (IF state \notin {"ARMED", loaded.state} THEN p ELSE evidence[w].confirmed)
    BY <1>2, <1>3 DEF Seen
  <1> HIDE DEF row, seen
  <1>6. /\ rows' \in Seq(Row) /\ Len(rows') = Len(rows) /\ DOMAIN rows' = DOMAIN rows
        /\ \A v \in DOMAIN rows : rows'[v] = IF v = w THEN row ELSE rows[v]
    <2>1. rows \in Seq(Row) /\ w \in 1..Len(rows) /\ DOMAIN rows = 1..Len(rows)
      BY <1>2, LenProperties DEF TypeOK
    <2> QED BY <1>1, <1>4, <2>1, ExceptSeq, LenProperties
  <1>7. /\ evidence' \in [Id -> [armed : Prices \cup {0}, confirmed : Prices \cup {0}]]
        /\ \A v \in Id : evidence'[v] = IF v = w THEN seen ELSE evidence[v]
    BY <1>1, <1>2, <1>5 DEF TypeOK
  <1>8. pass' \in [Evaluator -> Pass]
    BY <1>1, <1>2 DEF PassOK, Pass
  <1>9. /\ rows'[w].state = row.state /\ rows'[w].zone = row.zone
        /\ evidence'[w] = seen
    BY <1>2, <1>6, <1>7
  <1> QED
    BY <1>1, <1>2, <1>4, <1>5, <1>6, <1>7, <1>8, <1>9 DEF state, zone

(* What loading a page gives. *)
LEMMA LoadEffect ==
  ASSUME TypeOK, PassOK, NEW e \in Evaluator, Load(e)
  PROVE  /\ pass[e] = Waiting
         /\ pass' \in [Evaluator -> Pass]
         /\ \A f \in Evaluator : f # e => pass'[f] = pass[f]
         /\ pass'[e].todo # <<>> /\ pass'[e].priced = 0
         /\ \A k \in DOMAIN pass'[e].todo :
              /\ pass'[e].todo[k].id \in DOMAIN rows
              /\ pass'[e].todo[k].row = rows[pass'[e].todo[k].id]
              /\ Active(pass'[e].todo[k].row.state)
         /\ \A j, k \in DOMAIN pass'[e].todo :
              pass'[e].todo[j].id = pass'[e].todo[k].id => j = k
         /\ alone' = (alone /\ Idle)
         /\ rows' = rows /\ price' = price /\ evidence' = evidence
  <1>0. PICK n \in 1..PageSize : \E ids \in [1..n -> DOMAIN rows] :
          /\ Page(ids)
          /\ pass' = [pass EXCEPT ![e] =
               [todo   |-> [k \in 1..n |-> [id |-> ids[k], row |-> rows[ids[k]]]],
                priced |-> 0]]
    BY Zenon DEF Load
  <1>1. PICK ids \in [1..n -> DOMAIN rows] :
          /\ Page(ids)
          /\ pass' = [pass EXCEPT ![e] =
               [todo   |-> [k \in 1..n |-> [id |-> ids[k], row |-> rows[ids[k]]]],
                priced |-> 0]]
    BY <1>0, Zenon
  <1> DEFINE todo == [k \in 1..n |-> [id |-> ids[k], row |-> rows[ids[k]]]]
  <1>2. n \in Nat /\ n > 0 /\ DOMAIN rows = 1..Len(rows) /\ Len(rows) \in Nat /\ Len(rows) <= Watches
        /\ \A w \in DOMAIN rows : rows[w] \in Row /\ w \in Id
    BY <1>1, WatchAssumption, LenProperties DEF TypeOK, Id
  <1>3. todo \in Seq(Loaded) /\ DOMAIN todo = 1..n /\ todo # <<>>
    <2>1. \A k \in 1..n : [id |-> ids[k], row |-> rows[ids[k]]] \in Loaded
      BY <1>1, <1>2 DEF Loaded
    <2>2. todo \in [1..n -> Loaded]
      BY <2>1
    <2> QED BY <1>2, <2>2, EmptySeq, LenProperties
  <1>4. \A k \in 1..n : todo[k].id = ids[k] /\ todo[k].row = rows[ids[k]]
    OBVIOUS
  <1>5. /\ \A k \in 1..n : ids[k] \in DOMAIN rows /\ Active(rows[ids[k]].state)
        /\ \A j, k \in 1..n : ids[j] = ids[k] => j = k
    <2>1. \A j, k \in 1..n : j < k => ids[j] > ids[k]
      BY <1>1 DEF Page
    <2>2. \A j \in 1..n : ids[j] \in Nat
      BY <1>1, <1>2
    <2>3. \A j, k \in 1..n : ids[j] = ids[k] => j = k
      BY <1>2, <2>1, <2>2
    <2> QED BY <1>1, <2>3 DEF Page
  <1>6. pass[e] = Waiting
    BY DEF Load
  <1> HIDE DEF todo
  <1>7. /\ pass'[e] = [todo |-> todo, priced |-> 0]
        /\ \A f \in Evaluator : f # e => pass'[f] = pass[f]
        /\ pass' \in [Evaluator -> Pass]
    BY <1>1, <1>3, <1>6 DEF PassOK, Pass, Waiting, todo
  <1>8. pass'[e].todo = todo /\ pass'[e].priced = 0
    BY <1>7
  <1>9. \A k \in DOMAIN pass'[e].todo :
          /\ pass'[e].todo[k].id \in DOMAIN rows
          /\ pass'[e].todo[k].row = rows[pass'[e].todo[k].id]
          /\ Active(pass'[e].todo[k].row.state)
    BY <1>3, <1>4, <1>5, <1>8
  <1>10. \A j, k \in DOMAIN pass'[e].todo :
           pass'[e].todo[j].id = pass'[e].todo[k].id => j = k
    BY <1>3, <1>4, <1>5, <1>8
  <1>11. pass'[e].todo # <<>>
    BY <1>3, <1>8
  <1>12. /\ alone' = (alone /\ Idle)
         /\ rows' = rows /\ price' = price /\ evidence' = evidence
    BY DEF Load
  <1> QED BY <1>6, <1>7, <1>8, <1>9, <1>10, <1>11, <1>12

(* Reading a quote prices the next row or skips it. *)
LEMMA ReadEffect ==
  ASSUME TypeOK, PassOK, NEW e \in Evaluator, ReadQuote(e)
  PROVE  /\ pass[e].todo # <<>>
         /\ pass' \in [Evaluator -> Pass]
         /\ \A f \in Evaluator : f # e => pass'[f] = pass[f]
         /\ \/ pass'[e].todo = pass[e].todo
            \/ pass'[e].todo = Tail(pass[e].todo) /\ pass'[e].priced = 0
         /\ UNCHANGED <<rows, price, evidence, alone>>
  <1> DEFINE p == price[Head(pass[e].todo).row.symbol]
             new == IF p = 0 THEN [todo |-> Tail(pass[e].todo), priced |-> 0]
                    ELSE [todo |-> pass[e].todo, priced |-> p]
  <1>1. /\ pass[e].todo # <<>> /\ pass[e].priced = 0
        /\ pass' = [pass EXCEPT ![e] = new]
        /\ UNCHANGED <<rows, price, evidence, alone>>
    BY DEF ReadQuote
  <1>2. pass[e] \in Pass /\ Tail(pass[e].todo) \in Seq(Loaded) /\ Head(pass[e].todo) \in Loaded
    BY <1>1, HeadIsLoaded DEF PassOK
  <1>3. p \in Prices \cup {0}
    BY <1>2 DEF TypeOK, Loaded, Row
  <1> HIDE DEF p
  <1>4. /\ new \in Pass
        /\ \/ new.todo = pass[e].todo
           \/ new.todo = Tail(pass[e].todo) /\ new.priced = 0
    BY <1>1, <1>2, <1>3 DEF Pass
  <1> HIDE DEF new
  <1>5. /\ pass' \in [Evaluator -> Pass] /\ pass'[e] = new
        /\ \A f \in Evaluator : f # e => pass'[f] = pass[f]
    BY <1>1, <1>4 DEF PassOK
  <1> QED BY <1>1, <1>4, <1>5

(* The two halves of the type invariant: what an evaluation holds of the rows,
   and everything else. *)
HeldOK(f) ==
  /\ \A k \in DOMAIN pass[f].todo :
       /\ pass[f].todo[k].id \in DOMAIN rows
       /\ Active(pass[f].todo[k].row.state)
  /\ pass[f].todo = <<>> => pass[f].priced = 0

TablesOK ==
  /\ rows \in Seq(Row) /\ Len(rows) <= Watches
  /\ price \in [Symbol -> Prices \cup {0}]
  /\ evidence \in [Id -> [armed : Prices \cup {0}, confirmed : Prices \cup {0}]]
  /\ alone \in BOOLEAN

LEMMA TypeSplit == PassOK => (TypeOK <=> TablesOK /\ \A f \in Evaluator : HeldOK(f))
  <1> SUFFICES ASSUME PassOK
               PROVE  TypeOK <=> TablesOK /\ \A f \in Evaluator : HeldOK(f)
    OBVIOUS
  <1>1. ASSUME NEW f \in Evaluator
        PROVE  /\ pass[f].priced \in Prices \cup {0}
               /\ \A k \in DOMAIN pass[f].todo : pass[f].todo[k].row \in Row
    <2>1. pass[f].todo \in Seq(Loaded) /\ pass[f].priced \in Prices \cup {0}
      BY DEF PassOK, Pass
    <2>2. \A k \in DOMAIN pass[f].todo : pass[f].todo[k] \in Loaded
      BY <2>1
    <2> QED BY <2>1, <2>2 DEF Loaded
  <1> QED BY <1>1 DEF TypeOK, TablesOK, HeldOK

(* Whatever handles or skips the next row leaves a tail of what was held. *)
LEMMA TailIsHeld ==
  ASSUME TypeOK, PassOK, NEW e \in Evaluator, pass[e].todo # <<>>
  PROVE  \A k \in DOMAIN Tail(pass[e].todo) :
           /\ Tail(pass[e].todo)[k].id \in DOMAIN rows
           /\ Active(Tail(pass[e].todo)[k].row.state)
  BY HeadIsLoaded DEF TypeOK

LEMMA CreateEffect ==
  ASSUME TypeOK, NEW s \in Symbol, NEW zone \in Zones, CreateWatch(s, zone)
  PROVE  /\ rows' \in Seq(Row) /\ Len(rows') <= Watches
         /\ Len(rows) + 1 \in DOMAIN rows' /\ rows'[Len(rows) + 1].state = "WATCHING"
         /\ DOMAIN rows' = DOMAIN rows \cup {Len(rows) + 1}
         /\ \A w \in DOMAIN rows : rows'[w] = rows[w]
         /\ UNCHANGED <<price, pass, evidence, alone>>
  <1> DEFINE row == [symbol |-> s, state |-> "WATCHING", zone |-> zone]
  <1>1. row \in Row /\ row.state = "WATCHING"
    BY WatchAssumption DEF Row, WatchState
  <1>2. /\ rows' = Append(rows, row) /\ Len(rows) < Watches
        /\ UNCHANGED <<price, pass, evidence, alone>>
    BY DEF CreateWatch
  <1> HIDE DEF row
  <1>3. rows \in Seq(Row) /\ Len(rows) \in Nat /\ DOMAIN rows = 1..Len(rows) /\ Watches \in Nat
    BY LenProperties, WatchAssumption DEF TypeOK
  <1>4. /\ rows' \in Seq(Row) /\ Len(rows') = Len(rows) + 1
        /\ \A w \in 1..Len(rows) : rows'[w] = rows[w]
        /\ rows'[Len(rows) + 1] = row
        /\ DOMAIN rows' = 1..(Len(rows) + 1)
    BY <1>1, <1>2, <1>3, AppendProperties, LenProperties
  <1> QED BY <1>1, <1>2, <1>3, <1>4

LEMMA CancelEffect ==
  ASSUME TypeOK, NEW w \in Id, CancelWatch(w)
  PROVE  /\ w \in DOMAIN rows
         /\ rows' \in Seq(Row) /\ Len(rows') = Len(rows) /\ DOMAIN rows' = DOMAIN rows
         /\ \A v \in DOMAIN rows : v # w => rows'[v] = rows[v]
         /\ rows'[w].state = "CANCELLED" /\ rows'[w].zone = rows[w].zone
         /\ alone' = (alone /\ Idle)
         /\ UNCHANGED <<price, pass, evidence>>
  <1> DEFINE row == [rows[w] EXCEPT !.state = "CANCELLED"]
  <1>1. /\ w \in DOMAIN rows /\ rows' = [rows EXCEPT ![w] = row]
        /\ alone' = (alone /\ Idle)
        /\ UNCHANGED <<price, pass, evidence>>
    BY DEF CancelWatch
  <1>2. rows \in Seq(Row) /\ w \in 1..Len(rows) /\ DOMAIN rows = 1..Len(rows) /\ rows[w] \in Row
    BY <1>1, LenProperties DEF TypeOK
  <1>3. row \in Row /\ row.state = "CANCELLED" /\ row.zone = rows[w].zone
    BY <1>2 DEF Row, WatchState
  <1> HIDE DEF row
  <1>4. /\ rows' \in Seq(Row) /\ Len(rows') = Len(rows) /\ DOMAIN rows' = DOMAIN rows
        /\ \A v \in DOMAIN rows : rows'[v] = IF v = w THEN row ELSE rows[v]
    BY <1>1, <1>2, <1>3, ExceptSeq, LenProperties
  <1> QED BY <1>1, <1>3, <1>4

LEMMA TypePreserved ==
  ASSUME TypeOK, PassOK, [Next]_vars
  PROVE  TypeOK' /\ PassOK'
  <1> DEFINE Held == \A f \in Evaluator : HeldOK(f)
  <1>0. TablesOK /\ Held /\ (PassOK' => (TypeOK' <=> TablesOK' /\ Held'))
    <2>1. PassOK' => (TypeOK' <=> TablesOK' /\ Held')
      BY TypeSplit, PTL
    <2> QED BY <2>1, TypeSplit
  <1>1. ASSUME NEW s \in Symbol, NEW zone \in Zones, CreateWatch(s, zone)
        PROVE  PassOK' /\ TablesOK' /\ Held'
    BY <1>0, <1>1, CreateEffect DEF PassOK, TablesOK, HeldOK
  <1>2. ASSUME NEW w \in Id, CancelWatch(w)
        PROVE  PassOK' /\ TablesOK' /\ Held'
    BY <1>0, <1>2, CancelEffect DEF PassOK, TablesOK, HeldOK
  <1>3. ASSUME NEW s \in Symbol, NEW p \in Prices, PushQuote(s, p)
        PROVE  PassOK' /\ TablesOK' /\ Held'
    BY <1>0, <1>3 DEF PushQuote, PassOK, TablesOK, HeldOK
  <1>4. ASSUME NEW e \in Evaluator, Load(e)
        PROVE  PassOK' /\ TablesOK' /\ Held'
    <2>1. Held'
      BY <1>0, <1>4, LoadEffect DEF HeldOK
    <2>2. PassOK' /\ TablesOK'
      BY <1>0, <1>4, LoadEffect DEF PassOK, TablesOK
    <2> QED BY <2>1, <2>2
  <1>5. ASSUME NEW e \in Evaluator, ReadQuote(e)
        PROVE  PassOK' /\ TablesOK' /\ Held'
    <2>1. Held'
      BY <1>0, <1>5, ReadEffect, TailIsHeld DEF HeldOK
    <2>2. PassOK' /\ TablesOK'
      BY <1>0, <1>5, ReadEffect DEF PassOK, TablesOK
    <2> QED BY <2>1, <2>2
  <1>6. ASSUME NEW e \in Evaluator, CommitRow(e)
        PROVE  PassOK' /\ TablesOK' /\ Held'
    <2>1. pass[e].todo # <<>> /\ UNCHANGED <<price, alone>>
      BY <1>6 DEF CommitRow
    <2>2. /\ PassOK'
          /\ pass'[e].todo = Tail(pass[e].todo) /\ pass'[e].priced = 0
          /\ \A f \in Evaluator : f # e => pass'[f] = pass[f]
      <3>1. /\ pass' = [pass EXCEPT ![e] = [todo |-> Tail(pass[e].todo), priced |-> 0]]
            /\ pass' \in [Evaluator -> Pass]
        BY <1>6, CommitEffect
      <3> QED BY <3>1 DEF PassOK
    <2>3. /\ rows' \in Seq(Row) /\ Len(rows') = Len(rows) /\ DOMAIN rows' = DOMAIN rows
          /\ evidence' \in [Id -> [armed : Prices \cup {0}, confirmed : Prices \cup {0}]]
      BY <1>6, CommitEffect
    <2>4. TablesOK'
      BY <1>0, <2>1, <2>3 DEF TablesOK
    <2>5. Held'
      BY <1>0, <2>1, <2>2, <2>3, TailIsHeld DEF HeldOK
    <2> QED BY <2>2, <2>4, <2>5
  <1>7. ASSUME UNCHANGED vars
        PROVE  PassOK' /\ TablesOK' /\ Held'
    BY <1>0, <1>7 DEF vars, PassOK, TablesOK, HeldOK
  <1> HIDE DEF Held
  <1> QED
    BY <1>0, <1>1, <1>2, <1>3, <1>4, <1>5, <1>6, <1>7 DEF Next, Evaluate

(* The strengthening is preserved: an evaluation moves a row one state on from
   where it loaded it, and what it loaded is past. *)
LEMMA EvidencePreserved ==
  ASSUME WatchIInv, [Next]_vars
  PROVE  ArmedIsEvidenced' /\ \A f \in Evaluator : LoadedIsPast(f)'
  <1> USE WatchAssumption
  <1>0. /\ TypeOK /\ PassOK /\ ArmedIsEvidenced
        /\ \A f \in Evaluator : LoadedIsPast(f)
        /\ \A f \in Evaluator : \A k \in DOMAIN pass[f].todo :
             pass[f].todo[k].id \in DOMAIN rows
        /\ DOMAIN rows \subseteq Id
    BY LenProperties DEF WatchIInv, TypeOK, Id
  <1>1. ASSUME NEW s \in Symbol, NEW zone \in Zones, CreateWatch(s, zone)
        PROVE  ArmedIsEvidenced' /\ \A f \in Evaluator : LoadedIsPast(f)'
    BY <1>0, <1>1, CreateEffect DEF ArmedIsEvidenced, LoadedIsPast
  <1>2. ASSUME NEW w \in Id, CancelWatch(w)
        PROVE  ArmedIsEvidenced' /\ \A f \in Evaluator : LoadedIsPast(f)'
    BY <1>0, <1>2, CancelEffect DEF ArmedIsEvidenced, LoadedIsPast
  <1>3. ASSUME NEW s \in Symbol, NEW p \in Prices, PushQuote(s, p)
        PROVE  ArmedIsEvidenced' /\ \A f \in Evaluator : LoadedIsPast(f)'
    BY <1>0, <1>3 DEF PushQuote, ArmedIsEvidenced, LoadedIsPast
  <1>4. ASSUME NEW e \in Evaluator, Load(e)
        PROVE  ArmedIsEvidenced' /\ \A f \in Evaluator : LoadedIsPast(f)'
    BY <1>0, <1>4, LoadEffect DEF ArmedIsEvidenced, LoadedIsPast
  <1>5. ASSUME NEW e \in Evaluator, ReadQuote(e)
        PROVE  ArmedIsEvidenced' /\ \A f \in Evaluator : LoadedIsPast(f)'
    <2>1. UNCHANGED <<rows, evidence>>
      BY <1>0, <1>5, ReadEffect
    <2>2. ASSUME NEW f \in Evaluator, NEW k \in DOMAIN pass'[f].todo
          PROVE  \E j \in DOMAIN pass[f].todo : pass'[f].todo[k] = pass[f].todo[j]
      <3>1. /\ pass[e].todo # <<>>
            /\ f # e => pass'[f] = pass[f]
            /\ pass'[e].todo = pass[e].todo \/ pass'[e].todo = Tail(pass[e].todo)
        BY <1>0, <1>5, ReadEffect
      <3>2. CASE pass'[f].todo = pass[f].todo
        BY <2>2, <3>2
      <3>3. CASE f = e /\ pass'[e].todo = Tail(pass[e].todo)
        BY <1>0, <2>2, <3>1, <3>3, HeadIsLoaded
      <3> QED BY <3>1, <3>2, <3>3
    <2>3. \A f \in Evaluator : LoadedIsPast(f)'
      BY <1>0, <2>1, <2>2 DEF LoadedIsPast
    <2> QED BY <1>0, <2>1, <2>3 DEF ArmedIsEvidenced
  <1>6. ASSUME NEW e \in Evaluator, CommitRow(e)
        PROVE  ArmedIsEvidenced' /\ \A f \in Evaluator : LoadedIsPast(f)'
    <2> DEFINE w == Head(pass[e].todo).id
               loaded == Head(pass[e].todo).row
               p == pass[e].priced
    <2>0. pass[e].todo # <<>>
      BY <1>6 DEF CommitRow
    <2>1. /\ loaded.state = "ARMED" => evidence[w].armed # 0
          /\ loaded.zone # NoZone => rows[w].zone # NoZone
      BY <1>0, <2>0, HeadIsLoaded DEF LoadedIsPast
    <2>2. /\ w \in DOMAIN rows /\ w \in Id /\ loaded \in Row /\ Active(loaded.state)
          /\ p \in Prices /\ p # 0
          /\ DOMAIN rows' = DOMAIN rows
          /\ \A v \in DOMAIN rows : v # w => rows'[v] = rows[v]
          /\ \A v \in Id : v # w => evidence'[v] = evidence[v]
          /\ pass' = [pass EXCEPT ![e] = [todo |-> Tail(pass[e].todo), priced |-> 0]]
      BY <1>0, <1>6, CommitEffect
    <2>3. /\ rows'[w].state = (IF Advanced(loaded, p) = loaded.state
                               THEN rows[w].state ELSE Advanced(loaded, p))
          /\ rows'[w].zone = (IF ZoneAt(loaded.zone, p) = loaded.zone
                              THEN rows[w].zone ELSE ZoneAt(loaded.zone, p))
          /\ evidence'[w].armed = (IF Advanced(loaded, p) = "ARMED" /\ loaded.state # "ARMED"
                                   THEN p ELSE evidence[w].armed)
          /\ evidence'[w].confirmed =
               (IF Advanced(loaded, p) \notin {"ARMED", loaded.state}
                THEN p ELSE evidence[w].confirmed)
      BY <1>0, <1>6, CommitEffect
    <2>4. /\ Advanced(loaded, p) # loaded.state =>
               \/ loaded.state = "WATCHING" /\ Advanced(loaded, p) = "ARMED"
               \/ loaded.state = "ARMED" /\ Advanced(loaded, p) = "CONFIRMED"
          /\ ZoneAt(loaded.zone, p) # NoZone
          /\ loaded.zone # NoZone => ZoneAt(loaded.zone, p) = loaded.zone
      <3>1. loaded.zone \in Zone \cup {NoZone}
        BY <2>2 DEF Row
      <3> HIDE DEF w, loaded, p
      <3>2. Advanced(loaded, p) # loaded.state =>
               \/ loaded.state = "WATCHING" /\ Advanced(loaded, p) = "ARMED"
               \/ loaded.state = "ARMED" /\ Advanced(loaded, p) = "CONFIRMED"
        BY <2>2, AdvancedMoves
      <3> QED BY <2>2, <3>1, <3>2, ZoneAtIsAZone
    <2> HIDE DEF w, loaded, p
    <2>5. rows'[w].zone # NoZone
      BY <2>1, <2>3, <2>4
    <2>6. evidence[w].armed # 0 => evidence'[w].armed # 0
      BY <2>2, <2>3
    <2>7. ArmedIsEvidenced'
      <3>1. /\ rows'[w].state = "ARMED" => evidence'[w].armed # 0
            /\ rows'[w].state = "CONFIRMED" => evidence'[w].armed # 0 /\ evidence'[w].confirmed # 0
            /\ evidence'[w].confirmed # 0 => evidence'[w].armed # 0
        BY <1>0, <2>1, <2>2, <2>3, <2>4 DEF ArmedIsEvidenced
      <3> QED BY <1>0, <2>2, <2>5, <3>1 DEF ArmedIsEvidenced
    <2>8. \A f \in Evaluator : LoadedIsPast(f)'
      <3> SUFFICES ASSUME NEW f \in Evaluator, NEW k \in DOMAIN pass'[f].todo
                   PROVE  LET held == pass'[f].todo[k]
                          IN  /\ held.row.state = "ARMED" => evidence'[held.id].armed # 0
                              /\ held.row.zone # NoZone => rows'[held.id].zone # NoZone
        BY DEF LoadedIsPast
      <3>1. PICK j \in DOMAIN pass[f].todo : pass'[f].todo[k] = pass[f].todo[j]
        BY <1>0, <2>0, <2>2, HeadIsLoaded DEF PassOK
      <3>2. LET held == pass[f].todo[j]
            IN  /\ held.row.state = "ARMED" => evidence[held.id].armed # 0
                /\ held.row.zone # NoZone => rows[held.id].zone # NoZone
                /\ held.id \in DOMAIN rows /\ held.id \in Id
        BY <1>0 DEF LoadedIsPast
      <3> QED BY <2>2, <2>5, <2>6, <3>1, <3>2
    <2> QED BY <2>7, <2>8
  <1>7. ASSUME UNCHANGED vars
        PROVE  ArmedIsEvidenced' /\ \A f \in Evaluator : LoadedIsPast(f)'
    BY <1>0, <1>7 DEF vars, ArmedIsEvidenced, LoadedIsPast
  <1> QED
    BY <1>1, <1>2, <1>3, <1>4, <1>5, <1>6, <1>7 DEF Next, Evaluate

LEMMA WatchInit == Init => WatchIInv
  <1> SUFFICES ASSUME Init PROVE WatchIInv
    OBVIOUS
  <1> USE WatchAssumption DEF Init
  <1>1. PassOK
    BY DEF PassOK, Pass, Waiting
  <1>2. rows \in Seq(Row) /\ Len(rows) = 0 /\ DOMAIN rows = {}
    OBVIOUS
  <1>3. \A e \in Evaluator : HeldOK(e) /\ LoadedIsPast(e)
    BY DEF HeldOK, LoadedIsPast, Waiting
  <1>4. TablesOK
    BY <1>2 DEF TablesOK, Unseen
  <1>5. ArmedIsEvidenced
    BY <1>2 DEF ArmedIsEvidenced, Unseen
  <1> QED BY <1>1, <1>3, <1>4, <1>5, TypeSplit DEF WatchIInv

LEMMA WatchStep == WatchIInv /\ [Next]_vars => WatchIInv'
  <1> SUFFICES ASSUME WatchIInv, [Next]_vars PROVE WatchIInv'
    OBVIOUS
  <1>1. TypeOK' /\ PassOK'
    BY TypePreserved DEF WatchIInv
  <1> QED BY <1>1, EvidencePreserved DEF WatchIInv

(* Whatever evaluations overlap, every variable keeps its type, every row an
   evaluation holds was active when it was loaded, and a confirmed row was armed
   by a price before (create_watch, cancel_watch, evaluate_watches). *)
THEOREM WatchSafe == Spec => []WatchInv
  <1>1. WatchIInv => WatchInv
    <2> SUFFICES ASSUME WatchIInv PROVE ConfirmedWasArmed
      BY DEF WatchIInv, WatchInv
    <2>1. DOMAIN rows \subseteq Id
      BY WatchAssumption, LenProperties DEF WatchIInv, TypeOK, Id
    <2> QED BY <2>1 DEF WatchIInv, ArmedIsEvidenced, ConfirmedWasArmed
  <1> QED BY WatchInit, WatchStep, <1>1, PTL DEF Spec

-----------------------------------------------------------------------------
(* Evaluations that do not overlap: one at most is at work, and what it holds
   are different rows as they are stored. *)
Undisturbed ==
  /\ \A e, f \in Evaluator : pass[e].todo # <<>> /\ pass[f].todo # <<>> => e = f
  /\ \A e \in Evaluator :
       /\ \A k \in DOMAIN pass[e].todo : pass[e].todo[k].row = rows[pass[e].todo[k].id]
       /\ \A j, k \in DOMAIN pass[e].todo :
            pass[e].todo[j].id = pass[e].todo[k].id => j = k

LoneIInv == (alone => Undisturbed) /\ ReactionEvidence

LEMMA IdleHoldsNothing ==
  ASSUME Idle
  PROVE  /\ \A e \in Evaluator : pass[e].todo = <<>> /\ DOMAIN pass[e].todo = {}
  BY DEF Idle, Waiting

LEMMA LoneCommit ==
  ASSUME WatchIInv, LoneIInv, alone, NEW e \in Evaluator, CommitRow(e),
         NEW w, w = Head(pass[e].todo).id,
         NEW p, p = pass[e].priced
  PROVE  /\ w \in DOMAIN rows /\ DOMAIN rows' = DOMAIN rows
         /\ \A v \in DOMAIN rows : v # w => rows'[v] = rows[v] /\ evidence'[v] = evidence[v]
         /\ rows'[w].state # rows[w].state =>
              \/ /\ rows[w].state = "WATCHING" /\ rows'[w].state = "ARMED"
                 /\ evidence'[w].armed = p
                 /\ Inside(rows'[w].zone, p)
              \/ /\ rows[w].state = "ARMED" /\ rows'[w].state = "CONFIRMED"
                 /\ evidence'[w].confirmed = p /\ evidence'[w].armed = evidence[w].armed
                 /\ rows'[w].zone = rows[w].zone /\ ~Inside(rows'[w].zone, p)
         /\ rows'[w].state = rows[w].state =>
              /\ evidence'[w] = evidence[w]
              /\ rows[w].state = "ARMED" => rows'[w].zone = rows[w].zone
         /\ Active(rows[w].state)
         /\ pass' = [pass EXCEPT ![e] = [todo |-> Tail(pass[e].todo), priced |-> 0]]
  <1> DEFINE loaded == Head(pass[e].todo).row
             state == Advanced(loaded, p)
             zone == ZoneAt(loaded.zone, p)
  <1>0. TypeOK /\ PassOK /\ pass[e].todo # <<>> /\ DOMAIN rows \subseteq Id
    BY LenProperties, WatchAssumption DEF WatchIInv, CommitRow, TypeOK, Id
  <1>1. rows[w] = loaded
    BY <1>0, HeadIsLoaded DEF LoneIInv, Undisturbed
  <1>2. /\ w \in DOMAIN rows /\ w \in Id /\ loaded \in Row /\ Active(loaded.state)
        /\ p \in Prices
        /\ DOMAIN rows' = DOMAIN rows
        /\ \A v \in DOMAIN rows : v # w => rows'[v] = rows[v]
        /\ \A v \in Id : v # w => evidence'[v] = evidence[v]
        /\ pass' = [pass EXCEPT ![e] = [todo |-> Tail(pass[e].todo), priced |-> 0]]
    BY <1>0, CommitEffect
  <1>3. /\ rows'[w].state = state
        /\ rows'[w].zone = zone
        /\ evidence'[w].armed = (IF state = "ARMED" /\ loaded.state # "ARMED"
                                 THEN p ELSE evidence[w].armed)
        /\ evidence'[w].confirmed = (IF state \notin {"ARMED", loaded.state}
                                     THEN p ELSE evidence[w].confirmed)
        /\ evidence' \in [Id -> [armed : Prices \cup {0}, confirmed : Prices \cup {0}]]
    BY <1>0, <1>1, CommitEffect
  <1>4. loaded.zone \in Zone \cup {NoZone}
    BY <1>2 DEF Row
  <1> HIDE DEF loaded
  <1>5. state # loaded.state =>
          \/ loaded.state = "WATCHING" /\ state = "ARMED" /\ Inside(zone, p)
          \/ loaded.state = "ARMED" /\ state = "CONFIRMED" /\ ~Inside(zone, p)
    BY <1>2, AdvancedMoves
  <1>6. loaded.zone # NoZone => zone = loaded.zone
    BY <1>2, <1>4, ZoneAtIsAZone
  <1>7. loaded.state = "ARMED" => loaded.zone # NoZone
    BY <1>1, <1>2 DEF WatchIInv, ArmedIsEvidenced
  <1> HIDE DEF state, zone
  <1>8. state = loaded.state => evidence'[w] = evidence[w]
    <2>1. evidence[w] \in [armed : Prices \cup {0}, confirmed : Prices \cup {0}]
      BY <1>0, <1>2 DEF TypeOK
    <2>2. evidence'[w] \in [armed : Prices \cup {0}, confirmed : Prices \cup {0}]
      BY <1>2, <1>3
    <2> QED BY <1>3, <2>1, <2>2
  <1> QED BY <1>0, <1>1, <1>2, <1>3, <1>5, <1>6, <1>7, <1>8

(* Dropping the next row leaves the evaluation undisturbed, if what it still
   holds is stored as it was. *)
LEMMA TailUndisturbed ==
  ASSUME TypeOK, PassOK, Undisturbed, NEW e \in Evaluator, pass[e].todo # <<>>
  PROVE  /\ \A k \in DOMAIN Tail(pass[e].todo) :
              LET held == Tail(pass[e].todo)[k]
              IN  held.row = rows[held.id] /\ held.id # Head(pass[e].todo).id
                  /\ held.id \in DOMAIN rows
         /\ \A j, k \in DOMAIN Tail(pass[e].todo) :
              Tail(pass[e].todo)[j].id = Tail(pass[e].todo)[k].id => j = k
  <1>1. /\ Head(pass[e].todo) = pass[e].todo[1] /\ 1 \in DOMAIN pass[e].todo
        /\ DOMAIN Tail(pass[e].todo) \subseteq Nat \ {0}
        /\ \A k \in DOMAIN Tail(pass[e].todo) :
             /\ k + 1 \in DOMAIN pass[e].todo
             /\ Tail(pass[e].todo)[k] = pass[e].todo[k + 1]
    BY HeadIsLoaded, LenProperties
  <1> QED BY <1>1, TailIsHeld DEF Undisturbed

LEMMA LonePreserved ==
  ASSUME WatchIInv, LoneIInv, [Next]_vars
  PROVE  LoneIInv'
  <1>0. /\ TypeOK /\ PassOK /\ DOMAIN rows \subseteq Id
        /\ alone \in BOOLEAN
        /\ \A f \in Evaluator : \A k \in DOMAIN pass[f].todo :
             pass[f].todo[k].id \in DOMAIN rows
    BY LenProperties, WatchAssumption DEF WatchIInv, TypeOK, Id
  <1>1. ASSUME NEW s \in Symbol, NEW zone \in Zones, CreateWatch(s, zone)
        PROVE  LoneIInv'
    <2>1. /\ \A w \in DOMAIN rows' : w \in DOMAIN rows \/ rows'[w].state = "WATCHING"
          /\ \A w \in DOMAIN rows : rows'[w] = rows[w]
          /\ UNCHANGED <<pass, evidence, alone>>
      BY <1>0, <1>1, CreateEffect
    <2>2. (alone => Undisturbed)'
      BY <1>0, <2>1 DEF LoneIInv, Undisturbed
    <2>3. ReactionEvidence'
      BY <2>1 DEF LoneIInv, ReactionEvidence
    <2> QED BY <2>2, <2>3 DEF LoneIInv
  <1>2. ASSUME NEW w \in Id, CancelWatch(w)
        PROVE  LoneIInv'
    <2>1. /\ DOMAIN rows' = DOMAIN rows
          /\ \A v \in DOMAIN rows : v # w => rows'[v] = rows[v]
          /\ rows'[w].state = "CANCELLED"
          /\ alone' = (alone /\ Idle) /\ UNCHANGED <<pass, evidence>>
      BY <1>0, <1>2, CancelEffect
    <2>2. (alone => Undisturbed)'
      BY <2>1, IdleHoldsNothing DEF Undisturbed
    <2>3. ReactionEvidence'
      BY <2>1 DEF LoneIInv, ReactionEvidence
    <2> QED BY <2>2, <2>3 DEF LoneIInv
  <1>3. ASSUME NEW s \in Symbol, NEW p \in Prices, PushQuote(s, p)
        PROVE  LoneIInv'
    BY <1>3 DEF PushQuote, LoneIInv, Undisturbed, ReactionEvidence
  <1>4. ASSUME NEW e \in Evaluator, Load(e)
        PROVE  LoneIInv'
    <2>1. /\ \A f \in Evaluator : f # e => pass'[f] = pass[f]
          /\ \A k \in DOMAIN pass'[e].todo :
               pass'[e].todo[k].row = rows[pass'[e].todo[k].id]
          /\ \A j, k \in DOMAIN pass'[e].todo :
               pass'[e].todo[j].id = pass'[e].todo[k].id => j = k
          /\ alone' = (alone /\ Idle)
          /\ UNCHANGED <<rows, evidence>>
      BY <1>0, <1>4, LoadEffect
    <2>2. (alone => Undisturbed)'
      BY <2>1, IdleHoldsNothing DEF Undisturbed
    <2>3. ReactionEvidence'
      BY <2>1 DEF LoneIInv, ReactionEvidence
    <2> QED BY <2>2, <2>3 DEF LoneIInv
  <1>5. ASSUME NEW e \in Evaluator, ReadQuote(e)
        PROVE  LoneIInv'
    <2>1. /\ pass[e].todo # <<>>
          /\ \A f \in Evaluator : f # e => pass'[f] = pass[f]
          /\ pass'[e].todo = pass[e].todo \/ pass'[e].todo = Tail(pass[e].todo)
          /\ UNCHANGED <<rows, evidence, alone>>
      BY <1>0, <1>5, ReadEffect
    <2>2. ReactionEvidence'
      BY <2>1 DEF LoneIInv, ReactionEvidence
    <2>3. ASSUME alone PROVE Undisturbed'
      <3>1. Undisturbed
        BY <2>3 DEF LoneIInv
      <3>2. \A f, g \in Evaluator : pass'[f].todo # <<>> /\ pass'[g].todo # <<>> => f = g
        BY <2>1, <3>1 DEF Undisturbed
      <3>3. ASSUME NEW f \in Evaluator
            PROVE  /\ \A k \in DOMAIN pass'[f].todo :
                        pass'[f].todo[k].row = rows[pass'[f].todo[k].id]
                   /\ \A j, k \in DOMAIN pass'[f].todo :
                        pass'[f].todo[j].id = pass'[f].todo[k].id => j = k
        <4>1. CASE pass'[f].todo = pass[f].todo
          BY <3>1, <4>1 DEF Undisturbed
        <4>2. CASE f = e /\ pass'[e].todo = Tail(pass[e].todo)
          BY <1>0, <2>1, <3>1, <4>2, TailUndisturbed
        <4> QED BY <2>1, <4>1, <4>2
      <3> QED BY <2>1, <3>2, <3>3 DEF Undisturbed
    <2> QED BY <2>1, <2>2, <2>3 DEF LoneIInv
  <1>6. ASSUME NEW e \in Evaluator, CommitRow(e)
        PROVE  LoneIInv'
    <2>0. alone' = alone /\ pass[e].todo # <<>>
      BY <1>6 DEF CommitRow
    <2> SUFFICES ASSUME alone
                 PROVE  Undisturbed' /\ ReactionEvidence'
      BY <2>0 DEF LoneIInv, ReactionEvidence
    <2> DEFINE w == Head(pass[e].todo).id
               p == pass[e].priced
    <2>1. /\ w \in DOMAIN rows /\ DOMAIN rows' = DOMAIN rows
          /\ \A v \in DOMAIN rows : v # w => rows'[v] = rows[v] /\ evidence'[v] = evidence[v]
          /\ rows'[w].state # rows[w].state =>
               \/ /\ rows[w].state = "WATCHING" /\ rows'[w].state = "ARMED"
                  /\ evidence'[w].armed = p
                  /\ Inside(rows'[w].zone, p)
               \/ /\ rows[w].state = "ARMED" /\ rows'[w].state = "CONFIRMED"
                  /\ evidence'[w].confirmed = p /\ evidence'[w].armed = evidence[w].armed
                  /\ rows'[w].zone = rows[w].zone /\ ~Inside(rows'[w].zone, p)
          /\ rows'[w].state = rows[w].state =>
               /\ evidence'[w] = evidence[w]
               /\ rows[w].state = "ARMED" => rows'[w].zone = rows[w].zone
          /\ Active(rows[w].state)
          /\ pass' = [pass EXCEPT ![e] = [todo |-> Tail(pass[e].todo), priced |-> 0]]
      BY <1>6, LoneCommit
    <2> HIDE DEF p
    <2>2. ReactionEvidence'
      <3> SUFFICES ASSUME NEW v \in DOMAIN rows
                   PROVE  /\ rows'[v].state = "ARMED" => Inside(rows'[v].zone, evidence'[v].armed)
                          /\ rows'[v].state = "CONFIRMED" =>
                               /\ Inside(rows'[v].zone, evidence'[v].armed)
                               /\ ~Inside(rows'[v].zone, evidence'[v].confirmed)
        BY <2>1 DEF ReactionEvidence
      <3>1. /\ rows[v].state = "ARMED" => Inside(rows[v].zone, evidence[v].armed)
            /\ rows[v].state = "CONFIRMED" =>
                 /\ Inside(rows[v].zone, evidence[v].armed)
                 /\ ~Inside(rows[v].zone, evidence[v].confirmed)
        BY DEF LoneIInv, ReactionEvidence
      <3>2. CASE v # w
        BY <2>1, <3>1, <3>2
      <3>3. CASE v = w
        <4> HIDE DEF w
        <4> QED BY <2>1, <3>1, <3>3 DEF Active
      <3> QED BY <3>2, <3>3
    <2>3. Undisturbed
      BY DEF LoneIInv
    <2>4. /\ pass'[e].todo = Tail(pass[e].todo)
          /\ \A f \in Evaluator : f # e => pass'[f] = pass[f]
      BY <1>0, <2>1 DEF PassOK
    <2>5. \A f \in Evaluator : f # e => DOMAIN pass'[f].todo = {} /\ pass'[f].todo = <<>>
      BY <2>0, <2>3, <2>4 DEF Undisturbed
    <2>6. /\ \A k \in DOMAIN pass'[e].todo :
               pass'[e].todo[k].row = rows'[pass'[e].todo[k].id]
          /\ \A j, k \in DOMAIN pass'[e].todo :
               pass'[e].todo[j].id = pass'[e].todo[k].id => j = k
      <3>1. /\ \A k \in DOMAIN Tail(pass[e].todo) :
                 LET held == Tail(pass[e].todo)[k]
                 IN  held.row = rows[held.id] /\ held.id # w /\ held.id \in DOMAIN rows
            /\ \A j, k \in DOMAIN Tail(pass[e].todo) :
                 Tail(pass[e].todo)[j].id = Tail(pass[e].todo)[k].id => j = k
        BY <1>0, <2>0, <2>3, TailUndisturbed
      <3>2. \A v \in DOMAIN rows : v # w => rows'[v] = rows[v]
        BY <2>1
      <3> DEFINE rest == Tail(pass[e].todo)
      <3>3. pass'[e].todo = rest
        BY <2>4
      <3>4. \A k \in DOMAIN rest :
              rest[k].row = rows[rest[k].id] /\ rest[k].id # w /\ rest[k].id \in DOMAIN rows
        BY <3>1
      <3>5. \A j, k \in DOMAIN rest : rest[j].id = rest[k].id => j = k
        BY <3>1
      <3> HIDE DEF w, rest
      <3> QED BY <3>2, <3>3, <3>4, <3>5
    <2>7. Undisturbed'
      BY <2>5, <2>6 DEF Undisturbed
    <2> QED BY <2>2, <2>7
  <1>7. CASE UNCHANGED vars
    BY <1>7 DEF vars, LoneIInv, Undisturbed, ReactionEvidence
  <1> QED
    BY <1>1, <1>2, <1>3, <1>4, <1>5, <1>6, <1>7 DEF Next, Evaluate

LEMMA LoneInit == Init => LoneIInv
  <1> SUFFICES ASSUME Init PROVE LoneIInv
    OBVIOUS
  <1>1. DOMAIN rows = {} /\ \A e \in Evaluator : pass[e].todo = <<>> /\ DOMAIN pass[e].todo = {}
    BY DEF Init, Waiting
  <1> QED BY <1>1 DEF LoneIInv, Undisturbed, ReactionEvidence

LEMMA WatchInvariants == Spec => [](WatchIInv /\ LoneIInv)
  <1>1. WatchIInv /\ LoneIInv /\ [Next]_vars => LoneIInv'
    BY LonePreserved
  <1> QED BY WatchInit, WatchStep, LoneInit, <1>1, PTL DEF Spec

(* As long as evaluations do not overlap, an armed row was armed at a price
   inside the zone stored with it, and a confirmed one confirmed at a price
   outside (evaluate_watches). *)
THEOREM RowsTellWhatWasSeen == Spec => []ReactionEvidence
  BY WatchInvariants, PTL DEF LoneIInv

(* The zone of a row changes only where an evaluation that loaded it without one
   stores its provisional band, so a zone a caller supplied is kept for ever,
   whatever evaluations overlap (evaluate_watches). *)
THEOREM ZonesAreKept == Spec => ZoneKept
  <1>1. WatchIInv /\ [Next]_vars =>
          [\A w \in DOMAIN rows :
             rows'[w].zone # rows[w].zone =>
               \E e \in Evaluator :
                 /\ pass[e].priced # 0
                 /\ Head(pass[e].todo).id = w
                 /\ Head(pass[e].todo).row.zone = NoZone
                 /\ Inside(rows'[w].zone, pass[e].priced)]_vars
    <2> SUFFICES ASSUME WatchIInv, [Next]_vars, NEW w \in DOMAIN rows,
                        rows'[w].zone # rows[w].zone
                 PROVE  \E e \in Evaluator :
                          /\ pass[e].priced # 0
                          /\ Head(pass[e].todo).id = w
                          /\ Head(pass[e].todo).row.zone = NoZone
                          /\ Inside(rows'[w].zone, pass[e].priced)
      OBVIOUS
    <2>0. TypeOK /\ PassOK
      BY DEF WatchIInv
    <2>1. PICK e \in Evaluator : CommitRow(e)
      <3>1. \A s \in Symbol, zone \in Zones : ~CreateWatch(s, zone)
        BY <2>0, CreateEffect
      <3>2. \A v \in Id : ~CancelWatch(v)
        BY <2>0, CancelEffect
      <3>3. \A e \in Evaluator : ~Load(e) /\ ~ReadQuote(e)
        BY DEF Load, ReadQuote
      <3> QED BY <3>1, <3>2, <3>3 DEF Next, Evaluate, PushQuote, vars
    <2> DEFINE v == Head(pass[e].todo).id
               loaded == Head(pass[e].todo).row
               p == pass[e].priced
    <2>2. /\ loaded \in Row /\ p \in Prices /\ p # 0
          /\ \A u \in DOMAIN rows : u # v => rows'[u] = rows[u]
          /\ rows'[v].zone = (IF ZoneAt(loaded.zone, p) = loaded.zone
                              THEN rows[v].zone ELSE ZoneAt(loaded.zone, p))
      BY <2>0, <2>1, CommitEffect
    <2>3. v = w
      BY <2>2
    <2>4. loaded.zone \in Zone \cup {NoZone}
      BY <2>2 DEF Row
    <2>5. loaded.zone = NoZone /\ Inside(rows'[w].zone, p)
      <3> HIDE DEF v, loaded, p
      <3> QED BY <2>2, <2>3, <2>4, ZoneAtIsAZone
    <2> QED BY <2>2, <2>3, <2>5
  <1> QED BY WatchInvariants, <1>1, PTL DEF Spec, ZoneKept

(* As long as no evaluation overlaps another one or a cancellation, a row only
   moves forward and a cancelled one stays cancelled (evaluate_watches,
   cancel_watch). *)
THEOREM WatchesMoveForward == Spec => ForwardAlone
  <1>1. WatchIInv /\ LoneIInv /\ [Next]_vars => [alone' => MovesForward]_vars
    <2> SUFFICES ASSUME WatchIInv, LoneIInv, [Next]_vars, alone',
                        NEW w \in DOMAIN rows, rows'[w].state # rows[w].state
                 PROVE  Rank(rows'[w].state) > Rank(rows[w].state) \/ rows'[w].state = "CANCELLED"
      BY DEF MovesForward
    <2>0. TypeOK
      BY DEF WatchIInv
    <2>1. ASSUME NEW v \in Id, CancelWatch(v)
          PROVE  rows'[w].state = "CANCELLED"
      BY <2>0, <2>1, CancelEffect
    <2>2. ASSUME NEW e \in Evaluator, CommitRow(e)
          PROVE  Rank(rows'[w].state) > Rank(rows[w].state)
      <3>1. alone
        BY <2>2 DEF CommitRow
      <3>2. \/ rows[w].state = "WATCHING" /\ rows'[w].state = "ARMED"
            \/ rows[w].state = "ARMED" /\ rows'[w].state = "CONFIRMED"
        BY <2>2, <3>1, LoneCommit
      <3> QED BY <3>2 DEF Rank
    <2>3. \A s \in Symbol, zone \in Zones : ~CreateWatch(s, zone)
      BY <2>0, CreateEffect
    <2>4. \A e \in Evaluator : ~Load(e) /\ ~ReadQuote(e)
      BY DEF Load, ReadQuote
    <2>5. ~UNCHANGED rows
      OBVIOUS
    <2>6. CASE \E v \in Id : CancelWatch(v)
      BY <2>1, <2>6
    <2>7. CASE \E e \in Evaluator : CommitRow(e)
      BY <2>2, <2>7
    <2> QED BY <2>3, <2>4, <2>5, <2>6, <2>7 DEF Next, Evaluate, PushQuote, vars
  <1> QED BY WatchInvariants, <1>1, PTL DEF Spec, ForwardAlone
=============================================================================
