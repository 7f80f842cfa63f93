------------------------------ MODULE WatchMode ------------------------------
(***************************************************************************)
(* Watch mode (core/desk/watch.py): a request to watch a symbol is armed   *)
(* when the price is seen inside its zone and confirmed when it is later   *)
(* seen outside.                                                           *)
(*                                                                         *)
(* evaluate_watches runs on request, in the thread pool (GET /watches) and *)
(* on the event loop (CIO._run_watch), so several evaluations overlap.     *)
(* Each loads all its rows in one SELECT, then for one row after the other *)
(* reads the latest quote and commits.  The session neither refreshes a    *)
(* row (expire_on_commit=False) nor checks its version, and an UPDATE      *)
(* writes the columns that differ from what was loaded.                    *)
(***************************************************************************)
EXTENDS Integers, Sequences

CONSTANTS
  Watches,        \* bound: requests created; ids grow with creation
  Symbol,
  Prices,         \* prices a quote can carry
  Zones,          \* zones a caller may supply
  NoZone,         \* zone_low and zone_high are NULL
  FallbackMille,  \* atr_fallback_pct, in thousandths of the price
  Evaluator,      \* threads that may be inside evaluate_watches
  PageSize,       \* the LIMIT of the SELECT
  Cancels         \* watches cancel_watch may be called for: no route calls it yet

Zone == [lo : Int, hi : Int]

ASSUME WatchAssumption ==
  /\ Watches \in Nat
  /\ Prices \subseteq Nat \ {0}
  /\ Zones \subseteq Zone \cup {NoZone}
  /\ NoZone \notin Zone
  /\ FallbackMille \in Nat
  /\ PageSize \in Nat
  /\ Cancels \subseteq Nat

VARIABLES
  rows,      \* rows of watch_requests by id, in order of creation
  price,     \* the latest quote of each symbol, 0 when there is none
  pass,      \* what each evaluator has loaded and not yet handled
  evidence,  \* history: the prices a row was armed and confirmed at
  alone      \* history: no evaluation has yet overlapped another one, or a
             \* cancellation

vars == <<rows, price, pass, evidence, alone>>

Id == 1..Watches
WatchState == {"WATCHING", "ARMED", "CONFIRMED", "INVALIDATED", "CANCELLED"}
Row == [symbol : Symbol, state : WatchState, zone : Zone \cup {NoZone}]

Unseen == [armed |-> 0, confirmed |-> 0]
Waiting == [todo |-> <<>>, priced |-> 0]

Init ==
  /\ rows = <<>>
  /\ price = [s \in Symbol |-> 0]
  /\ pass = [e \in Evaluator |-> Waiting]
  /\ evidence = [w \in Id |-> Unseen]
  /\ alone = TRUE

-----------------------------------------------------------------------------
(* create_watch *)
CreateWatch(s, zone) ==
  /\ Len(rows) < Watches
  /\ rows' = Append(rows, [symbol |-> s, state |-> "WATCHING", zone |-> zone])
  /\ UNCHANGED <<price, pass, evidence, alone>>

(* No evaluation is under way. *)
Idle == \A e \in Evaluator : pass[e] = Waiting

(* cancel_watch *)
CancelWatch(w) ==
  /\ w \in Cancels
  /\ w \in DOMAIN rows
  /\ rows[w].state # "CANCELLED"
  /\ rows' = [rows EXCEPT ![w].state = "CANCELLED"]
  /\ alone' = (alone /\ Idle)
  /\ UNCHANGED <<price, pass, evidence>>

(* A new latest quote row. *)
PushQuote(s, p) ==
  /\ price' = [price EXCEPT ![s] = p]
  /\ UNCHANGED <<rows, pass, evidence, alone>>

-----------------------------------------------------------------------------
Active(state) == state \in {"WATCHING", "ARMED"}

(* Slip: the page is cut without asking for the state. *)
SlipPage(ids) ==
  /\ \A j, k \in DOMAIN ids : j < k => ids[j] > ids[k]
  /\ \A w \in DOMAIN rows :
       \/ \E k \in DOMAIN ids : ids[k] = w
       \/ Len(ids) = PageSize /\ \A k \in DOMAIN ids : w < ids[k]

(* The ids the SELECT returns: active rows, newest first, one page of them. *)
Page(ids) ==
  /\ \A k \in DOMAIN ids : Active(rows[ids[k]].state)
  /\ \A j, k \in DOMAIN ids : j < k => ids[j] > ids[k]
  /\ \A w \in DOMAIN rows : Active(rows[w].state) =>
       \/ \E k \in DOMAIN ids : ids[k] = w
       \/ Len(ids) = PageSize /\ \A k \in DOMAIN ids : w < ids[k]

(* evaluate_watches: the SELECT of the active rows. *)
Load(e) ==
  /\ pass[e] = Waiting
  /\ \E n \in 1..PageSize : \E ids \in [1..n -> DOMAIN rows] :
       /\ Page(ids)
       /\ pass' = [pass EXCEPT ![e] =
            [todo   |-> [k \in 1..n |-> [id |-> ids[k], row |-> rows[ids[k]]]],
             priced |-> 0]]
  /\ alone' = (alone /\ Idle)
  /\ UNCHANGED <<rows, price, evidence>>

(* evaluate_watches: the latest quote of the next row is read; without one the
   row is skipped. *)
ReadQuote(e) ==
  /\ pass[e].todo # <<>>
  /\ pass[e].priced = 0
  /\ LET p == price[Head(pass[e].todo).row.symbol]
     IN  pass' = [pass EXCEPT ![e] =
                    IF p = 0 THEN [todo |-> Tail(@.todo), priced |-> 0]
                    ELSE [todo |-> @.todo, priced |-> p]]
  /\ UNCHANGED <<rows, price, evidence, alone>>

Band(p) ==
  LET half == (p * FallbackMille) \div 1000 IN [lo |-> p - half, hi |-> p + half]

(* Slip: the band moves with the price, whatever the row says. *)
SlipZoneAt(zone, p) == Band(p)

(* The zone a row is judged by: its own, or a provisional band around the price
   that is stored as the row's zone from then on. *)
ZoneAt(zone, p) == IF zone = NoZone THEN Band(p) ELSE zone

Inside(zone, p) == zone.lo <= p /\ p <= zone.hi

(* Slip: a row is confirmed wherever the price is. *)
SlipReacted(zone, p) == TRUE

Reacted(zone, p) == ~Inside(zone, p)

(* Slip: a row that was never armed is confirmed outside its zone too. *)
SlipAdvanced(loaded, p) ==
  IF Inside(ZoneAt(loaded.zone, p), p) THEN "ARMED" ELSE "CONFIRMED"

(* Slip: an armed row goes back to watching when the price leaves its zone. *)
SlipDisarmed(loaded, p) ==
  IF Inside(ZoneAt(loaded.zone, p), p) THEN "ARMED" ELSE "WATCHING"

(* The state a row moves to at a price, judged by the row as it was loaded. *)
Advanced(loaded, p) ==
  LET zone == ZoneAt(loaded.zone, p)
  IN  CASE loaded.state = "WATCHING" /\ Inside(zone, p) -> "ARMED"
        [] loaded.state = "ARMED" /\ Reacted(zone, p)   -> "CONFIRMED"
        [] OTHER                                        -> loaded.state

(* An UPDATE writes the columns that were changed since the row was loaded. *)
Written(row, loaded, state, zone) ==
  [row EXCEPT !.state = IF state = loaded.state THEN @ ELSE state,
              !.zone = IF zone = loaded.zone THEN @ ELSE zone]

Seen(seen, state, p) ==
  IF state = "ARMED" THEN [seen EXCEPT !.armed = p] ELSE [seen EXCEPT !.confirmed = p]

(* evaluate_watches: the row is moved and committed. *)
CommitRow(e) ==
  LET p      == pass[e].priced
      w      == Head(pass[e].todo).id
      loaded == Head(pass[e].todo).row
      state  == Advanced(loaded, p)
      zone   == ZoneAt(loaded.zone, p)
  IN  /\ pass[e].todo # <<>>
      /\ p # 0
      /\ rows' = [rows EXCEPT ![w] = Written(@, loaded, state, zone)]
      /\ evidence' = [evidence EXCEPT ![w] =
                       IF state = loaded.state THEN @ ELSE Seen(@, state, p)]
      /\ pass' = [pass EXCEPT ![e] = [todo |-> Tail(@.todo), priced |-> 0]]
      /\ UNCHANGED <<price, alone>>

Evaluate(e) == Load(e) \/ ReadQuote(e) \/ CommitRow(e)

Next ==
  \/ \E s \in Symbol, zone \in Zones : CreateWatch(s, zone)
  \/ \E w \in Id : CancelWatch(w)
  \/ \E s \in Symbol, p \in Prices : PushQuote(s, p)
  \/ \E e \in Evaluator : Evaluate(e)

Spec == Init /\ [][Next]_vars

-----------------------------------------------------------------------------
(* Type invariant. *)
TypeOK ==
  /\ rows \in Seq(Row) /\ Len(rows) <= Watches
  /\ price \in [Symbol -> Prices \cup {0}]
  /\ \A e \in Evaluator :
       /\ pass[e].priced \in Prices \cup {0}
       /\ \A k \in DOMAIN pass[e].todo :
            /\ pass[e].todo[k].id \in DOMAIN rows
            /\ pass[e].todo[k].row \in Row
            /\ Active(pass[e].todo[k].row.state)
       /\ pass[e].todo = <<>> => pass[e].priced = 0
  /\ evidence \in [Id -> [armed : Prices \cup {0}, confirmed : Prices \cup {0}]]
  /\ alone \in BOOLEAN

(* A confirmation is never the first thing seen of a row: whatever evaluations
   overlap, a confirmed row was armed by a price in some zone before, and it
   has a zone (evaluate_watches moves a row one state at a time). *)
ConfirmedWasArmed ==
  \A w \in DOMAIN rows :
    /\ rows[w].state = "CONFIRMED" => evidence[w].armed # 0 /\ evidence[w].confirmed # 0
    /\ rows[w].state \in {"ARMED", "CONFIRMED"} => rows[w].zone # NoZone
    /\ evidence[w].confirmed # 0 => evidence[w].armed # 0

(* The zone a caller supplied is the zone the row is judged by for ever, and a
   provisional one is replaced by nothing but another provisional one, which
   only an evaluation that loaded the row before its band was stored can do. *)
ZoneKept ==
  [][\A w \in DOMAIN rows :
      rows'[w].zone # rows[w].zone =>
        \E e \in Evaluator :
          /\ pass[e].priced # 0
          /\ Head(pass[e].todo).id = w
          /\ Head(pass[e].todo).row.zone = NoZone
          /\ Inside(rows'[w].zone, pass[e].priced)]_vars

(* What the row says is what was seen: it was armed at a price inside the zone
   stored with it and confirmed at one outside, as long as evaluations do not
   overlap (evaluate_watches). *)
ReactionEvidence ==
  alone => \A w \in DOMAIN rows :
    LET seen == evidence[w]
    IN  /\ rows[w].state = "ARMED" => Inside(rows[w].zone, seen.armed)
        /\ rows[w].state = "CONFIRMED" =>
             /\ Inside(rows[w].zone, seen.armed)
             /\ ~Inside(rows[w].zone, seen.confirmed)

Rank(state) ==
  CASE state = "WATCHING" -> 0 [] state = "ARMED" -> 1 [] OTHER -> 2

MovesForward ==
  \A w \in DOMAIN rows :
    rows'[w].state # rows[w].state =>
      Rank(rows'[w].state) > Rank(rows[w].state) \/ rows'[w].state = "CANCELLED"

(* A watch only moves forward, and a cancelled one stays cancelled, as long as no
   evaluation overlaps another one or a cancellation (evaluate_watches,
   cancel_watch). *)
ForwardAlone == [][alone' => MovesForward]_vars

(* The state invariant: every variable has its type, every row an evaluation
   holds was active when it was loaded, and nothing is confirmed without having
   been armed (create, cancel and evaluate together). *)
WatchInv == TypeOK /\ ConfirmedWasArmed

-----------------------------------------------------------------------------
(* A docstring the evaluation does not keep, with more active watches than its   *)
(* page holds: the run that checks it finds a violation.                     *)

(* The fairness of the claim, which nothing in the code provides: somebody never
   stops asking for evaluations, and each goes on.  A watch that is left out even so
   is left out by the evaluations themselves. *)
FairSpec == Spec /\ \A e \in Evaluator : WF_vars(Evaluate(e))

InPlay(w) ==
  /\ w \in DOMAIN rows
  /\ rows[w].state = "WATCHING"
  /\ LET p == price[rows[w].symbol] IN p # 0 /\ Inside(ZoneAt(rows[w].zone, p), p)

(* core/desk/watch.py:57, "Advance every active watch against the LATEST stored
   quote": no watch stays WATCHING for ever while its symbol trades inside its zone
   (evaluate_watches). *)
EveryActiveWatchAdvances == \A w \in Id : []<>~InPlay(w)
=============================================================================
