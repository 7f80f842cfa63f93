------------------------------ MODULE TradeDesk ------------------------------
(***************************************************************************)
(* The trade flow of the API: an idea is proposed, the risk engine reviews *)
(* it, an approved idea gets an order ticket, a human confirms the ticket  *)
(* and the paper engine fills it (apps/api/routers/ideas.py and orders.py).*)
(*                                                                         *)
(* The `def` routes run in the server's thread pool, so a request for a    *)
(* review or a ticket is a worker whose database reads and whose commit    *)
(* are separate steps.  confirm_order is an `async def` without an await:  *)
(* it runs on the event loop in one piece and is one step here.  Rows a    *)
(* handler commits together change together; a restart of the process      *)
(* loses the requests in flight and nothing that was committed.            *)
(***************************************************************************)
EXTENDS RiskEngine, Sequences, FiniteSetsExt

CONSTANTS
  Idea,            \* ideas that can be posted
  NoIdea,          \* backs an order that was not issued
  Terms,           \* the proposal each idea makes: fixed when it is posted
  Order,           \* order tickets that can be issued
  Worker,          \* threads of the pool serving reviews and tickets
  StartingEquity,  \* settings.orion_starting_equity
  Prices,          \* prices a quote can carry
  QuoteStatus,     \* statuses a quote row can be stored with
  OrderTypes,      \* "LIMIT", and any other type (all fill like a market order)
  TypedQty,        \* sizes an operator may type into a ticket; 0: none typed
  Slip,            \* half spread and slippage of a paper fill
  FillShare,       \* shares of an order a fill may cover, in percent
  FaroOutcome,     \* what maybe_send_faro_signal may come back with
  MaxReviews       \* bound: risk reviews started

Asset == {Terms[i].asset : i \in Idea}

Proposal ==
  [asset : STRING, direction : {"LONG", "SHORT", "FLAT"}, entry : Int,
   stop : Int, target : Int, group : {NoGroup}]

ASSUME DeskAssumption ==
  /\ NoIdea \notin Idea
  /\ Terms \in [Idea -> Proposal]
  /\ StartingEquity \in Nat \ {0}
  /\ Prices \subseteq Nat \ {0}
  /\ QuoteStatus \subseteq DataStatus
  /\ OrderTypes \subseteq {"LIMIT", "MARKET"}
  /\ TypedQty \subseteq Nat
  /\ Slip \in Nat
  /\ FillShare \subseteq 1..100
  /\ FaroOutcome \subseteq {"OFF", "SKIPPED", "DEMO_LOGGED", "SENT", "FAILED"}
  /\ MaxReviews \in Nat

VARIABLES
  ideaState,   \* trade_ideas.state, "NONE" before the row exists
  decisions,   \* rows of risk_decisions
  orders,      \* rows of orders, state "NONE" before the row exists
  fills,       \* each fill's rows of executions and positions, in commit order
  audit,       \* rows of audit_log
  quote,       \* the latest quote row of each asset
  outbox,      \* lines of faro_outbox.jsonl
  delivered,   \* reviews whose signal reached Faro
  nextTs,      \* clock: the timestamp the next decision row takes
  job,         \* what each worker is doing
  overlaps     \* history: pairs of reviews of one idea, by their timestamps,
               \* that were under way at the same time

vars == <<ideaState, decisions, orders, fills, audit, quote, outbox, delivered,
          nextTs, job, overlaps>>

-----------------------------------------------------------------------------
(* OrderState, and its allowed transitions.                                *)
OrderState ==
  {"PROPOSED", "RISK_REVIEW", "APPROVED", "AWAITING_HUMAN_CONFIRMATION",
   "SUBMITTED", "PARTIAL_FILL", "FILLED", "STOPPED", "CLOSED", "CANCELLED",
   "REJECTED"}

Awaiting == "AWAITING_HUMAN_CONFIRMATION"

Transitions ==
  [s \in OrderState |->
    CASE s = "PROPOSED"     -> {"RISK_REVIEW", "CANCELLED", "REJECTED"}
      [] s = "RISK_REVIEW"  -> {"APPROVED", "REJECTED"}
      [] s = "APPROVED"     -> {Awaiting, "REJECTED"}
      [] s = Awaiting       -> {"SUBMITTED", "CANCELLED"}
      [] s = "SUBMITTED"    -> {"PARTIAL_FILL", "FILLED", "REJECTED", "CANCELLED"}
      [] s = "PARTIAL_FILL" -> {"PARTIAL_FILL", "FILLED", "STOPPED", "CANCELLED"}
      [] s = "FILLED"       -> {"STOPPED", "CLOSED"}
      [] s = "STOPPED"      -> {"CLOSED"}
      [] OTHER              -> {}]

(* Slip: any state but a final one may be submitted. *)
SlipCanTransition(current, target) == current \notin {"CLOSED", "CANCELLED", "REJECTED"}

CanTransition(current, target) == target \in Transitions[current]

-----------------------------------------------------------------------------
(* Rows and requests in flight.                                            *)
IdeaState == {"PROPOSED", "APPROVED", "APPROVED_REDUCED", "WAIT", "REJECTED"}

DecisionRow == [idea : Idea, decision : Decision, qty : Nat, ts : Nat]

NoTicket == [state |-> "NONE"]

Ticket ==
  [state : OrderState, idea : Idea, side : {"BUY", "SELL"}, type : OrderTypes,
   qty : Nat \ {0}, confirmed : BOOLEAN]

(* A fill writes an execution row, which names its order, and a position row,
   which does not; asset and side are those of the position. *)
Fill == [order : Order, asset : Asset, side : {"BUY", "SELL"}, qty : Nat, price : Int]

QuoteRow == [status : QuoteStatus, price : Prices, expired : BOOLEAN]
NoQuoteRow == [status |-> NoQuote]

Idle == [at |-> "idle"]

Job ==
  {Idle}
  \cup [at : {"review"}, idea : Idea, seen : IdeaState, decision : Decision,
        qty : Nat, ts : Nat]
  \cup [at : {"publish"}, idea : Idea, ts : Nat]
  \cup [at : {"log", "audit"}, idea : Idea, ts : Nat, status : FaroOutcome]
  \cup [at : {"ticket"}, idea : Idea, type : OrderTypes, qty : TypedQty]

Entry(action, entity, n) == [action |-> action, entity |-> entity, n |-> n]

-----------------------------------------------------------------------------
Init ==
  /\ ideaState = [i \in Idea |-> "NONE"]
  /\ decisions = {}
  /\ orders = [o \in Order |-> NoTicket]
  /\ fills = <<>>
  /\ audit = {}
  /\ quote = [a \in Asset |-> NoQuoteRow]
  /\ outbox = {}
  /\ delivered = {}
  /\ nextTs = 1
  /\ job = [w \in Worker |-> Idle]
  /\ overlaps = {}

Starts(w, j) == job[w] = Idle /\ job' = [job EXCEPT ![w] = j]
At(w, step)  == job[w].at = step
Becomes(w, j) == job' = [job EXCEPT ![w] = j]

(* create_idea *)
CreateIdea(i) ==
  /\ ideaState[i] = "NONE"
  /\ ideaState' = [ideaState EXCEPT ![i] = "PROPOSED"]
  /\ audit' = audit \cup {Entry("trade_idea_created", i, 0)}
  /\ UNCHANGED <<decisions, orders, fills, quote, outbox, delivered, nextTs, job, overlaps>>

(* portfolio_state: equity is the starting equity whatever was lost since,
   and no drawdown or risk used is ever reported. *)
OpenNotional(rows) ==
  MapThenSumSet(LAMBDA k : fills[k].qty * fills[k].price, rows)

Portfolio ==
  [equity |-> StartingEquity, drawdown |-> 0, daily |-> 0, weekly |-> 0,
   total |-> OpenNotional(DOMAIN fills),
   byAsset |-> [a \in Asset |->
                 OpenNotional({k \in DOMAIN fills : fills[k].asset = a})]]

Reviewing(i) == {w \in Worker : At(w, "review") /\ job[w].idea = i}

(* risk_review up to the evaluation: the idea, the latest quote row and the
   open positions are read, the verdict is reached and its row stamped. *)
ReviewRead(w, i) ==
  LET v == Evaluate(Terms[i], Portfolio, quote[Terms[i].asset].status, FALSE, 0)
  IN  /\ ideaState[i] # "NONE"
      /\ nextTs <= MaxReviews
      /\ Starts(w, [at |-> "review", idea |-> i, seen |-> ideaState[i],
                    decision |-> v.decision, qty |-> v.qty, ts |-> nextTs])
      /\ nextTs' = nextTs + 1
      /\ overlaps' = overlaps \cup {{job[u].ts, nextTs} : u \in Reviewing(i)}
      /\ UNCHANGED <<ideaState, decisions, orders, fills, audit, quote, outbox, delivered>>

StateOf(decision) == IF decision = "REDUCE_SIZE" THEN "APPROVED_REDUCED" ELSE decision

(* Slip: only the first verdict on an idea is written to it. *)
SlipChangesState(j) == j.seen = "PROPOSED"

ChangesState(j) == StateOf(j.decision) # j.seen

(* Slip: anything but a refusal is published. *)
SlipPublished(decision) == decision # "REJECTED"

Published(decision) == decision = "APPROVED"

(* The commit of risk_review.  The ORM writes the idea's state only when it
   differs from the state the request loaded. *)
ReviewCommit(w) ==
  LET j == job[w]
  IN  /\ At(w, "review")
      /\ decisions' = decisions \cup
           {[idea |-> j.idea, decision |-> j.decision, qty |-> j.qty, ts |-> j.ts]}
      /\ ideaState' = IF ChangesState(j)
                      THEN [ideaState EXCEPT ![j.idea] = StateOf(j.decision)]
                      ELSE ideaState
      /\ audit' = audit \cup {Entry("risk_decision", j.idea, j.ts)}
      /\ Becomes(w, IF Published(j.decision)
                    THEN [at |-> "publish", idea |-> j.idea, ts |-> j.ts] ELSE Idle)
      /\ UNCHANGED <<orders, fills, quote, outbox, delivered, nextTs, overlaps>>

(* maybe_send_faro_signal, up to the answer of the HTTP call.  "OFF" stands
   for auto_send being off and for an exception before the outbox is reached;
   a FAILED call may have been delivered all the same. *)
FaroSend(w) ==
  LET j == job[w]
  IN  /\ At(w, "publish")
      /\ \E status \in FaroOutcome :
           /\ Becomes(w, IF status = "OFF" THEN Idle
                         ELSE [at |-> "log", idea |-> j.idea, ts |-> j.ts, status |-> status])
           /\ delivered' \in IF status = "SENT" THEN {delivered \cup {j.ts}}
                             ELSE IF status = "FAILED" THEN {delivered, delivered \cup {j.ts}}
                             ELSE {delivered}
      /\ UNCHANGED <<ideaState, decisions, orders, fills, audit, quote, outbox, nextTs, overlaps>>

(* _append_outbox, which swallows a failure to write. *)
FaroLog(w) ==
  LET j == job[w]
  IN  /\ At(w, "log")
      /\ Becomes(w, [j EXCEPT !.at = "audit"])
      /\ outbox' \in {outbox, outbox \cup {[idea |-> j.idea, ts |-> j.ts, status |-> j.status]}}
      /\ UNCHANGED <<ideaState, decisions, orders, fills, audit, quote, delivered, nextTs, overlaps>>

(* The second commit of risk_review: the audit row of the signal. *)
FaroAudit(w) ==
  LET j == job[w]
  IN  /\ At(w, "audit")
      /\ Becomes(w, Idle)
      /\ audit' = audit \cup {Entry("faro_signal", j.idea, j.ts)}
      /\ UNCHANGED <<ideaState, decisions, orders, fills, quote, outbox, delivered, nextTs, overlaps>>

-----------------------------------------------------------------------------
(* Slip: only a rejected idea is stopped. *)
SlipApproving == IdeaState \ {"REJECTED"}

Approving == {"APPROVED", "APPROVED_REDUCED"}

(* create_order up to the state gate: nothing but an approved idea passes. *)
TicketCheck(w, i, type, qty) ==
  /\ ideaState[i] \in Approving
  /\ Starts(w, [at |-> "ticket", idea |-> i, type |-> type, qty |-> qty])
  /\ UNCHANGED <<ideaState, decisions, orders, fills, audit, quote, outbox, delivered, nextTs, overlaps>>

DecisionsOn(i) == {d \in decisions : d.idea = i}

LatestDecision(i) ==
  CHOOSE d \in DecisionsOn(i) : \A e \in DecisionsOn(i) : e.ts <= d.ts

(* body.qty or decision.suggested_size; 0 when there is no size at all. *)
TicketSize(i, typed) ==
  IF typed # 0 THEN typed
  ELSE IF DecisionsOn(i) = {} THEN 0 ELSE LatestDecision(i).qty

(* Slip: the size is not looked at. *)
SlipHasSize(size) == TRUE

HasSize(size) == size > 0

(* The rest of create_order: it reads the latest decision, and either finds no
   size and gives up, or inserts the ticket. *)
CreateOrder(w, o) ==
  LET j    == job[w]
      size == TicketSize(j.idea, j.qty)
      side == IF Terms[j.idea].direction = "LONG" THEN "BUY" ELSE "SELL"
  IN  /\ At(w, "ticket")
      /\ orders[o] = NoTicket
      /\ HasSize(size)
      /\ orders' = [orders EXCEPT ![o] =
           [state |-> Awaiting, idea |-> j.idea, side |-> side, type |-> j.type,
            qty |-> size, confirmed |-> FALSE]]
      /\ audit' = audit \cup {Entry("order_created", o, 0)}
      /\ Becomes(w, Idle)
      /\ UNCHANGED <<ideaState, decisions, fills, quote, outbox, delivered, nextTs, overlaps>>

CreateOrderWithoutSize(w) ==
  /\ At(w, "ticket")
  /\ ~HasSize(TicketSize(job[w].idea, job[w].qty))
  /\ Becomes(w, Idle)
  /\ UNCHANGED <<ideaState, decisions, orders, fills, audit, quote, outbox, delivered, nextTs, overlaps>>

-----------------------------------------------------------------------------
(* simulate_fill.  A limit order trades at its limit or better, and its limit
   is the entry of the idea; every other type trades at the market. *)
Limit(t) == Terms[t.idea].entry

Touchable(t, q) ==
  \/ t.type # "LIMIT"
  \/ t.side = "BUY"  /\ q.price <= Limit(t)
  \/ t.side = "SELL" /\ q.price >= Limit(t)

Fillable(t, q) == q.status # "STALE" /\ Touchable(t, q)

FillPrice(t, q) ==
  LET raw == IF t.side = "BUY" THEN q.price + Slip ELSE q.price - Slip
      worseThanLimit == IF t.side = "BUY" THEN raw > Limit(t) ELSE raw < Limit(t)
  IN  IF t.type = "LIMIT" /\ worseThanLimit THEN Limit(t) ELSE raw

(* The whole order, or a share of it; a share of a small order may round to
   nothing. *)
FillSize(qty, share) == IF share = 100 THEN qty ELSE Rounded(qty * share, 100)

(* Slip: the ticket may be confirmed from any state it is in. *)
SlipConfirmable(o) == orders[o] # NoTicket /\ quote[Terms[orders[o].idea].asset] # NoQuoteRow

(* The guards of confirm_order: the ticket exists and may be submitted, and
   there is a quote row to price it with.  mode is always PAPER. *)
Confirmable(o) ==
  /\ orders[o] # NoTicket
  /\ CanTransition(orders[o].state, "SUBMITTED")
  /\ quote[Terms[orders[o].idea].asset] # NoQuoteRow

(* confirm_order when the paper engine refuses to fill: the order is left
   working, and neither the human nor an audit row is recorded. *)
ConfirmWorking(o) ==
  LET t == orders[o]
  IN  /\ Confirmable(o)
      /\ ~Fillable(t, quote[Terms[t.idea].asset])
      /\ orders' = [orders EXCEPT ![o].state = "SUBMITTED"]
      /\ UNCHANGED <<ideaState, decisions, fills, audit, quote, outbox, delivered, nextTs, job, overlaps>>

(* confirm_order when the paper engine fills. *)
ConfirmFill(o) ==
  LET t == orders[o]
      q == quote[Terms[t.idea].asset]
  IN  /\ Confirmable(o)
      /\ Fillable(t, q)
      /\ \E share \in FillShare :
           LET qty == FillSize(t.qty, share)
           IN  /\ orders' = [orders EXCEPT
                    ![o].state = IF qty >= t.qty THEN "FILLED" ELSE "PARTIAL_FILL",
                    ![o].confirmed = TRUE]
               /\ fills' = Append(fills,
                    [order |-> o, asset |-> Terms[t.idea].asset, side |-> t.side,
                     qty |-> qty, price |-> FillPrice(t, q)])
      /\ audit' = audit \cup {Entry("order_confirmed_and_filled", o, 0)}
      /\ UNCHANGED <<ideaState, decisions, quote, outbox, delivered, nextTs, job, overlaps>>

-----------------------------------------------------------------------------
(* A new latest quote row: stored by the feeds, or posted with any status. *)
PushQuote(a, status, price) ==
  /\ quote' = [quote EXCEPT ![a] = [status |-> status, price |-> price, expired |-> FALSE]]
  /\ UNCHANGED <<ideaState, decisions, orders, fills, audit, outbox, delivered, nextTs, job, overlaps>>

(* Time passes without a new row: the row outlives the feed's staleness limit
   but keeps the status it was stored with. *)
QuoteExpires(a) ==
  /\ quote[a] # NoQuoteRow
  /\ quote' = [quote EXCEPT ![a].expired = TRUE]
  /\ UNCHANGED <<ideaState, decisions, orders, fills, audit, outbox, delivered, nextTs, job, overlaps>>

(* The server restarts: requests in flight are lost. *)
Restart ==
  /\ job' = [w \in Worker |-> Idle]
  /\ UNCHANGED <<ideaState, decisions, orders, fills, audit, quote, outbox, delivered, nextTs, overlaps>>

WorkerStep(w) ==
  \/ \E i \in Idea : ReviewRead(w, i)
  \/ ReviewCommit(w)
  \/ FaroSend(w)
  \/ FaroLog(w)
  \/ FaroAudit(w)
  \/ \E i \in Idea, type \in OrderTypes, qty \in TypedQty : TicketCheck(w, i, type, qty)
  \/ \E o \in Order : CreateOrder(w, o)
  \/ CreateOrderWithoutSize(w)

Next ==
  \/ \E i \in Idea : CreateIdea(i)
  \/ \E w \in Worker : WorkerStep(w)
  \/ \E o \in Order : ConfirmWorking(o) \/ ConfirmFill(o)
  \/ \E a \in Asset, s \in QuoteStatus, p \in Prices : PushQuote(a, s, p)
  \/ \E a \in Asset : QuoteExpires(a)
  \/ Restart

Spec == Init /\ [][Next]_vars

-----------------------------------------------------------------------------
(* Type invariant. *)
TypeOK ==
  /\ ideaState \in [Idea -> IdeaState \cup {"NONE"}]
  /\ decisions \subseteq DecisionRow
  /\ orders \in [Order -> Ticket \cup {NoTicket}]
  /\ fills \in Seq(Fill)
  /\ quote \in [Asset -> QuoteRow \cup {NoQuoteRow}]
  /\ outbox \subseteq [idea : Idea, ts : Nat, status : FaroOutcome]
  /\ delivered \subseteq Nat
  /\ nextTs \in Nat
  /\ job \in [Worker -> Job]
  /\ overlaps \subseteq SUBSET Nat

Issued(o) == orders[o] # NoTicket

Approvals(i) == {d \in DecisionsOn(i) : d.decision \in {"APPROVED", "REDUCE_SIZE"}}

(* Every ticket is backed by the risk engine: some committed decision on its
   idea approved it, and unless the operator typed the size, the size is the
   one an approving decision suggested.  create_order reads the state and the
   decision in two steps, and concurrent reviews can leave the two apart. *)
RiskGate ==
  \A o \in Order : Issued(o) =>
    /\ Approvals(orders[o].idea) # {}
    /\ \/ orders[o].qty \in TypedQty
       \/ \E d \in Approvals(orders[o].idea) : d.qty = orders[o].qty

FillsOf(o) == {k \in DOMAIN fills : fills[k].order = o}

(* The ledger agrees with the tickets: a ticket has a fill exactly when it is
   filled, wholly or in part, and then it has exactly one, of no more than its
   size, with the human who confirmed it and the audit row to show for it
   (confirm_order). *)
FilledOnceByHuman ==
  \A o \in Order :
    IF orders[o].state \in {"FILLED", "PARTIAL_FILL"}
    THEN /\ orders[o].confirmed
         /\ Entry("order_confirmed_and_filled", o, 0) \in audit
         /\ \E k \in FillsOf(o) :
              /\ FillsOf(o) = {k}
              /\ fills[k].qty <= orders[o].qty
              /\ (fills[k].qty = orders[o].qty) = (orders[o].state = "FILLED")
    ELSE FillsOf(o) = {}

(* Nothing leaves the desk that the risk engine did not approve in full: what
   was delivered to Faro, logged in its outbox or audited as sent belongs to a
   committed APPROVED decision, and one decision sends at most one signal
   (risk_review publishes after its commit, whatever crashes in between). *)
FaroOnlyApproved ==
  /\ \A ts \in delivered : \E d \in decisions : d.ts = ts /\ d.decision = "APPROVED"
  /\ \A line \in outbox :
       /\ \E d \in decisions :
            d.ts = line.ts /\ d.idea = line.idea /\ d.decision = "APPROVED"
       /\ line.status = "SENT" => line.ts \in delivered
       /\ \A other \in outbox : other.ts = line.ts => other = line

(* A ticket that was confirmed never changes again: a second confirmation is
   refused, and no other route touches an order (can_transition in
   confirm_order; TRANSITIONS offers SUBMITTED from no confirmed state). *)
ConfirmedOnce ==
  [][\A o \in Order :
      orders[o].state \notin {"NONE", Awaiting} => orders'[o] = orders[o]]_vars

(* The desk implements the approval gate: the mapping forgets decisions, sizes,
   quotes and requests in flight, and keeps which ideas were ever approved and
   what each ticket came to. *)
StageOf(state) ==
  CASE state = "NONE"   -> "none"
    [] state = Awaiting -> "ticket"
    [] state \in {"FILLED", "PARTIAL_FILL"} -> "executed"
    [] OTHER            -> "working"

Gate == INSTANCE ApprovalGate WITH
  approved <- {i \in Idea : Approvals(i) # {}},
  stage    <- [o \in Order |-> StageOf(orders[o].state)],
  backing  <- [o \in Order |-> IF Issued(o) THEN orders[o].idea ELSE NoIdea],
  ledger   <- {fills[k].order : k \in DOMAIN fills}

ImplementsGate == Gate!GateSpec

(* The reviews with these timestamps overlapped. *)
AtOnce(s, t) == {s, t} \in overlaps

(* The state of an idea is the latest verdict on it, or one whose review was under
   way at the same time as that of the latest: reviews that overlap can leave the
   older reading behind, but never one that was over before the latest began
   (risk_review writes the state only if it differs from what it loaded). *)
StateIsCurrentVerdict ==
  \A i \in Idea : DecisionsOn(i) # {} =>
    \E d \in DecisionsOn(i) :
      /\ ideaState[i] = StateOf(d.decision)
      /\ d = LatestDecision(i) \/ AtOnce(d.ts, LatestDecision(i).ts)

-----------------------------------------------------------------------------
(* A comment the routes do not keep: the run that checks it finds a          *)
(* violation.                                                              *)

(* core/execution/paper.py:37: the quote "must not be stale - caller checks". *)
NoFillOnExpiredQuote ==
  [][\A k \in (DOMAIN fills') \ (DOMAIN fills) : ~quote[fills'[k].asset].expired]_vars
=============================================================================
