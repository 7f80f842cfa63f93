------------------------------ MODULE EventBus ------------------------------
(***************************************************************************)
(* The in-process event bus (core/events/bus.py) and the dashboards that   *)
(* follow it over a websocket (ws_events in apps/api/main.py).             *)
(*                                                                         *)
(* Each process has a bus of its own: get_event_bus returns a module       *)
(* global.  publish and a whole _dispatch run without suspending, since    *)
(* the only subscriber is ws_events' forward, which puts the event in an   *)
(* unbounded queue: each is one step of its loop.  Sending to a dashboard  *)
(* suspends.                                                               *)
(***************************************************************************)
EXTENDS Integers, Sequences, SequencesExt

CONSTANTS
  Process,      \* processes with a bus
  Api,          \* the one that serves the dashboards
  Client,       \* dashboards
  RingMax,      \* 1000: the events `published` may hold
  RingCut,      \* 500: how many of the oldest are dropped beyond that
  MaxEvents,    \* bound on the events published
  MaxRestarts   \* bound on the restarts of the API

ASSUME BusAssumption ==
  /\ Api \in Process
  /\ RingMax \in Nat /\ RingCut \in 1..RingMax
  /\ MaxEvents \in Nat /\ MaxRestarts \in Nat

VARIABLES
  queue,       \* events each bus has not dispatched
  published,   \* the ring of recent events of each bus
  subscribed,  \* dashboards whose forward the API's bus holds
  socket,      \* what each dashboard's connection has come to
  inbox,       \* the queue of each websocket handler
  received,    \* what each dashboard got
  restarts,
  nextEvent,   \* history: events are numbered as they are published
  history,     \* history: all the events of each bus since it started
  dispatched,  \* history: those that were dispatched
  joined       \* history: how many were when a dashboard subscribed

vars == <<queue, published, subscribed, socket, inbox, received, restarts,
          nextEvent, history, dispatched, joined>>

Event == 1..MaxEvents

(* "gone" is a dashboard that left without the handler having noticed. *)
Socket == {"new", "open", "gone", "closed"}

Init ==
  /\ queue = [p \in Process |-> <<>>]
  /\ published = [p \in Process |-> <<>>]
  /\ subscribed = {}
  /\ socket = [c \in Client |-> "new"]
  /\ inbox = [c \in Client |-> <<>>]
  /\ received = [c \in Client |-> <<>>]
  /\ restarts = 0
  /\ nextEvent = 1
  /\ history = [p \in Process |-> <<>>]
  /\ dispatched = [p \in Process |-> <<>>]
  /\ joined = [c \in Client |-> 0]

-----------------------------------------------------------------------------
(* Slip: the newest events are dropped instead of the oldest. *)
SlipTrimmed(ring) ==
  IF Len(ring) > RingMax THEN SubSeq(ring, 1, RingCut) ELSE ring

Trimmed(ring) ==
  IF Len(ring) > RingMax THEN SubSeq(ring, RingCut + 1, Len(ring)) ELSE ring

(* publish *)
Publish(p) ==
  /\ nextEvent <= MaxEvents
  /\ nextEvent' = nextEvent + 1
  /\ published' = [published EXCEPT ![p] = Trimmed(Append(@, nextEvent))]
  /\ queue' = [queue EXCEPT ![p] = Append(@, nextEvent)]
  /\ history' = [history EXCEPT ![p] = Append(@, nextEvent)]
  /\ UNCHANGED <<subscribed, socket, inbox, received, restarts, dispatched, joined>>

(* Slip: a dashboard that joins while events are waiting replaces the others. *)
SlipListeners(p) ==
  IF p = Api
  THEN {c \in subscribed : \A d \in subscribed : joined[c] >= joined[d]} ELSE {}

(* Slip: every dashboard is served, subscribed or not. *)
SlipAudience(p) == IF p = Api THEN Client ELSE {}

Listeners(p) == IF p = Api THEN subscribed ELSE {}

(* run: the next event is dispatched to every subscriber, the handlers of
   dashboards that have left included. *)
Dispatch(p) ==
  /\ queue[p] # <<>>
  /\ LET e == Head(queue[p])
     IN  /\ queue' = [queue EXCEPT ![p] = Tail(@)]
         /\ inbox' = [c \in Client |->
              IF c \in Listeners(p) THEN Append(inbox[c], e) ELSE inbox[c]]
         /\ dispatched' = [dispatched EXCEPT ![p] = Append(@, e)]
  /\ UNCHANGED <<published, subscribed, socket, received, restarts, nextEvent, history,
                 joined>>

-----------------------------------------------------------------------------
(* ws_events: accept, and subscribe forward to every topic. *)
Connect(c) ==
  /\ socket[c] = "new"
  /\ socket' = [socket EXCEPT ![c] = "open"]
  /\ subscribed' = subscribed \cup {c}
  /\ joined' = [joined EXCEPT ![c] = Len(dispatched[Api])]
  /\ UNCHANGED <<queue, published, inbox, received, restarts, nextEvent, history, dispatched>>

(* The dashboard goes away.  The handler waits on its queue, not on the socket. *)
Leave(c) ==
  /\ socket[c] = "open"
  /\ socket' = [socket EXCEPT ![c] = "gone"]
  /\ UNCHANGED <<queue, published, subscribed, inbox, received, restarts, nextEvent,
                 history, dispatched, joined>>

(* ws_events sends the next event of its queue. *)
Send(c) ==
  /\ socket[c] = "open"
  /\ inbox[c] # <<>>
  /\ inbox' = [inbox EXCEPT ![c] = Tail(@)]
  /\ received' = [received EXCEPT ![c] = Append(@, Head(inbox[c]))]
  /\ UNCHANGED <<queue, published, subscribed, socket, restarts, nextEvent, history,
                 dispatched, joined>>

(* ws_events finds the dashboard gone when it next sends, and returns; its
   forward stays subscribed and goes on filling a queue nobody reads. *)
SendFails(c) ==
  /\ socket[c] = "gone"
  /\ inbox[c] # <<>>
  /\ inbox' = [inbox EXCEPT ![c] = Tail(@)]
  /\ socket' = [socket EXCEPT ![c] = "closed"]
  /\ UNCHANGED <<queue, published, subscribed, received, restarts, nextEvent, history,
                 dispatched, joined>>

(* The API stops and starts: bus.stop cancels the dispatch task, and the bus, its
   queue and the connections are lost with the process.  A dashboard that
   reconnects is a new client. *)
Restart ==
  /\ restarts < MaxRestarts
  /\ restarts' = restarts + 1
  /\ queue' = [queue EXCEPT ![Api] = <<>>]
  /\ published' = [published EXCEPT ![Api] = <<>>]
  /\ history' = [history EXCEPT ![Api] = <<>>]
  /\ dispatched' = [dispatched EXCEPT ![Api] = <<>>]
  /\ subscribed' = {}
  /\ socket' = [c \in Client |-> IF socket[c] = "new" THEN "new" ELSE "closed"]
  /\ inbox' = [c \in Client |-> <<>>]
  /\ UNCHANGED <<received, nextEvent, joined>>

Next ==
  \/ \E p \in Process : Publish(p) \/ Dispatch(p)
  \/ \E c \in Client : Connect(c) \/ Leave(c) \/ Send(c) \/ SendFails(c)
  \/ Restart

Spec == Init /\ [][Next]_vars

(* Each bus task and each websocket handler keeps running. *)
FairSpec ==
  /\ Spec
  /\ \A p \in Process : WF_vars(Dispatch(p))
  /\ \A c \in Client : WF_vars(Send(c)) /\ WF_vars(SendFails(c))

-----------------------------------------------------------------------------
(* Type invariant; a dashboard that has not connected has nothing queued. *)
TypeOK ==
  /\ \A p \in Process :
       {queue[p], published[p], history[p], dispatched[p]} \subseteq Seq(Event)
  /\ subscribed \subseteq Client
  /\ socket \in [Client -> Socket]
  /\ \A c \in Client : socket[c] = "new" => c \notin subscribed /\ inbox[c] = <<>>
  /\ \A c \in Client : inbox[c] \in Seq(Event) /\ received[c] \in Seq(Event)
  /\ restarts \in 0..MaxRestarts
  /\ nextEvent \in 1..(MaxEvents + 1)
  /\ joined \in [Client -> Nat]

(* No event is lost, repeated or overtaken between publish and dispatch, and the
   ring `published` never outgrows its bound and always ends with the latest
   events, RingMax - RingCut + 1 of them at least (publish, run). *)
BusKeepsOrder ==
  \A p \in Process :
    /\ dispatched[p] \o queue[p] = history[p]
    /\ Len(published[p]) <= RingMax
    /\ IsSuffix(published[p], history[p])
    /\ Len(history[p]) > RingMax - RingCut => Len(published[p]) > RingMax - RingCut

(* What a dashboard got, with what its handler still holds, is exactly what the
   bus dispatched since it subscribed, in that order; a handler that finds its
   dashboard gone loses nothing before that (ws_events). *)
DashboardInOrder ==
  \A c \in subscribed :
    LET since == SubSeq(dispatched[Api], joined[c] + 1, Len(dispatched[Api]))
    IN  IF socket[c] \in {"open", "gone"}
        THEN received[c] \o inbox[c] = since
        ELSE /\ IsPrefix(received[c], since)
             /\ IsSuffix(inbox[c], since)
             /\ Len(received[c]) + 1 + Len(inbox[c]) = Len(since)

Got(c, e) == \E k \in DOMAIN received[c] : received[c][k] = e

Waits(p, e) == \E k \in DOMAIN queue[p] : queue[p][k] = e

(* An event that was waiting in the API's bus while a dashboard was subscribed
   reaches it, unless the dashboard leaves or the API stops (run, ws_events). *)
EventReachesDashboard ==
  \A c \in Client, e \in Event :
    (socket[c] = "open" /\ Waits(Api, e)) ~> (Got(c, e) \/ socket[c] # "open")

(* The state invariant of the buses: types, a client that never connected hears
   nothing, and each bus keeps its order and the end of its history (publish,
   _dispatch). *)
BusInv == TypeOK /\ BusKeepsOrder
=============================================================================
