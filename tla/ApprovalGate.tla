---------------------------- MODULE ApprovalGate ----------------------------
(***************************************************************************)
(* What the trade flow promises, whatever the interleaving of its requests *)
(* (SECURITY.md, "IDEA -> CIO -> RISK -> EXECUTION PREVIEW -> HUMAN        *)
(* APPROVAL -> BROKER GATEWAY"): an order exists only for an idea that the *)
(* risk engine approved, and enters the ledger once, when it is confirmed. *)
(***************************************************************************)
CONSTANTS
  Idea,    \* ideas the risk engine may approve
  Order,   \* orders that may be issued
  NoIdea   \* not an idea: backs an order that was not issued

VARIABLES
  approved,   \* ideas the risk engine has approved at least once
  stage,      \* how far each order has come
  backing,    \* the idea each order was issued for
  ledger      \* orders that opened a position

gateVars == <<approved, stage, backing, ledger>>

GateInit ==
  /\ approved = {}
  /\ stage = [o \in Order |-> "none"]
  /\ backing = [o \in Order |-> NoIdea]
  /\ ledger = {}

Approve(i) ==
  /\ approved' = approved \cup {i}
  /\ UNCHANGED <<stage, backing, ledger>>

Issue(o, i) ==
  /\ stage[o] = "none"
  /\ i \in approved
  /\ stage' = [stage EXCEPT ![o] = "ticket"]
  /\ backing' = [backing EXCEPT ![o] = i]
  /\ UNCHANGED <<approved, ledger>>

(* A human confirms the order, which trades now... *)
Execute(o) ==
  /\ stage[o] = "ticket"
  /\ stage' = [stage EXCEPT ![o] = "executed"]
  /\ o \notin ledger
  /\ ledger' = ledger \cup {o}
  /\ UNCHANGED <<approved, backing>>

(* ... or is left working at the venue. *)
Submit(o) ==
  /\ stage[o] = "ticket"
  /\ stage' = [stage EXCEPT ![o] = "working"]
  /\ UNCHANGED <<approved, backing, ledger>>

GateNext ==
  \/ \E i \in Idea : Approve(i)
  \/ \E o \in Order, i \in Idea : Issue(o, i)
  \/ \E o \in Order : Execute(o) \/ Submit(o)

GateSpec == GateInit /\ [][GateNext]_gateVars
=============================================================================
