---------------------------- MODULE MCTradeDesk ----------------------------
(* Instances of TradeDesk for TLC. *)
EXTENDS TradeDesk, TLC

CONSTANTS i1, i2, o1, w1, w2

(* Equity 100, one lot to the unit: each idea risks 1 on a stop 1 away, so one
   lot and a notional of 100% of the equity.  i1 buys and i2 sells; the second of
   them to be reviewed meets the cap of 150% on gold. *)
Gold(direction, stop, target) ==
  [asset |-> "XAU", direction |-> direction, entry |-> 100, stop |-> stop,
   target |-> target, group |-> NoGroup]

AllTerms == (i1 :> Gold("LONG", 99, 103)) @@ (i2 :> Gold("SHORT", 101, 97))

OneIdea == [i \in {i1} |-> AllTerms[i]]

Symmetry == Permutations({w1, w2})
=============================================================================
