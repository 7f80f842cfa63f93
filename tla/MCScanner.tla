------------------------------ MODULE MCScanner ------------------------------
(* Instances of Scanner for TLC. *)
EXTENDS Scanner

(* A sweep of the lows at level 10 that passes every gate, and what can be
   wrong with one. *)
Good ==
  [priced |-> TRUE, status |-> "LIVE", recent |-> TRUE, sweep |-> "LOW",
   level |-> 10, atr |-> TRUE, adx |-> TRUE, near |-> TRUE, reaction |-> TRUE,
   rr |-> 20, score |-> 90]
Elsewhere == [Good EXCEPT !.sweep = "HIGH", !.status = "DELAYED"]
Old       == [Good EXCEPT !.recent = FALSE]
Poor      == [Good EXCEPT !.rr = 19]
Unpriced  == [Good EXCEPT !.priced = FALSE, !.sweep = "NONE", !.reaction = FALSE, !.rr = 0]
NoSweep   == [Good EXCEPT !.sweep = "NONE", !.reaction = FALSE, !.rr = 0]

(* What moves a row between its states, and what makes a scan raise. *)
Moving == {Good, Elsewhere, Old, Poor, Unpriced, NoSweep}

OneSymbol == <<"XAU">>
=============================================================================
