------------------------------ MODULE MCJournal ------------------------------
(* Instances of Journal for TLC. *)
EXTENDS Journal

(* A quiet candle at 100, one that runs up and one that falls; the runs are far
   enough to reach a target of 3 mean ranges once quiet candles dilute them, and a
   wide one that reaches target and stop alike and closes where it began. *)
Candle(low, close, high) == [low |-> low, close |-> close, high |-> high]
AllBars ==
  {Candle(99, 100, 101), Candle(100, 112, 112), Candle(88, 88, 100), Candle(100, 100, 100),
   Candle(94, 100, 107)}
=============================================================================
