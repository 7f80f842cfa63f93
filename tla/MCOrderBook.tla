---------------------------- MODULE MCOrderBook ----------------------------
(* An instance of OrderBook for TLC: messages of up to two levels, on one side
   or on both. *)
EXTENDS OrderBook

Row == [price : Prices, size : Sizes]
Sorted(n) == {side \in SeqOf(Row, n) : Parsed(side)}
UpToTwoLevels == {m \in Sorted(2) \X Sorted(2) : Len(m[1]) + Len(m[2]) <= 2}
OneToken == {UNKNOWN}
=============================================================================
