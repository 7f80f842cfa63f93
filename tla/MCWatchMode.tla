----------------------------- MODULE MCWatchMode -----------------------------
(* Instances of WatchMode for TLC. *)
EXTENDS WatchMode, TLC

CONSTANTS e1, e2

(* 4 per mille of 1000 and of 1100 is 4: the provisional bands are 996..1004
   and 1096..1104, and the supplied zone is entered from both. *)
SuppliedOrNot == {[lo |-> 1000, hi |-> 1050], NoZone}

Symmetry == Permutations({e1, e2})
=============================================================================
