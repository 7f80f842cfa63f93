--------------------------- MODULE OrderBookProofs ---------------------------
(***************************************************************************)
(* The order book, for any tokens, prices, sizes, messages and depth: a    *)
(* side is the best of what was told (BookInv), and a price walked from it *)
(* fills what it holds, whatever the order of its levels.  Messages and    *)
(* walks are folds over sequences of any length: each fold is turned into  *)
(* its partial results, one for each prefix, and the argument goes along   *)
(* the prefixes.                                                           *)
(***************************************************************************)
EXTENDS OrderBook, SequenceTheorems, FiniteSetTheorems, WellFoundedInduction, TLAPS

-----------------------------------------------------------------------------
(* Induction, for a set, and along the prefixes of a fold. *)

LEMMA Induct ==
  ASSUME NEW S, 0 \in S, \A n \in Nat : n \in S => n + 1 \in S
  PROVE  Nat \subseteq S
  <1> DEFINE T == Nat \ S
  <1>1. SUFFICES ASSUME T # {} PROVE FALSE
    OBVIOUS
  <1>2. PICK m \in T : \A k \in T : <<k, m>> \notin OpToRel(<, Nat)
    BY <1>1, NatLessThanWellFounded, WFMin, Zenon
  <1>3. \A k \in T : ~(k < m)
    BY <1>2 DEF OpToRel
  <1> QED
    BY <1>3

LEMMA InductUpto ==
  ASSUME NEW n \in Nat, NEW S, 0 \in S, \A k \in 0 .. n - 1 : k \in S => k + 1 \in S
  PROVE  0..n \subseteq S
  <1> DEFINE T == {k \in Nat : k <= n => k \in S}
  <1>1. 0 \in T
    OBVIOUS
  <1>2. ASSUME NEW k \in Nat, k \in T PROVE k + 1 \in T
    <2>1. k + 1 <= n => k \in 0 .. n - 1
      OBVIOUS
    <2> QED
      BY <1>2, <2>1
  <1>3. Nat \subseteq T
    <2> HIDE DEF T
    <2> QED
      BY <1>1, <1>2, Induct
  <1> QED
    BY <1>3

LEMMA Without ==
  ASSUME NEW S, IsFiniteSet(S), NEW x \in S
  PROVE  IsFiniteSet(S \ {x}) /\ Cardinality(S) \in Nat /\ Cardinality(S \ {x}) = Cardinality(S) - 1
  BY FS_RemoveElement, FS_CardinalityType

LEMMA PlacesFinite ==
  ASSUME NEW n \in Nat, NEW s \in SUBSET (1..n)
  PROVE  IsFiniteSet(s) /\ s \subseteq Int
  <1>1. IsFiniteSet(1..n)
    BY FS_Interval
  <1>2. IsFiniteSet(s)
    BY <1>1, FS_Subset
  <1>3. s \subseteq Int
    OBVIOUS
  <1> QED
    BY <1>2, <1>3

(* The largest of a set of integers that is finite because it has a bound. *)
LEMMA MaxIs ==
  ASSUME NEW S, IsFiniteSet(S), S # {}, S \subseteq Int
  PROVE  Max(S) \in S /\ \A y \in S : Max(S) >= y
  <1> DEFINE K == {n \in Nat : \A T \in SUBSET S :
                     Cardinality(T) = n /\ T # {} => \E x \in T : \A y \in T : x >= y}
  <1>1. \A T \in SUBSET S : IsFiniteSet(T) /\ Cardinality(T) \in Nat
    BY FS_Subset, FS_CardinalityType
  <1>2. 0 \in K
    <2>1. ASSUME NEW T \in SUBSET S, Cardinality(T) = 0 PROVE T = {}
      <3>1. IsFiniteSet(T)
        BY <1>1
      <3> QED
        BY <2>1, <3>1, FS_EmptySet
    <2> QED
      BY <2>1
  <1>3. ASSUME NEW n \in Nat, n \in K PROVE n + 1 \in K
    <2> SUFFICES ASSUME NEW T \in SUBSET S, Cardinality(T) = n + 1, T # {}
                 PROVE  \E x \in T : \A y \in T : x >= y
      OBVIOUS
    <2>1. PICK z : z \in T
      OBVIOUS
    <2> DEFINE R == T \ {z}
    <2>2. R \in SUBSET S /\ Cardinality(R) = n
      <3>1. IsFiniteSet(T)
        BY <1>1
      <3>2. Cardinality(R) = Cardinality(T) - 1
        BY <2>1, <3>1, Without
      <3>3. R \in SUBSET S
        OBVIOUS
      <3> HIDE DEF R
      <3> QED
        BY <3>2, <3>3
    <2>3. CASE R = {}
      <3>1. \A y \in T : y = z
        BY <2>3
      <3> QED
        BY <2>1, <3>1
    <2>4. CASE R # {}
      <3>1. PICK x \in R : \A y \in R : x >= y
        BY <1>3, <2>2, <2>4
      <3>2. x \in T /\ x \in Int /\ z \in Int
        BY <2>1
      <3>3. \A y \in T : (y = z \/ y \in R) /\ y \in Int
        OBVIOUS
      <3> HIDE DEF R
      <3>4. CASE x >= z
        BY <3>1, <3>2, <3>3, <3>4
      <3>5. CASE ~(x >= z)
        BY <2>1, <3>1, <3>2, <3>3, <3>5
      <3> QED
        BY <3>4, <3>5
    <2> QED
      BY <2>3, <2>4
  <1>4. Nat \subseteq K
    <2> HIDE DEF K
    <2> QED
      BY <1>2, <1>3, Induct
  <1>5. \E x \in S : \A y \in S : x >= y
    BY <1>1, <1>4
  <1> QED
    BY <1>5 DEF Max

LEMMA MaxUpto ==
  ASSUME NEW n \in Nat
  PROVE  /\ \A s \in SUBSET (1..n) : s # {} => Max(s) \in s /\ Max(s) \in 1..n
         /\ \A k \in 0 .. n - 1 : Max(1 .. k + 1) = k + 1 /\ (1 .. k + 1) \ {k + 1} = 1..k
  <1>1. ASSUME NEW s \in SUBSET (1..n), s # {} PROVE Max(s) \in s
    <2>1. IsFiniteSet(s) /\ s \subseteq Int
      BY PlacesFinite
    <2> QED
      BY <1>1, <2>1, MaxIs
  <1>2. ASSUME NEW k \in 0 .. n - 1 PROVE Max(1 .. k + 1) = k + 1
    <2>1. k + 1 \in Nat /\ k + 1 \in 1 .. k + 1 /\ 1 .. k + 1 # {}
      OBVIOUS
    <2>2. Max(1 .. k + 1) \in 1 .. k + 1 /\ \A y \in 1 .. k + 1 : Max(1 .. k + 1) >= y
      BY <2>1, MaxIs, PlacesFinite
    <2> QED
      BY <2>1, <2>2
  <1>3. \A k \in 0 .. n - 1 : (1 .. k + 1) \ {k + 1} = 1..k
    OBVIOUS
  <1>4. \A s \in SUBSET (1..n) : s # {} => Max(s) \in 1..n
    BY <1>1
  <1> QED
    BY <1>1, <1>2, <1>3, <1>4

(* A fold from the left takes the largest place last: g is one step of it, F its
   value on each set of places, and h on each prefix. *)
StepOf(g, n, S) == g \in [(1..n) \X S -> S]
FoldOf(F, n, S, base, g) ==
  /\ F \in [SUBSET (1..n) -> S]
  /\ F[{}] = base
  /\ \A s \in SUBSET (1..n) : s # {} => F[s] = g[<<Max(s), F[s \ {Max(s)}]>>]
Follows(iter, n, S, base, g) ==
  /\ iter[{}] = base
  /\ \A s \in SUBSET (1..n) : s # {} /\ iter[s \ {Max(s)}] \in S =>
       iter[s] = g[<<Max(s), iter[s \ {Max(s)}]>>]
HistoryOf(h, iter, n, S, base, g) ==
  /\ h \in [0..n -> S]
  /\ h[0] = base /\ h[n] = iter[1..n]
  /\ \A k \in 0 .. n - 1 : h[k + 1] = g[<<k + 1, h[k]>>]

LEMMA FoldExists ==
  ASSUME NEW S, NEW base \in S, NEW n \in Nat, NEW g, StepOf(g, n, S)
  PROVE  \E F : FoldOf(F, n, S, base, g)
  <1> DEFINE By(F, k) ==
               /\ F \in [SUBSET (1..k) -> S]
               /\ F = [s \in SUBSET (1..k) |->
                         IF s = {} THEN base ELSE g[<<Max(s), F[s \ {Max(s)}]>>]]
             K == {k \in Nat : \E F : By(F, k)}
  <1>1. 0 \in K
    <2> DEFINE F == [s \in SUBSET (1..0) |-> base]
    <2>1. SUBSET (1..0) = {{}}
      OBVIOUS
    <2>2. By(F, 0)
      BY <2>1
    <2> HIDE DEF By, F
    <2> QED
      BY <2>2
  <1>2. ASSUME NEW k \in 0 .. n - 1, NEW F, By(F, k) PROVE \E G : By(G, k + 1)
    <2> DEFINE v(s) == g[<<k + 1, F[s \ {k + 1}]>>]
               G == [s \in SUBSET (1 .. k + 1) |-> IF k + 1 \in s THEN v(s) ELSE F[s]]
    <2>1. \A s \in SUBSET (1 .. k + 1) :
            /\ s \ {k + 1} \in SUBSET (1..k)
            /\ k + 1 \notin s => s \in SUBSET (1..k)
            /\ s # {} => Max(s) \in s
            /\ k + 1 \in s => Max(s) = k + 1
      <3>1. ASSUME NEW s \in SUBSET (1 .. k + 1), s # {}
            PROVE  Max(s) \in s /\ \A y \in s : Max(s) >= y
        <4>1. IsFiniteSet(s) /\ s \subseteq Int
          <5>1. k + 1 \in Nat
            OBVIOUS
          <5> QED
            BY <5>1, PlacesFinite
        <4> QED
          BY <3>1, <4>1, MaxIs
      <3>2. ASSUME NEW s \in SUBSET (1 .. k + 1), k + 1 \in s PROVE Max(s) = k + 1
        <4>1. Max(s) \in 1 .. k + 1 /\ Max(s) >= k + 1
          BY <3>1, <3>2
        <4> QED
          BY <4>1
      <3> QED
        BY <3>1, <3>2
    <2>2. \A s \in SUBSET (1 .. k + 1) : F[s \ {k + 1}] \in S /\ v(s) \in S
      <3>1. k + 1 \in 1..n
        OBVIOUS
      <3>2. \A s \in SUBSET (1 .. k + 1) : F[s \ {k + 1}] \in S
        BY <1>2, <2>1
      <3> QED
        BY <3>1, <3>2 DEF StepOf
    <2>3. G \in [SUBSET (1 .. k + 1) -> S]
      <3>1. \A s \in SUBSET (1 .. k + 1) : k + 1 \notin s => F[s] \in S
        BY <1>2, <2>1
      <3> HIDE DEF By
      <3> QED
        BY <2>2, <3>1
    <2>4. ASSUME NEW s \in SUBSET (1 .. k + 1), s # {}
          PROVE  G[s] = g[<<Max(s), G[s \ {Max(s)}]>>]
      <3>1. CASE k + 1 \in s
        <4>1. Max(s) = k + 1 /\ k + 1 \notin s \ {k + 1} /\ s \ {k + 1} \in SUBSET (1 .. k + 1)
          BY <2>1, <3>1
        <4>2. G[s \ {k + 1}] = F[s \ {k + 1}]
          BY <4>1
        <4>3. G[s] = v(s)
          BY <3>1
        <4> QED
          BY <4>1, <4>2, <4>3
      <3>2. CASE k + 1 \notin s
        <4>1. s \in SUBSET (1..k) /\ s \ {Max(s)} \in SUBSET (1 .. k + 1) /\ k + 1 \notin s \ {Max(s)}
          BY <2>1, <3>2
        <4>2. F[s] = g[<<Max(s), F[s \ {Max(s)}]>>]
          BY <1>2, <2>4, <4>1
        <4>3. G[s] = F[s] /\ G[s \ {Max(s)}] = F[s \ {Max(s)}]
          BY <3>2, <4>1
        <4> QED
          BY <4>2, <4>3
      <3> QED
        BY <3>1, <3>2
    <2>5. G[{}] = base
      <3>1. F[{}] = base
        BY <1>2
      <3> QED
        BY <3>1
    <2>6. By(G, k + 1)
      <3> HIDE DEF G
      <3>1. \A s \in SUBSET (1 .. k + 1) :
              G[s] = IF s = {} THEN base ELSE g[<<Max(s), G[s \ {Max(s)}]>>]
        BY <2>4, <2>5
      <3> QED
        BY <2>3, <3>1
    <2> HIDE DEF By, G
    <2> QED
      BY <2>6
  <1>3. n \in K
    <2> HIDE DEF By
    <2>1. \A k \in 0 .. n - 1 : k \in K => k + 1 \in K
      BY <1>2
    <2> HIDE DEF K
    <2> QED
      BY <1>1, <2>1, InductUpto
  <1>4. PICK F : By(F, n)
    BY <1>3
  <1> QED
    BY <1>4 DEF FoldOf

(* What a fold comes to, prefix by prefix. *)
LEMMA FoldHistory ==
  ASSUME NEW S, NEW base \in S, NEW n \in Nat, NEW g, StepOf(g, n, S),
         NEW iter, Follows(iter, n, S, base, g)
  PROVE  \E h : HistoryOf(h, iter, n, S, base, g)
  <1> DEFINE h == [k \in 0..n |-> iter[1..k]]
             K == {k \in 0..n : iter[1..k] \in S}
  <1>1. \A k \in 0 .. n - 1 :
          iter[1..k] \in S => iter[1 .. k + 1] = g[<<k + 1, iter[1..k]>>] /\ iter[1 .. k + 1] \in S
    <2> SUFFICES ASSUME NEW k \in 0 .. n - 1, iter[1..k] \in S
                 PROVE  iter[1 .. k + 1] = g[<<k + 1, iter[1..k]>>] /\ iter[1 .. k + 1] \in S
      OBVIOUS
    <2>1. Max(1 .. k + 1) = k + 1 /\ (1 .. k + 1) \ {k + 1} = 1..k
      BY MaxUpto
    <2>2. 1 .. k + 1 \in SUBSET (1..n) /\ 1 .. k + 1 # {} /\ k + 1 \in 1..n
      <3>1. k + 1 \in 1 .. k + 1 /\ k + 1 \in 1..n /\ \A x \in 1 .. k + 1 : x \in 1..n
        OBVIOUS
      <3> QED
        BY <3>1, Zenon
    <2> QED
      BY <2>1, <2>2 DEF StepOf, Follows
  <1>2. 0 \in K
    <2>1. 1..0 = {}
      OBVIOUS
    <2> QED
      BY <2>1 DEF Follows
  <1>3. \A k \in 0 .. n - 1 : k \in K => k + 1 \in K
    <2>1. \A k \in 0 .. n - 1 : k + 1 \in 0..n
      OBVIOUS
    <2> QED
      BY <1>1, <2>1
  <1>4. 0..n \subseteq K
    <2> HIDE DEF K
    <2> QED
      BY <1>2, <1>3, InductUpto
  <1>5. h \in [0..n -> S]
    BY <1>4
  <1>6. h[0] = base /\ h[n] = iter[1..n]
    <2>1. 1..0 = {}
      OBVIOUS
    <2> QED
      BY <2>1 DEF Follows
  <1>7. \A k \in 0 .. n - 1 : h[k + 1] = g[<<k + 1, h[k]>>]
    <2>1. \A k \in 0 .. n - 1 : k \in 0..n /\ k + 1 \in 0..n
      OBVIOUS
    <2>2. \A k \in 0 .. n - 1 : iter[1..k] \in S
      BY <1>4, <2>1
    <2> QED
      BY <1>1, <2>1, <2>2
  <1> HIDE DEF h
  <1> QED
    BY <1>5, <1>6, <1>7 DEF HistoryOf

-----------------------------------------------------------------------------
(* The folds of the module, prefix by prefix. *)

PutHistory(h, side, levels, message, S) ==
  /\ h \in [0..Len(message) -> S]
  /\ h[0] = levels /\ h[Len(message)] = Updated(side, levels, message)
  /\ \A k \in 0 .. Len(message) - 1 : h[k + 1] = Put(side, h[k], message[k + 1])

LEMMA UpdatedSteps ==
  ASSUME NEW side, NEW levels, NEW message \in Seq(Level), NEW S, levels \in S,
         \A l \in S, level \in Level : Put(side, l, level) \in S
  PROVE  \E h : PutHistory(h, side, levels, message, S)
  <1> DEFINE n == Len(message)
             E(F) == [s \in SUBSET DOMAIN message |->
                        IF s = {} THEN levels
                        ELSE Put(side, F[s \ {Max(s)}], message[Max(s)])]
             iter == CHOOSE F : F = E(F)
             g == [x \in (1..n) \X S |-> Put(side, x[2], message[x[1]])]
  <1>1. n \in Nat /\ DOMAIN message = 1..n /\ \A k \in 1..n : message[k] \in Level
    BY LenProperties, ElementOfSeq
  <1>2. Updated(side, levels, message) = iter[1..n]
    BY <1>1 DEF Updated, FoldLeft, MapThenFoldSet
  <1>3. StepOf(g, n, S)
    BY <1>1 DEF StepOf
  <1>4. \A s \in SUBSET (1..n) : s # {} => Max(s) \in 1..n
    BY <1>1, MaxUpto
  <1>5. \A k \in 1..n, l \in S : g[<<k, l>>] = Put(side, l, message[k])
    OBVIOUS
  <1> HIDE DEF n, g
  <1>6. \E F : F = E(F)
    <2>1. PICK F : FoldOf(F, n, S, levels, g)
      BY <1>1, <1>3, FoldExists
    <2>2. F = E(F)
      BY <1>1, <1>4, <1>5, <2>1 DEF FoldOf
    <2> HIDE DEF E
    <2> QED
      BY <2>2
  <1>7. iter = E(iter)
    <2> HIDE DEF E
    <2> QED
      BY <1>6, Zenon
  <1> HIDE DEF iter
  <1>8. Follows(iter, n, S, levels, g)
    BY <1>1, <1>4, <1>5, <1>7 DEF Follows
  <1>9. PICK h : HistoryOf(h, iter, n, S, levels, g)
    BY <1>1, <1>3, <1>8, FoldHistory
  <1>10. \A k \in 0 .. n - 1 : h[k + 1] = Put(side, h[k], message[k + 1])
    <2>1. \A k \in 0 .. n - 1 : k + 1 \in 1..n /\ h[k] \in S
      BY <1>1, <1>9 DEF HistoryOf
    <2> QED
      BY <1>5, <1>9, <2>1 DEF HistoryOf
  <1> QED
    BY <1>2, <1>9, <1>10 DEF n, HistoryOf, PutHistory

TellHistory(h, sizes, message, S) ==
  /\ h \in [0..Len(message) -> S]
  /\ h[0] = sizes /\ h[Len(message)] = Heard(sizes, message)
  /\ \A k \in 0 .. Len(message) - 1 : h[k + 1] = Tell(h[k], message[k + 1])

LEMMA HeardSteps ==
  ASSUME NEW sizes, NEW message \in Seq(Level), NEW S, sizes \in S,
         \A f \in S, level \in Level : Tell(f, level) \in S
  PROVE  \E h : TellHistory(h, sizes, message, S)
  <1> DEFINE n == Len(message)
             E(F) == [s \in SUBSET DOMAIN message |->
                        IF s = {} THEN sizes
                        ELSE Tell(F[s \ {Max(s)}], message[Max(s)])]
             iter == CHOOSE F : F = E(F)
             g == [x \in (1..n) \X S |-> Tell(x[2], message[x[1]])]
  <1>1. n \in Nat /\ DOMAIN message = 1..n /\ \A k \in 1..n : message[k] \in Level
    BY LenProperties, ElementOfSeq
  <1>2. Heard(sizes, message) = iter[1..n]
    BY <1>1 DEF Heard, FoldLeft, MapThenFoldSet
  <1>3. StepOf(g, n, S)
    BY <1>1 DEF StepOf
  <1>4. \A s \in SUBSET (1..n) : s # {} => Max(s) \in 1..n
    BY <1>1, MaxUpto
  <1>5. \A k \in 1..n, l \in S : g[<<k, l>>] = Tell(l, message[k])
    OBVIOUS
  <1> HIDE DEF n, g
  <1>6. \E F : F = E(F)
    <2>1. PICK F : FoldOf(F, n, S, sizes, g)
      BY <1>1, <1>3, FoldExists
    <2>2. F = E(F)
      BY <1>1, <1>4, <1>5, <2>1 DEF FoldOf
    <2> HIDE DEF E
    <2> QED
      BY <2>2
  <1>7. iter = E(iter)
    <2> HIDE DEF E
    <2> QED
      BY <1>6, Zenon
  <1> HIDE DEF iter
  <1>8. Follows(iter, n, S, sizes, g)
    BY <1>1, <1>4, <1>5, <1>7 DEF Follows
  <1>9. PICK h : HistoryOf(h, iter, n, S, sizes, g)
    BY <1>1, <1>3, <1>8, FoldHistory
  <1>10. \A k \in 0 .. n - 1 : h[k + 1] = Tell(h[k], message[k + 1])
    <2>1. \A k \in 0 .. n - 1 : k + 1 \in 1..n /\ h[k] \in S
      BY <1>1, <1>9 DEF HistoryOf
    <2> QED
      BY <1>5, <1>9, <2>1 DEF HistoryOf
  <1> QED
    BY <1>2, <1>9, <1>10 DEF n, HistoryOf, TellHistory

TakeHistory(h, levels, q, S) ==
  /\ h \in [0..Len(levels) -> S]
  /\ h[0] = Nothing /\ h[Len(levels)] = Walk(levels, q)
  /\ \A k \in 0 .. Len(levels) - 1 : h[k + 1] = Take(h[k], levels[k + 1], q)

LEMMA WalkSteps ==
  ASSUME NEW R, NEW levels \in Seq(R), NEW q, NEW S, Nothing \in S,
         \A w \in S, level \in R : Take(w, level, q) \in S
  PROVE  \E h : TakeHistory(h, levels, q, S)
  <1> DEFINE n == Len(levels)
             E(F) == [s \in SUBSET DOMAIN levels |->
                        IF s = {} THEN Nothing
                        ELSE Take(F[s \ {Max(s)}], levels[Max(s)], q)]
             iter == CHOOSE F : F = E(F)
             g == [x \in (1..n) \X S |-> Take(x[2], levels[x[1]], q)]
  <1>1. n \in Nat /\ DOMAIN levels = 1..n /\ \A k \in 1..n : levels[k] \in R
    BY LenProperties, ElementOfSeq
  <1>2. Walk(levels, q) = iter[1..n]
    BY <1>1 DEF Walk, FoldLeft, MapThenFoldSet
  <1>3. StepOf(g, n, S)
    BY <1>1 DEF StepOf
  <1>4. \A s \in SUBSET (1..n) : s # {} => Max(s) \in 1..n
    BY <1>1, MaxUpto
  <1>5. \A k \in 1..n, l \in S : g[<<k, l>>] = Take(l, levels[k], q)
    OBVIOUS
  <1> HIDE DEF n, g
  <1>6. \E F : F = E(F)
    <2>1. PICK F : FoldOf(F, n, S, Nothing, g)
      BY <1>1, <1>3, FoldExists
    <2>2. F = E(F)
      BY <1>1, <1>4, <1>5, <2>1 DEF FoldOf
    <2> HIDE DEF E
    <2> QED
      BY <2>2
  <1>7. iter = E(iter)
    <2> HIDE DEF E
    <2> QED
      BY <1>6, Zenon
  <1> HIDE DEF iter
  <1>8. Follows(iter, n, S, Nothing, g)
    BY <1>1, <1>4, <1>5, <1>7 DEF Follows
  <1>9. PICK h : HistoryOf(h, iter, n, S, Nothing, g)
    BY <1>1, <1>3, <1>8, FoldHistory
  <1>10. \A k \in 0 .. n - 1 : h[k + 1] = Take(h[k], levels[k + 1], q)
    <2>1. \A k \in 0 .. n - 1 : k + 1 \in 1..n /\ h[k] \in S
      BY <1>1, <1>9 DEF HistoryOf
    <2> QED
      BY <1>5, <1>9, <2>1 DEF HistoryOf
  <1> QED
    BY <1>2, <1>9, <1>10 DEF n, HistoryOf, TakeHistory

DepthHistory(h, levels, S) ==
  /\ h \in [0..Len(levels) -> S]
  /\ h[0] = 0 /\ h[Len(levels)] = Depth(levels)
  /\ \A k \in 0 .. Len(levels) - 1 : h[k + 1] = h[k] + levels[k + 1].size

LEMMA DepthSteps ==
  ASSUME NEW R, NEW levels \in Seq(R), NEW S, 0 \in S,
         \A d \in S, level \in R : d + level.size \in S
  PROVE  \E h : DepthHistory(h, levels, S)
  <1> DEFINE n == Len(levels)
             E(F) == [s \in SUBSET DOMAIN levels |->
                        IF s = {} THEN 0
                        ELSE F[s \ {Max(s)}] + levels[Max(s)].size]
             iter == CHOOSE F : F = E(F)
             g == [x \in (1..n) \X S |-> x[2] + levels[x[1]].size]
  <1>1. n \in Nat /\ DOMAIN levels = 1..n /\ \A k \in 1..n : levels[k] \in R
    BY LenProperties, ElementOfSeq
  <1>2. Depth(levels) = iter[1..n]
    BY <1>1 DEF Depth, FoldLeft, MapThenFoldSet
  <1>3. StepOf(g, n, S)
    BY <1>1 DEF StepOf
  <1>4. \A s \in SUBSET (1..n) : s # {} => Max(s) \in 1..n
    BY <1>1, MaxUpto
  <1>5. \A k \in 1..n, l \in S : g[<<k, l>>] = l + levels[k].size
    OBVIOUS
  <1> HIDE DEF n, g
  <1>6. \E F : F = E(F)
    <2>1. PICK F : FoldOf(F, n, S, 0, g)
      BY <1>1, <1>3, FoldExists
    <2>2. F = E(F)
      BY <1>1, <1>4, <1>5, <2>1 DEF FoldOf
    <2> HIDE DEF E
    <2> QED
      BY <2>2
  <1>7. iter = E(iter)
    <2> HIDE DEF E
    <2> QED
      BY <1>6, Zenon
  <1> HIDE DEF iter
  <1>8. Follows(iter, n, S, 0, g)
    BY <1>1, <1>4, <1>5, <1>7 DEF Follows
  <1>9. PICK h : HistoryOf(h, iter, n, S, 0, g)
    BY <1>1, <1>3, <1>8, FoldHistory
  <1>10. \A k \in 0 .. n - 1 : h[k + 1] = h[k] + levels[k + 1].size
    <2>1. \A k \in 0 .. n - 1 : k + 1 \in 1..n /\ h[k] \in S
      BY <1>1, <1>9 DEF HistoryOf
    <2> QED
      BY <1>5, <1>9, <2>1 DEF HistoryOf
  <1> QED
    BY <1>2, <1>9, <1>10 DEF n, HistoryOf, DepthHistory

-----------------------------------------------------------------------------
(* One level put into a side. *)
Priced == {p \in Prices : p > 0}
Row == [price : Priced, size : Sizes]
Distinct(levels) ==
  \A i, j \in DOMAIN levels : levels[i].price = levels[j].price => i = j
SideOK(levels) == levels \in Seq(Row) /\ Distinct(levels) /\ Len(levels) <= MaxDepth
Rows(levels) == {levels[i] : i \in DOMAIN levels}

LEMMA PricesOfRows ==
  ASSUME NEW levels \in Seq(Row)
  PROVE  /\ PricesOf(levels) = {r.price : r \in Rows(levels)}
         /\ PricesOf(levels) \subseteq Nat \ {0} /\ PricesOf(levels) \subseteq Prices
         /\ PricesOf(levels) = {} <=> Len(levels) = 0
         /\ \A i \in 1..Len(levels) : levels[i] \in Row /\ levels[i].price \in PricesOf(levels)
  <1>1. Len(levels) \in Nat /\ DOMAIN levels = 1..Len(levels) /\ \A i \in 1..Len(levels) : levels[i] \in Row
    BY LenProperties, ElementOfSeq
  <1>2. Prices \subseteq Int
    BY OrderBookAssumption
  <1>3. \A r \in Row : r.price \in Prices /\ r.price \in Nat \ {0}
    <2>1. \A p \in Priced : p \in Prices /\ p \in Nat \ {0}
      BY <1>2 DEF Priced
    <2> QED
      BY <2>1 DEF Row
  <1>4. PricesOf(levels) = {r.price : r \in Rows(levels)}
    BY DEF PricesOf, Rows
  <1>5. \A i \in 1..Len(levels) : levels[i].price \in PricesOf(levels)
    BY <1>1 DEF PricesOf
  <1>6. PricesOf(levels) \subseteq Nat \ {0} /\ PricesOf(levels) \subseteq Prices
    BY <1>1, <1>3 DEF PricesOf
  <1>7. PricesOf(levels) = {} <=> Len(levels) = 0
    <2>1. Len(levels) # 0 => 1 \in 1..Len(levels)
      BY <1>1
    <2>2. Len(levels) = 0 => DOMAIN levels = {}
      BY <1>1
    <2> QED
      BY <1>5, <2>1, <2>2 DEF PricesOf
  <1> QED
    BY <1>1, <1>4, <1>5, <1>6, <1>7

LEMMA RowTyped ==
  \A r \in Row : r.size \in Nat /\ r.price \in Nat
  <1>1. Sizes \subseteq Nat /\ Prices \subseteq Int
    BY OrderBookAssumption, Zenon
  <1>2. \A p \in Priced : p \in Nat
    BY <1>1 DEF Priced
  <1> QED
    BY <1>1, <1>2 DEF Row

LEMMA Least ==
  ASSUME NEW S, S \subseteq Nat, S # {}
  PROVE  Min(S) \in S /\ \A y \in S : Min(S) <= y
  <1>1. PICK m \in S : \A k \in S : <<k, m>> \notin OpToRel(<, Nat)
    BY NatLessThanWellFounded, WFMin, Zenon
  <1>2. \A k \in S : ~(k < m)
    BY <1>1 DEF OpToRel
  <1>3. \A k \in S : m <= k
    BY <1>2
  <1> QED
    BY <1>3 DEF Min

(* As many prices as levels. *)
LEMMA PricesCounted ==
  ASSUME NEW levels \in Seq(Row)
  PROVE  /\ IsFiniteSet(PricesOf(levels))
         /\ Distinct(levels) => Cardinality(PricesOf(levels)) = Len(levels)
  <1> DEFINE n == Len(levels)
             f == [i \in 1..n |-> levels[i].price]
             P == PricesOf(levels)
  <1>1. n \in Nat /\ DOMAIN levels = 1..n
    BY LenProperties
  <1>2. IsFiniteSet(1..n) /\ Cardinality(1..n) = n
    BY <1>1, FS_Interval
  <1>3. f \in [1..n -> P] /\ \A p \in P : \E i \in 1..n : f[i] = p
    BY <1>1 DEF PricesOf
  <1>4. Distinct(levels) => \A i, j \in 1..n : f[i] = f[j] => i = j
    BY <1>1 DEF Distinct
  <1> HIDE DEF f, P, n
  <1>5. f \in Surjection(1..n, P)
    BY <1>3 DEF Surjection
  <1>6. Distinct(levels) => f \in Bijection(1..n, P)
    BY <1>3, <1>4, <1>5 DEF Bijection, Injection, IsInjective
  <1>7. IsFiniteSet(P)
    BY <1>2, <1>5, FS_Surjection
  <1>8. Distinct(levels) => Cardinality(P) = n
    <2> SUFFICES ASSUME Distinct(levels) PROVE Cardinality(P) = n
      OBVIOUS
    <2> QED
      BY <1>2, <1>6, FS_Bijection DEF ExistsBijection
  <1> QED
    BY <1>7, <1>8 DEF P, n

LEMMA WorstIs ==
  ASSUME NEW side \in Side, NEW levels \in Seq(Row), Len(levels) # 0
  PROVE  /\ Worst(side, levels) \in PricesOf(levels)
         /\ \A p \in PricesOf(levels) : p # Worst(side, levels) => Better(side, p, Worst(side, levels))
  <1> DEFINE P == PricesOf(levels)
  <1>1. P # {} /\ P \subseteq Nat /\ P \subseteq Int /\ IsFiniteSet(P)
    BY PricesOfRows, PricesCounted
  <1>2. /\ Max(P) \in P /\ \A y \in P : Max(P) >= y
        /\ Min(P) \in P /\ \A y \in P : Min(P) <= y
    <2> HIDE DEF P
    <2> QED
      BY <1>1, MaxIs, Least
  <1>3. Worst(side, levels) = IF side = "bids" THEN Min(P) ELSE Max(P)
    BY DEF Worst
  <1> HIDE DEF P
  <1>4. \A p \in P : p # Worst(side, levels) => Better(side, p, Worst(side, levels))
    <2>1. \A p \in P : p \in Int
      BY <1>1
    <2>2. Worst(side, levels) \in Int
      BY <1>2, <1>3, <2>1
    <2> QED
      BY <1>2, <1>3, <2>1, <2>2 DEF Better
  <1> QED
    BY <1>2, <1>3, <1>4 DEF P

LEMMA RemovedAt ==
  ASSUME NEW S, NEW s \in Seq(S), NEW i \in 1..Len(s)
  PROVE  /\ RemoveAt(s, i) \in Seq(S) /\ Len(RemoveAt(s, i)) = Len(s) - 1
         /\ \A k \in 1 .. Len(s) - 1 : RemoveAt(s, i)[k] = IF k < i THEN s[k] ELSE s[k + 1]
  <1> DEFINE n == Len(s)
             a == SubSeq(s, 1, i - 1)
             b == SubSeq(s, i + 1, n)
  <1>1. n \in Nat /\ \A k \in 1..n : s[k] \in S
    BY LenProperties, ElementOfSeq
  <1>2. a \in Seq(S) /\ Len(a) = i - 1 /\ \A k \in 1 .. i - 1 : a[k] = s[k]
    <2>1. i - 1 <= n /\ 1 \in Int /\ i - 1 \in Int /\ \A k \in 1 .. i - 1 : s[k] \in S
      BY <1>1
    <2>2. 1 + 1 - 1 = 1 /\ \A k \in 1 .. i - 1 : 1 + k - 1 = k
      OBVIOUS
    <2> QED
      BY <1>1, <2>1, <2>2, SubSeqProperties
  <1>3. b \in Seq(S) /\ Len(b) = n - i /\ \A k \in 1 .. n - i : b[k] = s[i + k]
    <2>1. i + 1 \in Int /\ n \in Int /\ \A k \in i + 1 .. n : s[k] \in S
      BY <1>1
    <2>2. \A k \in 1 .. n - i : (i + 1) + k - 1 = i + k
      OBVIOUS
    <2> QED
      BY <1>1, <2>1, <2>2, SubSeqProperties
  <1> HIDE DEF a, b
  <1>4. /\ a \o b \in Seq(S) /\ Len(a \o b) = n - 1
        /\ \A k \in 1 .. n - 1 : (a \o b)[k] = IF k <= i - 1 THEN a[k] ELSE b[k - (i - 1)]
    <2>1. /\ a \o b \in Seq(S) /\ Len(a \o b) = Len(a) + Len(b)
          /\ \A k \in 1 .. Len(a) + Len(b) :
               (a \o b)[k] = IF k <= Len(a) THEN a[k] ELSE b[k - Len(a)]
      BY <1>2, <1>3, ConcatProperties
    <2>2. Len(a) = i - 1 /\ Len(a) + Len(b) = n - 1
      BY <1>1, <1>2, <1>3
    <2> QED
      BY <2>1, <2>2
  <1>5. \A k \in 1 .. n - 1 : (a \o b)[k] = IF k < i THEN s[k] ELSE s[k + 1]
    <2> SUFFICES ASSUME NEW k \in 1 .. n - 1
                 PROVE  (a \o b)[k] = IF k < i THEN s[k] ELSE s[k + 1]
      OBVIOUS
    <2>1. CASE k < i
      BY <1>2, <1>4, <2>1
    <2>2. CASE ~(k < i)
      <3>1. k - (i - 1) \in 1 .. n - i /\ i + (k - (i - 1)) = k + 1 /\ ~(k <= i - 1)
        BY <1>1, <2>2
      <3> QED
        BY <1>3, <1>4, <2>2, <3>1
    <2> QED
      BY <2>1, <2>2
  <1> QED
    BY <1>4, <1>5 DEF RemoveAt, a, b, n

(* A side that is too deep gives up its worst price and keeps the rest. *)
LEMMA TrimmedWell ==
  ASSUME NEW side \in Side, NEW levels \in Seq(Row), Distinct(levels),
         Len(levels) = MaxDepth + 1
  PROVE  LET t == Trimmed(side, levels)
             w == Worst(side, levels)
         IN  /\ SideOK(t) /\ Len(t) = MaxDepth
             /\ Rows(t) \subseteq Rows(levels)
             /\ PricesOf(t) = PricesOf(levels) \ {w}
             /\ w \in PricesOf(levels)
             /\ \A p \in PricesOf(t) : Better(side, p, w)
  <1> DEFINE n == Len(levels)
             w == Worst(side, levels)
             i == CHOOSE k \in DOMAIN levels : levels[k].price = w
             t == RemoveAt(levels, i)
  <1>1. MaxDepth \in Nat \ {0} /\ n \in Nat /\ n > MaxDepth /\ n # 0 /\ DOMAIN levels = 1..n
        /\ n - 1 = MaxDepth
    BY OrderBookAssumption, LenProperties
  <1>2. /\ w \in PricesOf(levels)
        /\ \A p \in PricesOf(levels) : p # w => Better(side, p, w)
    BY <1>1, WorstIs
  <1>3. i \in 1..n /\ levels[i].price = w
    BY <1>1, <1>2 DEF PricesOf
  <1>4. Trimmed(side, levels) = t
    BY <1>1 DEF Trimmed
  <1> HIDE DEF i, w, n, t
  <1>5. /\ t \in Seq(Row) /\ Len(t) = n - 1
        /\ \A k \in 1 .. n - 1 : t[k] = IF k < i THEN levels[k] ELSE levels[k + 1]
    <2>1. i \in 1..Len(levels)
      BY <1>3 DEF n
    <2> QED
      BY <2>1, RemovedAt DEF n, t
  <1>6. DOMAIN t = 1 .. n - 1
    BY <1>5, LenProperties
  <1>7. \A k \in 1 .. n - 1 : \E j \in 1..n : j # i /\ t[k] = levels[j] /\ j = IF k < i THEN k ELSE k + 1
    <2> SUFFICES ASSUME NEW k \in 1 .. n - 1
                 PROVE \E j \in 1..n : j # i /\ t[k] = levels[j] /\ j = IF k < i THEN k ELSE k + 1
      OBVIOUS
    <2>1. k \in 1..n /\ k + 1 \in 1..n
      BY <1>1
    <2>2. CASE k < i
      BY <1>5, <2>1, <2>2
    <2>3. CASE ~(k < i)
      <3>1. k + 1 # i
        BY <1>3, <2>3
      <3> QED
        BY <1>5, <2>1, <2>3, <3>1
    <2> QED
      BY <2>2, <2>3
  <1>8. \A j \in 1..n : j # i => \E k \in 1 .. n - 1 : t[k] = levels[j]
    <2> SUFFICES ASSUME NEW j \in 1..n, j # i PROVE \E k \in 1 .. n - 1 : t[k] = levels[j]
      OBVIOUS
    <2>1. CASE j < i
      <3>1. j \in 1 .. n - 1
        BY <1>1, <1>3, <2>1
      <3> QED
        BY <1>5, <2>1, <3>1
    <2>2. CASE ~(j < i)
      <3>1. j - 1 \in 1 .. n - 1 /\ ~(j - 1 < i) /\ (j - 1) + 1 = j
        BY <1>1, <1>3, <2>2
      <3> QED
        BY <1>5, <3>1
    <2> QED
      BY <2>1, <2>2
  <1>9. Rows(t) \subseteq Rows(levels)
    BY <1>1, <1>6, <1>7 DEF Rows
  <1>10. PricesOf(t) = PricesOf(levels) \ {w}
    <2>1. \A j \in 1..n : levels[j].price = w <=> j = i
      BY <1>1, <1>3 DEF Distinct
    <2>2. PricesOf(t) = {t[k].price : k \in 1 .. n - 1} /\ PricesOf(levels) = {levels[j].price : j \in 1..n}
      BY <1>1, <1>6 DEF PricesOf
    <2>3. \A p \in PricesOf(t) : p \in PricesOf(levels) \ {w}
      BY <1>7, <2>1, <2>2
    <2>4. \A p \in PricesOf(levels) \ {w} : p \in PricesOf(t)
      BY <1>8, <2>1, <2>2
    <2> QED
      BY <2>3, <2>4
  <1>11. Distinct(t)
    <2> SUFFICES ASSUME NEW a \in 1 .. n - 1, NEW b \in 1 .. n - 1, t[a].price = t[b].price PROVE a = b
      BY <1>6 DEF Distinct
    <2>1. PICK j \in 1..n : j # i /\ t[a] = levels[j] /\ j = IF a < i THEN a ELSE a + 1
      BY <1>7
    <2>2. PICK k \in 1..n : k # i /\ t[b] = levels[k] /\ k = IF b < i THEN b ELSE b + 1
      BY <1>7
    <2>3. j = k
      BY <1>1, <2>1, <2>2 DEF Distinct
    <2>4. a \in Int /\ b \in Int /\ i \in Int
      BY <1>3
    <2> QED
      BY <2>1, <2>2, <2>3, <2>4
  <1>12. SideOK(t) /\ Len(t) = MaxDepth
    BY <1>1, <1>5, <1>11 DEF SideOK
  <1> QED
    BY <1>2, <1>4, <1>9, <1>10, <1>12 DEF w

LEMMA Appended ==
  ASSUME NEW levels \in Seq(Row), Distinct(levels), NEW level \in Row,
         level.price \notin PricesOf(levels)
  PROVE  LET a == Append(levels, level)
         IN  /\ a \in Seq(Row) /\ Distinct(a) /\ Len(a) = Len(levels) + 1
             /\ Rows(a) = Rows(levels) \cup {level}
             /\ PricesOf(a) = PricesOf(levels) \cup {level.price}
  <1> DEFINE n == Len(levels)
             a == Append(levels, level)
  <1>1. /\ n \in Nat /\ DOMAIN levels = 1..n
        /\ a \in Seq(Row) /\ Len(a) = n + 1 /\ DOMAIN a = 1 .. n + 1
        /\ a[n + 1] = level /\ \A k \in 1..n : a[k] = levels[k]
    <2>1. n \in Nat /\ DOMAIN levels = 1..n
      BY LenProperties
    <2>2. a \in Seq(Row) /\ Len(a) = n + 1 /\ \A k \in 1..n : a[k] = levels[k]
      BY AppendProperties
    <2>3. a[n + 1] = level
      BY AppendProperties
    <2> QED
      BY <2>1, <2>2, <2>3, LenProperties
  <1> HIDE DEF a, n
  <1>2. \A k \in 1 .. n + 1 : k \in 1..n \/ k = n + 1
    BY <1>1
  <1>3. n + 1 \in 1 .. n + 1 /\ \A k \in 1..n : k \in 1 .. n + 1
    BY <1>1
  <1>4. Rows(a) = Rows(levels) \cup {level}
    BY <1>1, <1>2, <1>3 DEF Rows
  <1>5. PricesOf(a) = PricesOf(levels) \cup {level.price}
    BY <1>1, <1>2, <1>3 DEF PricesOf
  <1>6. Distinct(a)
    <2>1. \A k \in 1..n : levels[k].price # level.price
      BY <1>1 DEF PricesOf
    <2> QED
      BY <1>1, <1>2, <2>1 DEF Distinct
  <1> QED
    BY <1>1, <1>4, <1>5, <1>6 DEF a, n

LEMMA Replaced ==
  ASSUME NEW levels \in Seq(Row), Distinct(levels), NEW level \in Row
  PROVE  LET a == [i \in DOMAIN levels |->
                     IF levels[i].price = level.price THEN level ELSE levels[i]]
         IN  /\ a \in Seq(Row) /\ Distinct(a) /\ Len(a) = Len(levels)
             /\ PricesOf(a) = PricesOf(levels)
             /\ \A r \in Rows(a) : r = level \/ (r \in Rows(levels) /\ r.price # level.price)
  <1> DEFINE n == Len(levels)
             a == [i \in DOMAIN levels |->
                     IF levels[i].price = level.price THEN level ELSE levels[i]]
  <1>1. n \in Nat /\ DOMAIN levels = 1..n /\ \A i \in 1..n : levels[i] \in Row
    BY LenProperties, ElementOfSeq
  <1>2. a \in Seq(Row) /\ Len(a) = n /\ DOMAIN a = 1..n
    <2>1. a = [i \in 1..n |-> IF levels[i].price = level.price THEN level ELSE levels[i]]
      BY <1>1
    <2>2. \A i \in 1..n : (IF levels[i].price = level.price THEN level ELSE levels[i]) \in Row
      BY <1>1
    <2>3. a \in [1..n -> Row]
      BY <2>1, <2>2
    <2> HIDE DEF a
    <2>4. a \in Seq(Row)
      BY <1>1, <2>3, SeqDef
    <2> QED
      BY <1>1, <2>3, <2>4, LenProperties
  <1>3. \A i \in 1..n : a[i] = (IF levels[i].price = level.price THEN level ELSE levels[i])
                        /\ a[i].price = levels[i].price
    BY <1>1
  <1> HIDE DEF a, n
  <1>4. Distinct(a)
    BY <1>1, <1>2, <1>3 DEF Distinct
  <1>5. PricesOf(a) = PricesOf(levels)
    BY <1>1, <1>2, <1>3 DEF PricesOf
  <1>6. \A r \in Rows(a) : r = level \/ (r \in Rows(levels) /\ r.price # level.price)
    BY <1>1, <1>2, <1>3 DEF Rows
  <1> QED
    BY <1>2, <1>4, <1>5, <1>6 DEF a, n

(* What a level does to a side: at most one price goes, and it is the worst. *)
LEMMA PutWell ==
  ASSUME NEW side \in Side, NEW levels, SideOK(levels), NEW level \in Row
  PROVE  LET new == Put(side, levels, level)
             all == PricesOf(levels) \cup {level.price}
         IN  /\ SideOK(new)
             /\ \A r \in Rows(new) : r = level \/ (r \in Rows(levels) /\ r.price # level.price)
             /\ \/ /\ PricesOf(new) = all
                   /\ \/ level.price \in PricesOf(levels) /\ Len(new) = Len(levels)
                      \/ Len(levels) < MaxDepth
                \/ /\ Len(new) = MaxDepth
                   /\ \E w \in all : /\ PricesOf(new) = all \ {w}
                                     /\ \A p \in PricesOf(new) : Better(side, p, w)
  <1> DEFINE new == Put(side, levels, level)
             a == Append(levels, level)
             b == [i \in DOMAIN levels |->
                     IF levels[i].price = level.price THEN level ELSE levels[i]]
  <1>1. ~(level.price <= 0)
    <2>1. level.price \in Prices /\ level.price > 0
      BY DEF Row, Priced
    <2>2. level.price \in Int
      BY <2>1, OrderBookAssumption
    <2> QED
      BY <2>1, <2>2
  <1>2. MaxDepth \in Nat /\ levels \in Seq(Row) /\ Distinct(levels) /\ Len(levels) \in Nat
        /\ Len(levels) <= MaxDepth
    BY OrderBookAssumption, LenProperties DEF SideOK
  <1>3. CASE level.price \in PricesOf(levels)
    <2>1. /\ b \in Seq(Row) /\ Distinct(b) /\ Len(b) = Len(levels)
          /\ PricesOf(b) = PricesOf(levels)
          /\ \A r \in Rows(b) : r = level \/ (r \in Rows(levels) /\ r.price # level.price)
      BY <1>2, Replaced
    <2>2. new = Trimmed(side, b)
      BY <1>1, <1>3 DEF Put
    <2> HIDE DEF b, new
    <2>3. new = b
      BY <1>2, <2>1, <2>2 DEF Trimmed
    <2>4. PricesOf(levels) \cup {level.price} = PricesOf(levels)
      BY <1>3
    <2>5. SideOK(new)
      BY <1>2, <2>1, <2>3 DEF SideOK
    <2> QED
      BY <1>3, <2>1, <2>3, <2>4, <2>5 DEF new
  <1>4. CASE level.price \notin PricesOf(levels)
    <2>1. /\ a \in Seq(Row) /\ Distinct(a) /\ Len(a) = Len(levels) + 1
          /\ Rows(a) = Rows(levels) \cup {level}
          /\ PricesOf(a) = PricesOf(levels) \cup {level.price}
      BY <1>2, <1>4, Appended
    <2>2. new = Trimmed(side, a)
      BY <1>1, <1>4 DEF Put
    <2>3. \A r \in Rows(levels) : r.price # level.price
      BY <1>2, <1>4, PricesOfRows
    <2> HIDE DEF a, new
    <2>4. CASE Len(levels) < MaxDepth
      <3>1. new = a
        BY <1>2, <2>1, <2>2, <2>4 DEF Trimmed
      <3>2. SideOK(new)
        BY <1>2, <2>1, <2>4, <3>1 DEF SideOK
      <3> QED
        BY <2>1, <2>3, <2>4, <3>1, <3>2 DEF new
    <2>5. CASE Len(levels) = MaxDepth
      <3> DEFINE w == Worst(side, a)
      <3>1. /\ SideOK(new) /\ Len(new) = MaxDepth
            /\ Rows(new) \subseteq Rows(a)
            /\ PricesOf(new) = PricesOf(a) \ {w}
            /\ w \in PricesOf(a)
            /\ \A p \in PricesOf(new) : Better(side, p, w)
        BY <2>1, <2>2, <2>5, TrimmedWell
      <3> HIDE DEF w
      <3>2. \A r \in Rows(new) : r = level \/ (r \in Rows(levels) /\ r.price # level.price)
        BY <2>1, <2>3, <3>1
      <3> QED
        BY <2>1, <3>1, <3>2 DEF new
    <2>6. Len(levels) < MaxDepth \/ Len(levels) = MaxDepth
      BY <1>2
    <2> QED
      BY <2>4, <2>5, <2>6, Zenon
  <1> QED
    BY <1>3, <1>4

-----------------------------------------------------------------------------
(* A side and what was told of it. *)
ToldOf(sizes) == {p \in Prices : sizes[p] >= 0}

(* A side shows what was told last of each of its prices, and a price that was
   told and is not there has a full side of better ones before it. *)
Shows(side, levels, sizes) ==
  /\ SideOK(levels)
  /\ sizes \in [Prices -> Int]
  /\ IsFiniteSet(ToldOf(sizes)) /\ ToldOf(sizes) \subseteq Priced
  /\ PricesOf(levels) \subseteq ToldOf(sizes)
  /\ \A r \in Rows(levels) : sizes[r.price] = r.size
  /\ \A p \in ToldOf(sizes) \ PricesOf(levels) :
       Len(levels) = MaxDepth /\ \A q \in PricesOf(levels) : Better(side, q, p)

LEMMA PutShows ==
  ASSUME NEW side \in Side, NEW levels, NEW sizes, Shows(side, levels, sizes),
         NEW level \in Row
  PROVE  Shows(side, Put(side, levels, level), [sizes EXCEPT ![level.price] = level.size])
  <1> DEFINE new == Put(side, levels, level)
             P == PricesOf(levels)
             N == PricesOf(new)
             all == P \cup {level.price}
             heard == [sizes EXCEPT ![level.price] = level.size]
             T == ToldOf(sizes)
             U == ToldOf(heard)
  <1>1. /\ SideOK(new)
        /\ \A r \in Rows(new) : r = level \/ (r \in Rows(levels) /\ r.price # level.price)
        /\ \/ N = all /\ (\/ level.price \in P /\ Len(new) = Len(levels)
                        \/ Len(levels) < MaxDepth)
           \/ /\ Len(new) = MaxDepth
              /\ \E w \in all : N = all \ {w} /\ \A p \in N : Better(side, p, w)
    BY PutWell DEF Shows
  <1>2. level.price \in Prices /\ level.price \in Priced /\ level.size \in Nat
    BY OrderBookAssumption DEF Row, Priced
  <1>3. Prices \subseteq Int /\ MaxDepth \in Nat /\ P \subseteq Int
    BY OrderBookAssumption, PricesOfRows DEF Shows, SideOK
  <1>4. /\ heard \in [Prices -> Int] /\ heard[level.price] = level.size
        /\ \A p \in Prices : p # level.price => heard[p] = sizes[p]
    BY <1>2 DEF Shows
  <1>5. U = T \cup {level.price}
    BY <1>2, <1>4 DEF ToldOf
  <1>6. IsFiniteSet(U) /\ U \subseteq Priced /\ T \subseteq Int
    <2>1. IsFiniteSet(T \cup {level.price})
      BY FS_AddElement DEF Shows
    <2> QED
      BY <1>2, <1>3, <1>5, <2>1 DEF Shows, ToldOf
  <1>7. P \subseteq T /\ all \subseteq U /\ N \subseteq all
    BY <1>1, <1>5 DEF Shows
  <1>8. \A r \in Rows(new) : heard[r.price] = r.size
    <2> SUFFICES ASSUME NEW r \in Rows(new) PROVE heard[r.price] = r.size
      OBVIOUS
    <2>1. CASE r = level
      BY <1>4, <2>1
    <2>2. CASE r \in Rows(levels) /\ r.price # level.price
      <3>1. r.price \in Prices
        BY <1>7, <2>2, PricesOfRows DEF Shows, SideOK, ToldOf
      <3> QED
        BY <1>4, <2>2, <3>1 DEF Shows
    <2> QED
      BY <1>1, <2>1, <2>2
  <1>9. \A p \in T \ P : Len(levels) = MaxDepth /\ \A q \in P : Better(side, q, p)
    BY DEF Shows
  <1>10. Len(levels) \in Nat
    BY LenProperties DEF Shows, SideOK
  <1> HIDE DEF new, P, N, all, heard, T, U
  <1>11. \A p \in U \ N : Len(new) = MaxDepth /\ \A q \in N : Better(side, q, p)
    <2> SUFFICES ASSUME NEW p \in U \ N
                 PROVE  Len(new) = MaxDepth /\ \A q \in N : Better(side, q, p)
      OBVIOUS
    <2>1. CASE N = all
      <3>1. p \in T \ P
        BY <1>5, <2>1 DEF all
      <3>2. level.price \in P /\ Len(new) = Len(levels)
        BY <1>1, <1>3, <1>9, <1>10, <2>1, <3>1
      <3> QED
        BY <1>9, <2>1, <3>1, <3>2 DEF all
    <2>2. ASSUME Len(new) = MaxDepth, NEW w \in all, N = all \ {w}, \A q \in N : Better(side, q, w)
          PROVE  Len(new) = MaxDepth /\ \A q \in N : Better(side, q, p)
      <3>1. CASE p = w
        BY <2>2, <3>1
      <3>2. CASE p # w
        <4>1. p \in T \ P /\ \A q \in P : Better(side, q, p)
          BY <1>5, <1>9, <2>2, <3>2 DEF all
        <4>2. ASSUME level.price \in N PROVE Better(side, level.price, p)
          <5>1. w \in P /\ Better(side, level.price, w) /\ Better(side, w, p)
            BY <2>2, <4>1, <4>2 DEF all
          <5>2. w \in Int /\ p \in Int /\ level.price \in Int
            BY <1>2, <1>3, <1>6, <4>1, <5>1
          <5> QED
            BY <5>1, <5>2 DEF Better
        <4> QED
          BY <2>2, <4>1, <4>2 DEF all
      <3> QED
        BY <3>1, <3>2
    <2> QED
      BY <1>1, <2>1, <2>2
  <1> QED
    BY <1>1, <1>4, <1>6, <1>7, <1>8, <1>11 DEF Shows, new, N, heard, U

(* A whole message, one level at a time. *)
LEMMA MessageShows ==
  ASSUME NEW side \in Side, NEW levels, NEW sizes, Shows(side, levels, sizes),
         NEW message \in Seq(Level)
  PROVE  Shows(side, Updated(side, levels, message), Heard(sizes, message))
  <1> DEFINE n == Len(message)
             S == {l \in Seq(Row) : SideOK(l)}
             V == [Prices -> Int]
  <1>1. n \in Nat /\ \A k \in 1..n : message[k] \in Level
    BY LenProperties, ElementOfSeq
  <1>2. \A level \in Level :
          level.price \in Prices /\ level.size \in Int /\ (level \in Row \/ level.price <= 0)
    <2>1. Prices \subseteq Int /\ Sizes \subseteq Nat
      BY OrderBookAssumption, Zenon
    <2>2. \A p \in Prices : p \in Priced \/ p <= 0
      BY <2>1 DEF Priced
    <2> SUFFICES ASSUME NEW level \in Level
                 PROVE  /\ level.price \in Prices /\ level.size \in Int
                        /\ level \in Row \/ level.price <= 0
      OBVIOUS
    <2>3. level.price \in Prices /\ level.size \in Sizes
      BY DEF Level
    <2>4. level.price \in Priced => level \in Row
      BY DEF Level, Row
    <2>5. level.size \in Int
      <3>1. level.size \in Nat
        BY <2>1, <2>3, Zenon
      <3> QED
        BY <3>1
    <2>6. level \in Row \/ level.price <= 0
      BY <2>2, <2>3, <2>4, Zenon
    <2> QED
      BY <2>3, <2>5, <2>6
  <1>3. \A l, level : level.price <= 0 => Put(side, l, level) = l
    BY DEF Put
  <1>4. levels \in S /\ \A l \in S, level \in Level : Put(side, l, level) \in S
    <2>1. levels \in S
      BY DEF Shows, SideOK
    <2>2. \A l \in S, level \in Level : Put(side, l, level) \in S
      BY <1>2, <1>3, PutWell DEF SideOK
    <2> QED
      BY <2>1, <2>2
  <1>5. sizes \in V /\ \A f \in V, level \in Level : Tell(f, level) \in V
    BY <1>2 DEF Tell, Shows
  <1> HIDE DEF S, V
  <1>6. PICK h : PutHistory(h, side, levels, message, S)
    BY <1>4, UpdatedSteps
  <1>7. PICK f : TellHistory(f, sizes, message, V)
    BY <1>5, HeardSteps
  <1> DEFINE K == {k \in 0..n : Shows(side, h[k], f[k])}
  <1>8. 0 \in K
    BY <1>1, <1>6, <1>7 DEF PutHistory, TellHistory
  <1>9. ASSUME NEW k \in 0 .. n - 1, k \in K PROVE k + 1 \in K
    <2> DEFINE level == message[k + 1]
    <2>1. k + 1 \in 0..n /\ level \in Level
      BY <1>1
    <2>2. h[k + 1] = Put(side, h[k], level) /\ f[k + 1] = Tell(f[k], level)
      BY <1>6, <1>7 DEF PutHistory, TellHistory
    <2> HIDE DEF level
    <2>3. CASE level.price <= 0
      BY <1>3, <1>9, <2>1, <2>2, <2>3 DEF Tell
    <2>4. CASE ~(level.price <= 0)
      <3>1. level \in Row /\ f[k + 1] = [f[k] EXCEPT ![level.price] = level.size]
        BY <1>2, <2>1, <2>2, <2>4 DEF Tell
      <3> QED
        BY <1>9, <2>1, <2>2, <3>1, PutShows
    <2> QED
      BY <2>3, <2>4
  <1>10. 0..n \subseteq K
    <2> HIDE DEF K
    <2> QED
      BY <1>1, <1>8, <1>9, InductUpto
  <1> QED
    BY <1>1, <1>6, <1>7, <1>10 DEF PutHistory, TellHistory

-----------------------------------------------------------------------------
(* What the books are between any two steps: the metrics of a book are those
   of its levels, a side shows what was told of it, and a token nobody spoke
   of has an empty book. *)
Heeded(t) == /\ Shows("bids", books[t].bids, told[t].bids)
             /\ Shows("asks", books[t].asks, told[t].asks)

OBInv ==
  /\ now \in 0..MaxTime
  /\ DOMAIN told \subseteq DOMAIN books /\ DOMAIN books \subseteq Tokens
  /\ DOMAIN last = DOMAIN books
  /\ \A t \in DOMAIN books : last[t] \in 0..MaxTime \cup {Never}
  /\ \A t \in DOMAIN books : books[t] = Measured(books[t].bids, books[t].asks)
  /\ \A t \in DOMAIN told : Heeded(t)
  /\ \A t \in DOMAIN books \ DOMAIN told : books[t] = NoBook /\ last[t] = Never

LEMMA NothingShown ==
  ASSUME NEW side \in Side
  PROVE  Shows(side, <<>>, [p \in Prices |-> -1])
  <1> DEFINE f == [p \in Prices |-> -1]
  <1>1. <<>> \in Seq(Row) /\ Len(<<>>) = 0 /\ DOMAIN <<>> = {}
    BY EmptySeq
  <1>2. f \in [Prices -> Int] /\ \A p \in Prices : f[p] = -1
    OBVIOUS
  <1> HIDE DEF f
  <1>3. ToldOf(f) = {}
    BY <1>2 DEF ToldOf
  <1>4. IsFiniteSet({})
    BY FS_EmptySet
  <1>5. PricesOf(<<>>) = {} /\ Rows(<<>>) = {} /\ Distinct(<<>>)
    BY <1>1 DEF PricesOf, Rows, Distinct
  <1>6. SideOK(<<>>)
    BY <1>1, <1>5, OrderBookAssumption DEF SideOK
  <1>7. Shows(side, <<>>, f)
    BY <1>2, <1>3, <1>4, <1>5, <1>6 DEF Shows
  <1> QED
    BY <1>7 DEF f

LEMMA NoBookIsMeasured == Measured(<<>>, <<>>) = NoBook
  BY DEF Measured, NoBook, Best, Spread, NoPrice

LEMMA OBInit == Init => OBInv
  <1> SUFFICES ASSUME Init PROVE OBInv
    OBVIOUS
  <1>1. DOMAIN books = {} /\ DOMAIN last = {} /\ DOMAIN told = {} /\ now = 0
    BY DEF Init
  <1>2. MaxTime \in Nat
    BY OrderBookAssumption
  <1> QED
    BY <1>1, <1>2 DEF OBInv

LEMMA UpdateKeeps ==
  ASSUME OBInv, NEW token \in Tokens, NEW m \in Messages, Update(token, m[1], m[2])
  PROVE  OBInv'
  <1> DEFINE bids == BookOf(token).bids
             asks == BookOf(token).asks
             before == IF token \in DOMAIN told THEN told[token] ELSE Untold
             newbids == Updated("bids", bids, m[1])
             newasks == Updated("asks", asks, m[2])
             book == Measured(newbids, newasks)
             heard == [bids |-> Heard(before.bids, m[1]), asks |-> Heard(before.asks, m[2])]
  <1>1. m[1] \in Seq(Level) /\ m[2] \in Seq(Level)
    <2>1. Messages \subseteq Seq(Level) \X Seq(Level)
      BY OrderBookAssumption, Zenon
    <2> QED
      BY <2>1
  <1>2. Shows("bids", bids, before.bids) /\ Shows("asks", asks, before.asks)
    <2>1. CASE token \in DOMAIN told
      BY <2>1 DEF OBInv, Heeded, BookOf, Known
    <2>2. CASE token \notin DOMAIN told
      <3>1. BookOf(token) = NoBook
        BY <2>2 DEF OBInv, BookOf, Known
      <3>2. bids = <<>> /\ asks = <<>>
        BY <3>1 DEF NoBook
      <3>3. before.bids = [p \in Prices |-> -1] /\ before.asks = [p \in Prices |-> -1]
        BY <2>2 DEF Untold, Side
      <3>4. "bids" \in Side /\ "asks" \in Side
        BY DEF Side
      <3> HIDE DEF before, bids, asks
      <3> QED
        BY <3>2, <3>3, <3>4, NothingShown
    <2> QED
      BY <2>1, <2>2
  <1>3. Shows("bids", newbids, heard.bids) /\ Shows("asks", newasks, heard.asks)
    <2>1. "bids" \in Side /\ "asks" \in Side
      BY DEF Side
    <2> HIDE DEF before, bids, asks
    <2> QED
      BY <1>1, <1>2, <2>1, MessageShows
  <1>4. book.bids = newbids /\ book.asks = newasks /\ book = Measured(book.bids, book.asks)
    BY DEF Measured
  <1>5. books' = With(books, token, book) /\ last' = With(last, token, now)
        /\ told' = With(told, token, heard) /\ now' = now
    BY DEF Update
  <1> HIDE DEF book, heard, newbids, newasks, before, bids, asks
  <1>6. /\ DOMAIN books' = DOMAIN books \cup {token} /\ DOMAIN last' = DOMAIN last \cup {token}
        /\ DOMAIN told' = DOMAIN told \cup {token}
        /\ books'[token] = book /\ told'[token] = heard /\ last'[token] = now
    BY <1>5 DEF With
  <1>7. /\ \A t \in DOMAIN books : t # token => books'[t] = books[t]
        /\ \A t \in DOMAIN last : t # token => last'[t] = last[t]
        /\ \A t \in DOMAIN told : t # token => told'[t] = told[t]
    BY <1>5 DEF With
  <1>8. now' \in 0..MaxTime /\ now' = now
    BY <1>5 DEF OBInv
  <1>9. DOMAIN told' \subseteq DOMAIN books' /\ DOMAIN books' \subseteq Tokens /\ DOMAIN last' = DOMAIN books'
    BY <1>6 DEF OBInv
  <1>10. \A t \in DOMAIN books' : last'[t] \in 0..MaxTime \cup {Never}
    BY <1>6, <1>7, <1>8 DEF OBInv
  <1>11. \A t \in DOMAIN books' : books'[t] = Measured(books'[t].bids, books'[t].asks)
    BY <1>4, <1>6, <1>7 DEF OBInv
  <1>12. \A t \in DOMAIN told' : Heeded(t)'
    <2> SUFFICES ASSUME NEW t \in DOMAIN told' PROVE Heeded(t)'
      OBVIOUS
    <2>1. CASE t = token
      BY <1>3, <1>4, <1>6, <2>1 DEF Heeded
    <2>2. CASE t # token
      BY <1>6, <1>7, <2>2 DEF Heeded, OBInv
    <2> QED
      BY <2>1, <2>2
  <1>13. \A t \in DOMAIN books' \ DOMAIN told' : books'[t] = NoBook /\ last'[t] = Never
    BY <1>6, <1>7 DEF OBInv
  <1> QED
    BY <1>8, <1>9, <1>10, <1>11, <1>12, <1>13 DEF OBInv, Never

LEMMA QueryKeeps ==
  ASSUME OBInv, NEW token \in Tokens, Query(token)
  PROVE  OBInv'
  <1>1. /\ DOMAIN books' = DOMAIN books \cup {token} /\ DOMAIN last' = DOMAIN last \cup {token}
        /\ books'[token] = NoBook /\ last'[token] = Never
        /\ \A t \in DOMAIN books : t # token => books'[t] = books[t]
        /\ \A t \in DOMAIN last : t # token => last'[t] = last[t]
        /\ told' = told /\ now' = now /\ token \notin DOMAIN books
    BY DEF Query, With, Known, Silent
  <1>2. NoBook = Measured(NoBook.bids, NoBook.asks)
    BY NoBookIsMeasured DEF NoBook
  <1>3. \A t \in DOMAIN books' : books'[t] = Measured(books'[t].bids, books'[t].asks)
    BY <1>1, <1>2 DEF OBInv
  <1>4. \A t \in DOMAIN told' : t \in DOMAIN books /\ t # token
    BY <1>1 DEF OBInv
  <1>5. \A t \in DOMAIN told' : Heeded(t)'
    BY <1>1, <1>4 DEF OBInv, Heeded
  <1>6. \A t \in DOMAIN books' \ DOMAIN told' : books'[t] = NoBook /\ last'[t] = Never
    BY <1>1 DEF OBInv
  <1>7. DOMAIN told' \subseteq DOMAIN books' /\ DOMAIN books' \subseteq Tokens /\ DOMAIN last' = DOMAIN books'
    BY <1>1 DEF OBInv
  <1>8. \A t \in DOMAIN books' : last'[t] \in 0..MaxTime \cup {Never}
    BY <1>1 DEF OBInv
  <1>9. now' \in 0..MaxTime
    BY <1>1 DEF OBInv
  <1> QED
    BY <1>3, <1>5, <1>6, <1>7, <1>8, <1>9 DEF OBInv, Never

LEMMA ClockKeeps ==
  ASSUME OBInv, ClockTick \/ UNCHANGED vars
  PROVE  OBInv'
  <1>1. books' = books /\ last' = last /\ told' = told
    BY DEF ClockTick, vars
  <1>2. MaxTime \in Nat
    BY OrderBookAssumption
  <1>3. now' \in 0..MaxTime
    BY <1>2 DEF ClockTick, vars, OBInv
  <1> QED
    BY <1>1, <1>3 DEF OBInv, Heeded, Never

LEMMA OBNext == OBInv /\ [Next]_vars => OBInv'
  <1> SUFFICES ASSUME OBInv, [Next]_vars PROVE OBInv'
    OBVIOUS
  <1>1. ASSUME NEW token \in Tokens, NEW m \in Messages, Update(token, m[1], m[2]) PROVE OBInv'
    BY <1>1, UpdateKeeps
  <1>2. ASSUME NEW token \in Tokens, Query(token) PROVE OBInv'
    BY <1>2, QueryKeeps
  <1>3. CASE ClockTick \/ UNCHANGED vars
    BY <1>3, ClockKeeps
  <1> QED
    BY <1>1, <1>2, <1>3 DEF Next

-----------------------------------------------------------------------------
(* What the invariant says of a book. *)

(* A side is the best of what was told: a price there has only prices that are
   there before it, and one that is not has all of them before it. *)
LEMMA BestShown ==
  ASSUME NEW side \in Side, NEW levels, NEW sizes, Shows(side, levels, sizes)
  PROVE  /\ PricesOf(levels) = {p \in ToldOf(sizes) :
                Cardinality({q \in ToldOf(sizes) : Better(side, q, p)}) < MaxDepth}
         /\ \A i \in DOMAIN levels : levels[i].size = sizes[levels[i].price]
  <1> DEFINE T == ToldOf(sizes)
             P == PricesOf(levels)
             ahead(p) == {q \in T : Better(side, q, p)}
  <1>1. IsFiniteSet(T) /\ P \subseteq T /\ IsFiniteSet(P) /\ T \subseteq Int
    <2>1. Prices \subseteq Int
      BY OrderBookAssumption, Zenon
    <2>2. IsFiniteSet(P)
      BY PricesCounted DEF Shows, SideOK
    <2>3. IsFiniteSet(T) /\ P \subseteq T
      BY Zenon DEF Shows
    <2> QED
      BY <2>1, <2>2, <2>3 DEF ToldOf
  <1>2. Cardinality(P) = Len(levels) /\ Len(levels) \in Nat /\ Len(levels) <= MaxDepth
        /\ MaxDepth \in Nat
    BY PricesCounted, OrderBookAssumption, LenProperties DEF Shows, SideOK
  <1>3. \A p \in T \ P : Len(levels) = MaxDepth /\ \A q \in P : Better(side, q, p)
    BY DEF Shows
  <1>4. \A i \in DOMAIN levels : levels[i].size = sizes[levels[i].price]
    BY DEF Shows, Rows
  <1> HIDE DEF T, P
  <1>5. ASSUME NEW p \in P PROVE Cardinality(ahead(p)) < MaxDepth
    <2>1. \A q \in ahead(p) : q \in P \ {p}
      <3> SUFFICES ASSUME NEW q \in T, Better(side, q, p) PROVE q \in P \ {p}
        OBVIOUS
      <3>1. p \in Int /\ q \in Int
        BY <1>1
      <3>2. ~Better(side, p, q) /\ q # p
        BY <3>1 DEF Better
      <3> QED
        BY <1>3, <3>2
    <2>2. IsFiniteSet(P \ {p}) /\ Cardinality(P \ {p}) = Cardinality(P) - 1
      BY <1>1, Without
    <2>3. ahead(p) \subseteq P \ {p}
      BY <2>1
    <2> HIDE DEF ahead
    <2>4. IsFiniteSet(ahead(p)) /\ Cardinality(ahead(p)) <= Cardinality(P \ {p})
      BY <2>2, <2>3, FS_Subset
    <2>5. Cardinality(ahead(p)) \in Nat
      BY <2>4, FS_CardinalityType
    <2> QED
      BY <1>2, <2>2, <2>4, <2>5
  <1>6. ASSUME NEW p \in T \ P PROVE ~(Cardinality(ahead(p)) < MaxDepth)
    <2>1. P \subseteq ahead(p) /\ ahead(p) \subseteq T /\ Len(levels) = MaxDepth
      BY <1>1, <1>3
    <2> HIDE DEF ahead
    <2>2. IsFiniteSet(ahead(p))
      BY <1>1, <2>1, FS_Subset
    <2>3. Cardinality(P) <= Cardinality(ahead(p)) /\ Cardinality(ahead(p)) \in Nat
      BY <2>1, <2>2, FS_Subset, FS_CardinalityType
    <2> QED
      BY <1>2, <2>1, <2>3
  <1>7. P = {p \in T : Cardinality(ahead(p)) < MaxDepth}
    <2> HIDE DEF ahead
    <2> QED
      BY <1>1, <1>5, <1>6
  <1> QED
    BY <1>4, <1>7 DEF T, P

(* The best price of a side, and no price of an empty one. *)
LEMMA BestIs ==
  ASSUME NEW side \in Side, NEW levels \in Seq(Row)
  PROVE  LET P == PricesOf(levels)
             best == Best(side, levels)
         IN  /\ IF P = {} THEN best = NoPrice ELSE best \in P
             /\ \A p \in P : p # best => Better(side, best, p)
             /\ best \in Nat /\ best \in Prices \cup {NoPrice}
             /\ P \subseteq Nat \ {0}
  <1> DEFINE P == PricesOf(levels)
             best == Best(side, levels)
  <1>1. P \subseteq Nat \ {0} /\ P \subseteq Prices /\ (P = {} <=> levels = <<>>) /\ IsFiniteSet(P)
    <2>1. Len(levels) = 0 <=> levels = <<>>
      BY EmptySeq
    <2> QED
      BY <2>1, PricesOfRows, PricesCounted
  <1>2. CASE P = {}
    <2>1. best = NoPrice
      BY <1>1, <1>2 DEF Best
    <2> QED
      BY <1>2, <2>1 DEF NoPrice
  <1>3. CASE P # {}
    <2>1. best = IF side = "bids" THEN Max(P) ELSE Min(P)
      BY <1>1, <1>3 DEF Best
    <2> HIDE DEF P, best
    <2>2. P \subseteq Int /\ P \subseteq Nat
      BY <1>1
    <2>3. /\ Max(P) \in P /\ \A y \in P : Max(P) >= y
          /\ Min(P) \in P /\ \A y \in P : Min(P) <= y
      BY <1>1, <1>3, <2>2, MaxIs, Least
    <2>4. best \in P
      BY <2>1, <2>3
    <2>5. ASSUME NEW p \in P, p # best PROVE Better(side, best, p)
      <3>1. p \in Int /\ best \in Int
        BY <2>2, <2>4
      <3> QED
        BY <2>1, <2>3, <2>5, <3>1 DEF Better
    <2>6. best \in Nat /\ best \in Prices
      BY <1>1, <2>2, <2>4
    <2> QED
      BY <1>1, <1>3, <2>4, <2>5, <2>6 DEF P, best
  <1> QED
    BY <1>2, <1>3

(* The metrics of two sides: the best prices, and a spread where both are there
   and do not cross. *)
LEMMA MeasuredWell ==
  ASSUME NEW bids \in Seq(Row), NEW asks \in Seq(Row)
  PROVE  LET book == Measured(bids, asks)
             B == PricesOf(bids)
             A == PricesOf(asks)
         IN  /\ book.bids = bids /\ book.asks = asks
             /\ \A p \in B : p <= book.bid
             /\ \A p \in A : p >= book.ask
             /\ book.bid \in B \cup {NoPrice} /\ book.ask \in A \cup {NoPrice}
             /\ book.bid \in Nat /\ book.ask \in Nat /\ book.spread \in Nat
             /\ book.bid \in Prices \cup {NoPrice} /\ book.ask \in Prices \cup {NoPrice}
             /\ book.spread > 0 <=> B # {} /\ A # {} /\ \A b \in B, a \in A : a > b
             /\ book.spread = Spread(book.bid, book.ask)
  <1> DEFINE book == Measured(bids, asks)
             B == PricesOf(bids)
             A == PricesOf(asks)
             bid == Best("bids", bids)
             ask == Best("asks", asks)
  <1>1. book.bids = bids /\ book.asks = asks /\ book.bid = bid /\ book.ask = ask
        /\ book.spread = Spread(bid, ask)
    BY DEF Measured
  <1>2. "bids" \in Side /\ "asks" \in Side
    BY DEF Side
  <1>3. /\ IF B = {} THEN bid = NoPrice ELSE bid \in B
        /\ \A p \in B : p # bid => Better("bids", bid, p)
        /\ bid \in Nat /\ bid \in Prices \cup {NoPrice} /\ B \subseteq Nat \ {0}
    BY <1>2, BestIs
  <1>4. /\ IF A = {} THEN ask = NoPrice ELSE ask \in A
        /\ \A p \in A : p # ask => Better("asks", ask, p)
        /\ ask \in Nat /\ ask \in Prices \cup {NoPrice} /\ A \subseteq Nat \ {0}
    BY <1>2, BestIs
  <1> HIDE DEF book, B, A, bid, ask
  <1>5. \A p \in B : p <= bid
    BY <1>3 DEF Better
  <1>6. \A p \in A : p >= ask
    BY <1>4 DEF Better
  <1>7. Spread(bid, ask) \in Nat
    BY <1>3, <1>4 DEF Spread, NoPrice
  <1>8. Spread(bid, ask) > 0 <=> bid # NoPrice /\ ask # NoPrice /\ ask > bid
    BY <1>3, <1>4 DEF Spread, NoPrice
  <1>9. (bid # NoPrice <=> B # {}) /\ (ask # NoPrice <=> A # {})
    BY <1>3, <1>4 DEF NoPrice
  <1>10. ASSUME B # {}, A # {}
         PROVE ask > bid <=> \A b \in B, a \in A : a > b
    <2>1. bid \in B /\ ask \in A
      BY <1>3, <1>4, <1>10
    <2>2. ASSUME ask > bid, NEW b \in B, NEW a \in A PROVE a > b
      <3>1. a \in Nat /\ b \in Nat /\ a >= ask /\ b <= bid
        BY <1>3, <1>4, <1>5, <1>6
      <3> QED
        BY <1>3, <1>4, <2>2, <3>1
    <2> QED
      BY <2>1, <2>2
  <1>11. Spread(bid, ask) > 0 <=> B # {} /\ A # {} /\ \A b \in B, a \in A : a > b
    BY <1>8, <1>9, <1>10, Zenon
  <1>12. bid \in B \cup {NoPrice} /\ ask \in A \cup {NoPrice}
    BY <1>3, <1>4
  <1>13. /\ book.bids = bids /\ book.asks = asks
         /\ \A p \in B : p <= book.bid
         /\ \A p \in A : p >= book.ask
    BY <1>1, <1>5, <1>6
  <1>14. /\ book.bid \in B \cup {NoPrice} /\ book.ask \in A \cup {NoPrice}
         /\ book.bid \in Nat /\ book.ask \in Nat /\ book.spread \in Nat
         /\ book.bid \in Prices \cup {NoPrice} /\ book.ask \in Prices \cup {NoPrice}
    BY <1>1, <1>3, <1>4, <1>7, <1>12
  <1>15. book.spread > 0 <=> B # {} /\ A # {} /\ \A b \in B, a \in A : a > b
    BY <1>1, <1>11
  <1>16. book.spread = Spread(book.bid, book.ask)
    BY <1>1
  <1> QED
    BY <1>13, <1>14, <1>15, <1>16 DEF book, B, A

LEMMA SidesKept ==
  ASSUME OBInv, NEW t \in DOMAIN books
  PROVE  SideOK(books[t].bids) /\ SideOK(books[t].asks)
  <1>1. CASE t \in DOMAIN told
    BY <1>1 DEF OBInv, Heeded, Shows
  <1>2. CASE t \notin DOMAIN told
    <2>1. books[t].bids = <<>> /\ books[t].asks = <<>>
      BY <1>2 DEF OBInv, NoBook
    <2>2. SideOK(<<>>)
      <3>1. "bids" \in Side
        BY DEF Side
      <3> QED
        BY <3>1, NothingShown DEF Shows
    <2> QED
      BY <2>1, <2>2
  <1> QED
    BY <1>1, <1>2

(* The metrics of every book. *)
LEMMA BooksMeasured ==
  ASSUME OBInv, NEW t \in DOMAIN books
  PROVE  LET book == books[t]
             B == PricesOf(book.bids)
             A == PricesOf(book.asks)
         IN  /\ \A p \in B : p <= book.bid
             /\ \A p \in A : p >= book.ask
             /\ book.bid \in B \cup {NoPrice} /\ book.ask \in A \cup {NoPrice}
             /\ book.bid \in Nat /\ book.ask \in Nat /\ book.spread \in Nat
             /\ book.bid \in Prices \cup {NoPrice} /\ book.ask \in Prices \cup {NoPrice}
             /\ book.spread > 0 <=> B # {} /\ A # {} /\ \A b \in B, a \in A : a > b
             /\ book.spread = Spread(book.bid, book.ask)
  <1>1. books[t].bids \in Seq(Row) /\ books[t].asks \in Seq(Row)
    BY SidesKept DEF SideOK
  <1>2. books[t] = Measured(books[t].bids, books[t].asks)
    BY DEF OBInv
  <1> QED
    BY <1>1, <1>2, MeasuredWell

LEMMA SideTyped ==
  ASSUME NEW levels, SideOK(levels)
  PROVE  /\ levels \in Seq(Level) /\ Len(levels) <= MaxDepth
         /\ Cardinality(PricesOf(levels)) = Len(levels)
  <1>1. Row \subseteq Level
    BY DEF Row, Level, Priced
  <1>2. levels \in Seq(Level)
    BY <1>1, SeqMonotonic DEF SideOK
  <1> QED
    BY <1>2, PricesCounted DEF SideOK

LEMMA BooksTyped == OBInv => TypeOK
  <1> SUFFICES ASSUME OBInv PROVE TypeOK
    OBVIOUS
  <1>1. ASSUME NEW t \in DOMAIN books, NEW s \in Side
        PROVE  /\ books[t][s] \in Seq(Level) /\ Len(books[t][s]) <= MaxDepth
               /\ Cardinality(PricesOf(books[t][s])) = Len(books[t][s])
    <2>1. SideOK(books[t].bids) /\ SideOK(books[t].asks)
      BY SidesKept
    <2>2. books[t][s] = books[t].bids \/ books[t][s] = books[t].asks
      BY DEF Side
    <2>3. SideOK(books[t][s])
      BY <2>1, <2>2
    <2> QED
      BY <2>3, SideTyped
  <1>2. ASSUME NEW t \in DOMAIN books
        PROVE  /\ \A m \in {"bid", "ask"} : books[t][m] \in Prices \cup {NoPrice}
               /\ books[t].spread \in Nat
    BY BooksMeasured
  <1> QED
    BY <1>1, <1>2 DEF TypeOK, OBInv

LEMMA BooksAreTheBest == OBInv => BookIsTheBestToldOf
  <1> SUFFICES ASSUME OBInv, NEW t \in DOMAIN told, NEW s \in Side
      PROVE LET prices == {p \in Prices : told[t][s][p] >= 0}
                ahead(p) == Cardinality({q \in prices : Better(s, q, p)})
            IN  /\ PricesOf(books[t][s]) = {p \in prices : ahead(p) < MaxDepth}
                /\ \A i \in DOMAIN books[t][s] :
                     books[t][s][i].size = told[t][s][books[t][s][i].price]
    BY DEF BookIsTheBestToldOf
  <1>1. Shows(s, books[t][s], told[t][s])
    BY DEF OBInv, Heeded, Side
  <1> QED
    BY <1>1, BestShown DEF ToldOf

LEMMA Times ==
  ASSUME NEW a \in Nat \ {0}, NEW b \in Nat \ {0}
  PROVE  a * b > 0
  OBVIOUS

LEMMA SpreadsSeen == OBInv => OpportunityHasASpread
  <1> SUFFICES ASSUME OBInv, NEW t \in Tokens, Opportunity(t)
               PROVE books[t].spread > 0 /\ books[t].spread = books[t].ask - books[t].bid
    BY DEF OpportunityHasASpread
  <1>1. t \in DOMAIN books /\ BookOf(t) = books[t]
    BY DEF Opportunity, BookOf, Known, NoBook, NoPrice
  <1> DEFINE bid == books[t].bid
             ask == books[t].ask
  <1>2. bid \in Nat /\ ask \in Nat /\ books[t].spread = Spread(bid, ask)
    BY <1>1, BooksMeasured
  <1>3. bid # NoPrice /\ ask # NoPrice /\ MinPct * bid <= 100 * (ask - bid)
    BY <1>1 DEF Opportunity
  <1> HIDE DEF bid, ask
  <1>4. MinPct \in Nat \ {0} /\ bid \in Nat \ {0}
    BY <1>2, <1>3, OrderBookAssumption DEF NoPrice
  <1>5. MinPct * bid > 0 /\ MinPct * bid \in Int
    BY <1>4, Times
  <1>6. ask > bid
    BY <1>2, <1>3, <1>5
  <1> QED
    BY <1>2, <1>3, <1>6 DEF Spread, bid, ask

LEMMA SilenceIsStale == OBInv => AskingIsNotHearing
  <1> SUFFICES ASSUME OBInv, NEW t \in Tokens \ DOMAIN told
               PROVE IsStale(t) /\ BookOf(t) = NoBook
    BY DEF AskingIsNotHearing
  <1>1. BookOf(t) = NoBook /\ LastOf(t) = Never
    BY DEF OBInv, BookOf, LastOf, Known, Silent
  <1>2. now \in Nat /\ StaleAfter \in Nat
    BY OrderBookAssumption DEF OBInv
  <1> QED
    BY <1>1, <1>2 DEF IsStale, Never

(* What OBInv is for. *)
LEMMA BooksTold == OBInv => BookInv
  <1> SUFFICES ASSUME OBInv PROVE BookInv
    OBVIOUS
  <1>1. MetricsOfTheLevels
    BY BooksMeasured DEF MetricsOfTheLevels
  <1> QED
    BY <1>1, BooksTyped, BooksAreTheBest, SpreadsSeen, SilenceIsStale DEF BookInv

(* Every reachable state has the inductive invariant. *)
LEMMA BooksInductive == Spec => []OBInv
  <1> QED
    BY OBInit, OBNext, PTL DEF Spec

(* However many messages come, of whatever levels, in whatever order, and
   whenever a token is asked about: a side shows exactly the best MaxDepth of
   the prices told of it, each with the size told last, the metrics are those of
   the levels, no opportunity is seen but in a true spread, and a token nobody
   spoke of is stale and empty (update, book, evaluate). *)
THEOREM BooksAreKept == Spec => []BookInv
  <1> QED
    BY BooksInductive, BooksTold, PTL

-----------------------------------------------------------------------------
(* Pricing: what a walk holds after each level. *)

Least2(a, b) == IF a <= b THEN a ELSE b

LEMMA MinOfTwo ==
  ASSUME NEW a \in Int, NEW b \in Int
  PROVE  Min({a, b}) = Least2(a, b)
  BY DEF Min, Least2

LEMMA Scaled ==
  ASSUME NEW a \in Nat, NEW b \in Nat, a <= b, NEW c \in Nat
  PROVE  a * c <= b * c /\ a * c \in Nat /\ b * c \in Nat
  <1> DEFINE d == b - a
  <1>1. d \in Nat /\ b = a + d
    OBVIOUS
  <1>2. d * c \in Nat /\ a * c \in Nat
    BY <1>1
  <1>3. b * c = a * c + d * c
    BY <1>1
  <1> HIDE DEF d
  <1> QED
    BY <1>2, <1>3

Walks(q) == [filled : 0..q, cost : Nat, walked : Nat]

(* One level: it gives what is still wanted of it, at its price, and a walk that
   is done takes no more. *)
LEMMA TakeWell ==
  ASSUME NEW q \in Nat, NEW w \in Walks(q), NEW level \in Row
  PROVE  LET v == Take(w, level, q)
         IN  /\ v \in Walks(q) /\ v.filled >= w.filled
             /\ v.cost = w.cost + level.price * (v.filled - w.filled)
             /\ v.filled = IF Done(w, q) THEN w.filled ELSE w.filled + Least2(level.size, q - w.filled)
             /\ v.walked > 0 <=> w.walked > 0 \/ level.size > 0
  <1>1. w.filled \in 0..q /\ w.cost \in Nat /\ w.walked \in Nat
    BY DEF Walks
  <1>2. level.price \in Nat /\ level.size \in Nat
    BY RowTyped
  <1> DEFINE fill == Least2(level.size, q - w.filled)
             v == Take(w, level, q)
  <1>3. fill \in Nat /\ w.filled + fill \in 0..q /\ (level.size = 0 => fill = 0)
    BY <1>1, <1>2 DEF Least2
  <1>4. level.price * fill \in Nat /\ level.price * 0 = 0
    BY <1>2, <1>3
  <1>5. CASE level.size <= 0 \/ Done(w, q)
    <2>1. v = w
      BY <1>5 DEF Take
    <2>2. v.filled - w.filled = 0
      BY <1>1, <2>1
    <2>3. v.cost = w.cost + level.price * (v.filled - w.filled)
      BY <1>1, <1>4, <2>1, <2>2
    <2>4. v.walked > 0 <=> w.walked > 0 \/ level.size > 0
      BY <1>1, <1>2, <1>5, <2>1 DEF Done
    <2>5. v.filled = IF Done(w, q) THEN w.filled ELSE w.filled + fill
      <3>1. Done(w, q) \/ fill = 0
        BY <1>2, <1>3, <1>5
      <3> QED
        BY <1>1, <2>1, <3>1
    <2> QED
      BY <1>1, <2>1, <2>3, <2>4, <2>5
  <1>6. CASE ~(level.size <= 0 \/ Done(w, q))
    <2>1. v = Filling(w, level, fill)
      <3>1. Min({level.size, q - w.filled}) = fill
        BY <1>1, <1>2, MinOfTwo
      <3> QED
        BY <1>6, <3>1 DEF Take
    <2> HIDE DEF fill, v
    <2>2. /\ v.filled = w.filled + fill /\ v.cost = w.cost + level.price * fill
          /\ v.walked = w.walked + 1
          /\ v = [filled |-> w.filled + fill, cost |-> w.cost + level.price * fill,
                  walked |-> w.walked + 1]
      BY <2>1 DEF Filling
    <2>3. v.filled - w.filled = fill
      BY <1>1, <1>3, <2>2
    <2>4. v \in Walks(q) /\ v.filled >= w.filled
      <3>1. w.cost + level.price * fill \in Nat /\ w.walked + 1 \in Nat
        BY <1>1, <1>4
      <3> QED
        BY <1>1, <1>3, <2>2, <3>1 DEF Walks
    <2>5. v.walked > 0 /\ level.size > 0
      BY <1>1, <1>2, <1>6, <2>2
    <2> QED
      BY <1>6, <2>2, <2>3, <2>4, <2>5 DEF fill, v
  <1> QED
    BY <1>5, <1>6

(* A walk and the depth it has passed: it holds as much as there was, up to the
   quantity, at prices between the least and the greatest. *)
WalkedTo(w, q, depth, least, greatest) ==
  /\ w \in Walks(q) /\ depth \in Nat
  /\ w.filled = Least2(q, depth)
  /\ w.walked > 0 <=> depth > 0
  /\ least * w.filled <= w.cost /\ w.cost <= greatest * w.filled

LEMMA TakeStep ==
  ASSUME NEW q \in Nat, NEW w, NEW depth, NEW level \in Row, NEW lo \in Nat, NEW hi \in Nat,
         WalkedTo(w, q, depth, lo, hi), lo <= level.price, level.price <= hi
  PROVE  WalkedTo(Take(w, level, q), q, depth + level.size, lo, hi)
  <1> DEFINE v == Take(w, level, q)
             more == v.filled - w.filled
  <1>1. /\ v \in Walks(q) /\ v.filled >= w.filled
        /\ v.cost = w.cost + level.price * more
        /\ v.filled = IF Done(w, q) THEN w.filled ELSE w.filled + Least2(level.size, q - w.filled)
        /\ v.walked > 0 <=> w.walked > 0 \/ level.size > 0
    BY TakeWell DEF WalkedTo
  <1>2. /\ w.filled \in Nat /\ w.cost \in Nat /\ w.walked \in Nat
        /\ v.filled \in Nat /\ v.cost \in Nat /\ v.walked \in Nat
    BY <1>1 DEF Walks, WalkedTo
  <1>3. level.price \in Nat /\ level.size \in Nat /\ depth \in Nat
    BY RowTyped DEF WalkedTo
  <1>4. more \in Nat /\ v.filled = w.filled + more
    BY <1>1, <1>2
  <1> HIDE DEF v, more
  <1>5. v.filled = Least2(q, depth + level.size)
    BY <1>1, <1>2, <1>3 DEF Least2, Done, WalkedTo
  <1>6. v.walked > 0 <=> depth + level.size > 0
    BY <1>1, <1>3 DEF WalkedTo
  <1>7. lo * more <= level.price * more /\ level.price * more <= hi * more
        /\ lo * more \in Nat /\ level.price * more \in Nat /\ hi * more \in Nat
    BY <1>3, <1>4, Scaled
  <1>8. lo * v.filled = lo * w.filled + lo * more /\ hi * v.filled = hi * w.filled + hi * more
        /\ lo * w.filled \in Nat /\ hi * w.filled \in Nat
    BY <1>2, <1>4
  <1>9. lo * w.filled <= w.cost /\ w.cost <= hi * w.filled
    BY DEF WalkedTo
  <1>10. lo * v.filled <= v.cost /\ v.cost <= hi * v.filled
    BY <1>1, <1>2, <1>7, <1>8, <1>9
  <1> QED
    BY <1>1, <1>3, <1>5, <1>6, <1>10 DEF WalkedTo, v

(* A whole walk, and one for more beside it. *)
LEMMA WalkWell ==
  ASSUME NEW levels \in Seq(Row), NEW q \in Nat, NEW more \in Nat, q <= more,
         NEW lo \in Nat, NEW hi \in Nat,
         \A i \in 1..Len(levels) : lo <= levels[i].price /\ levels[i].price <= hi
  PROVE  /\ WalkedTo(Walk(levels, q), q, Depth(levels), lo, hi)
         /\ WalkedTo(Walk(levels, more), more, Depth(levels), lo, hi)
         /\ Walk(levels, q).cost <= Walk(levels, more).cost
  <1> DEFINE n == Len(levels)
  <1>1. n \in Nat /\ \A k \in 1..n : levels[k] \in Row
    BY LenProperties, ElementOfSeq
  <1>2. \A x \in Nat : Nothing \in Walks(x) /\ \A w \in Walks(x), l \in Row : Take(w, l, x) \in Walks(x)
    <2>1. \A x \in Nat : Nothing \in Walks(x)
      BY DEF Nothing, Walks
    <2> QED
      BY <2>1, TakeWell
  <1>3. PICK h : TakeHistory(h, levels, q, Walks(q))
    BY <1>2, WalkSteps
  <1>4. PICK f : TakeHistory(f, levels, more, Walks(more))
    BY <1>2, WalkSteps
  <1>5. \A r \in Row : r.size \in Nat /\ r.price \in Nat
    BY RowTyped
  <1>6. PICK d : DepthHistory(d, levels, Nat)
    <2>1. \A x \in Nat, r \in Row : x + r.size \in Nat
      BY <1>5
    <2> QED
      BY <2>1, DepthSteps
  <1> DEFINE K == {k \in 0..n : /\ WalkedTo(h[k], q, d[k], lo, hi)
                                /\ WalkedTo(f[k], more, d[k], lo, hi)
                                /\ h[k].cost <= f[k].cost}
  <1>7. 0 \in K
    <2>1. h[0] = Nothing /\ f[0] = Nothing /\ d[0] = 0
      BY <1>3, <1>4, <1>6 DEF TakeHistory, DepthHistory
    <2>2. \A x \in Nat : WalkedTo(Nothing, x, 0, lo, hi)
      <3>1. Nothing.filled = 0 /\ Nothing.cost = 0 /\ Nothing.walked = 0
        BY DEF Nothing
      <3>2. \A x \in Nat : Least2(x, 0) = 0
        BY DEF Least2
      <3>3. lo * 0 = 0 /\ hi * 0 = 0
        OBVIOUS
      <3> QED
        BY <1>2, <3>1, <3>2, <3>3 DEF WalkedTo
    <2>3. Nothing.cost <= Nothing.cost
      BY DEF Nothing
    <2> QED
      BY <1>1, <2>1, <2>2, <2>3
  <1>8. ASSUME NEW k \in 0 .. n - 1, k \in K PROVE k + 1 \in K
    <2> DEFINE level == levels[k + 1]
    <2>1. k + 1 \in 0..n /\ k + 1 \in 1..n
      BY <1>1
    <2>2. level \in Row /\ lo <= level.price /\ level.price <= hi
      BY <1>1, <2>1
    <2>3. h[k + 1] = Take(h[k], level, q) /\ f[k + 1] = Take(f[k], level, more)
          /\ d[k + 1] = d[k] + level.size
      BY <1>3, <1>4, <1>6 DEF TakeHistory, DepthHistory
    <2> HIDE DEF level
    <2>4. WalkedTo(h[k], q, d[k], lo, hi) /\ WalkedTo(f[k], more, d[k], lo, hi) /\ h[k].cost <= f[k].cost
      BY <1>8
    <2>5. WalkedTo(h[k + 1], q, d[k + 1], lo, hi) /\ WalkedTo(f[k + 1], more, d[k + 1], lo, hi)
      BY <2>2, <2>3, <2>4, TakeStep
    <2>6. h[k + 1].cost <= f[k + 1].cost
      <3> DEFINE a == h[k + 1].filled - h[k].filled
                 b == f[k + 1].filled - f[k].filled
      <3>1. /\ h[k] \in Walks(q) /\ f[k] \in Walks(more)
            /\ h[k + 1] \in Walks(q) /\ f[k + 1] \in Walks(more)
            /\ d[k] \in Nat /\ level.size \in Nat /\ level.price \in Nat
        BY <1>5, <2>2, <2>4, <2>5 DEF WalkedTo
      <3>2. /\ h[k].filled = Least2(q, d[k]) /\ f[k].filled = Least2(more, d[k])
            /\ h[k + 1].filled = Least2(q, d[k] + level.size)
            /\ f[k + 1].filled = Least2(more, d[k] + level.size)
        BY <2>3, <2>4, <2>5 DEF WalkedTo
      <3>3. h[k + 1].cost = h[k].cost + level.price * a /\ f[k + 1].cost = f[k].cost + level.price * b
        <4>1. LET v == Take(h[k], level, q)
              IN  v.cost = h[k].cost + level.price * (v.filled - h[k].filled)
          BY <2>2, <3>1, TakeWell
        <4>2. LET v == Take(f[k], level, more)
              IN  v.cost = f[k].cost + level.price * (v.filled - f[k].filled)
          BY <2>2, <3>1, TakeWell
        <4> QED
          BY <2>3, <4>1, <4>2
      <3>4. a \in Nat /\ b \in Nat /\ a <= b
        BY <3>1, <3>2 DEF Least2
      <3>5. h[k].cost \in Nat /\ f[k].cost \in Nat
        BY <3>1 DEF Walks
      <3> HIDE DEF a, b
      <3>6. a * level.price <= b * level.price
        BY <3>1, <3>4, Scaled
      <3>7. level.price * a = a * level.price /\ level.price * b = b * level.price
            /\ level.price * a \in Int /\ level.price * b \in Int
        BY <3>1, <3>4
      <3> QED
        BY <2>4, <3>3, <3>5, <3>6, <3>7
    <2> QED
      BY <2>1, <2>5, <2>6
  <1>9. n \in K
    <2>1. 0..n \subseteq K
      <3> HIDE DEF K
      <3> QED
        BY <1>1, <1>7, <1>8, InductUpto
    <2> QED
      BY <1>1, <2>1
  <1> QED
    BY <1>3, <1>4, <1>6, <1>9 DEF TakeHistory, DepthHistory

(* A price is read from the walk. *)
LEMMA PriceWell ==
  ASSUME OBInv, NEW t \in Tokens, NEW outcome \in {"YES", "NO"}, NEW q \in Nat
  PROVE  LET levels == IF outcome = "YES" THEN BookOf(t).asks ELSE BookOf(t).bids
             price  == Executable(t, outcome, q)
         IN  /\ levels \in Seq(Row) /\ Depth(levels) \in Nat
             /\ price.filled = Min({q, Depth(levels)})
             /\ price.remaining = q - price.filled /\ price.remaining >= 0
             /\ price.status = "FILLED" <=> Depth(levels) > 0 /\ Depth(levels) >= q
             /\ price.filled > 0 =>
                  /\ price.cost >= Min(PricesOf(levels)) * price.filled
                  /\ price.cost <= Max(PricesOf(levels)) * price.filled
             /\ \A more \in Nat : more >= q => Executable(t, outcome, more).cost >= price.cost
  <1> DEFINE levels == IF outcome = "YES" THEN BookOf(t).asks ELSE BookOf(t).bids
             price == Executable(t, outcome, q)
             w == Walk(levels, q)
             P == PricesOf(levels)
  <1>1. levels \in Seq(Row)
    <2>1. CASE t \in DOMAIN books
      BY <2>1, SidesKept DEF BookOf, Known, SideOK
    <2>2. CASE t \notin DOMAIN books
      BY <2>2, EmptySeq DEF BookOf, Known, NoBook
    <2> QED
      BY <2>1, <2>2
  <1>2. /\ price.filled = w.filled /\ price.cost = w.cost /\ price.remaining = q - w.filled
        /\ price.status = IF Done(w, q) THEN "FILLED"
                          ELSE IF w.filled > 0 THEN "PARTIAL" ELSE "NO_LIQUIDITY"
        /\ \A more \in Nat : Executable(t, outcome, more).cost = Walk(levels, more).cost
    BY DEF Executable
  <1> HIDE DEF levels, price
  <1>3. /\ P \subseteq Nat \ {0} /\ IsFiniteSet(P) /\ (P = {} <=> Len(levels) = 0)
        /\ \A i \in 1..Len(levels) : levels[i].price \in P
    BY <1>1, PricesOfRows, PricesCounted
  <1> DEFINE lo == IF P = {} THEN 0 ELSE Min(P)
             hi == IF P = {} THEN 0 ELSE Max(P)
  <1>4. lo \in Nat /\ hi \in Nat /\ \A p \in P : lo <= p /\ p <= hi
    <2> HIDE DEF P
    <2>1. P \subseteq Nat /\ P \subseteq Int
      BY <1>3
    <2>2. CASE P = {}
      BY <2>2
    <2>3. CASE P # {}
      <3>1. Min(P) \in P /\ Max(P) \in P /\ (\A y \in P : Max(P) >= y) /\ \A y \in P : Min(P) <= y
        BY <1>3, <2>1, <2>3, MaxIs, Least
      <3>2. \A p \in P : p \in Nat
        BY <2>1
      <3> QED
        BY <2>3, <3>1, <3>2
    <2> QED
      BY <2>2, <2>3
  <1>5. \A i \in 1..Len(levels) : lo <= levels[i].price /\ levels[i].price <= hi
    BY <1>3, <1>4
  <1> HIDE DEF lo, hi, P, w
  <1>6. WalkedTo(w, q, Depth(levels), lo, hi)
    <2>1. q <= q
      OBVIOUS
    <2> QED
      BY <1>1, <1>4, <1>5, <2>1, WalkWell DEF w
  <1>7. \A more \in Nat : more >= q => w.cost <= Walk(levels, more).cost
    <2> SUFFICES ASSUME NEW more \in Nat, more >= q PROVE w.cost <= Walk(levels, more).cost
      OBVIOUS
    <2>1. q <= more
      OBVIOUS
    <2> QED
      BY <1>1, <1>4, <1>5, <2>1, WalkWell DEF w
  <1>8. /\ w.filled \in 0..q /\ w.cost \in Nat /\ w.walked \in Nat /\ Depth(levels) \in Nat
        /\ w.filled = Least2(q, Depth(levels)) /\ (w.walked > 0 <=> Depth(levels) > 0)
        /\ lo * w.filled <= w.cost /\ w.cost <= hi * w.filled
    BY <1>6 DEF WalkedTo, Walks
  <1>9. price.filled = Min({q, Depth(levels)})
    BY <1>2, <1>8, MinOfTwo
  <1>10. price.remaining = q - price.filled /\ price.remaining >= 0
    BY <1>2, <1>8
  <1>11. price.status = "FILLED" <=> Depth(levels) > 0 /\ Depth(levels) >= q
    <2>1. Done(w, q) <=> Depth(levels) > 0 /\ Depth(levels) >= q
      BY <1>8 DEF Done, Least2
    <2> QED
      BY <1>2, <2>1
  <1>12. price.filled > 0 => price.cost >= Min(P) * price.filled /\ price.cost <= Max(P) * price.filled
    <2> SUFFICES ASSUME price.filled > 0
                 PROVE  price.cost >= Min(P) * price.filled /\ price.cost <= Max(P) * price.filled
      OBVIOUS
    <2>1. CASE P = {}
      <3>1. lo = 0 /\ hi = 0
        BY <2>1 DEF lo, hi
      <3>2. Len(levels) = 0
        BY <1>3, <2>1
      <3>3. Depth(levels) = 0
        <4>1. PICK d : DepthHistory(d, levels, Nat)
          <5>1. \A x \in Nat, r \in Row : x + r.size \in Nat
            BY RowTyped
          <5> QED
            BY <1>1, <5>1, DepthSteps
        <4> QED
          BY <3>2, <4>1 DEF DepthHistory
      <3> QED
        BY <1>2, <1>8, <3>3 DEF Least2
    <2>2. CASE P # {}
      BY <1>2, <1>8, <2>2 DEF lo, hi
    <2> QED
      BY <2>1, <2>2
  <1>13. \A more \in Nat : more >= q => Executable(t, outcome, more).cost >= price.cost
    <2> SUFFICES ASSUME NEW more \in Nat, more >= q
                 PROVE  Executable(t, outcome, more).cost >= price.cost
      OBVIOUS
    <2>1. Executable(t, outcome, more).cost = Walk(levels, more).cost /\ price.cost = w.cost
      BY <1>2
    <2>2. w.cost <= Walk(levels, more).cost
      BY <1>7
    <2>3. w.cost \in Nat /\ Walk(levels, more).cost \in Nat
      BY <1>1, <1>4, <1>5, <1>8, WalkWell DEF WalkedTo, Walks
    <2> QED
      BY <2>1, <2>2, <2>3
  <1> QED
    BY <1>1, <1>8, <1>9, <1>10, <1>11, <1>12, <1>13 DEF levels, price, P

LEMMA WalksTold == OBInv => WalkFillsTheDepth
  <1> SUFFICES ASSUME OBInv, NEW t \in Tokens, NEW outcome \in {"YES", "NO"}, NEW q \in Quantities
      PROVE LET levels == IF outcome = "YES" THEN BookOf(t).asks ELSE BookOf(t).bids
                price  == Executable(t, outcome, q)
            IN  /\ price.filled = Min({q, Depth(levels)})
                /\ price.remaining = q - price.filled /\ price.remaining >= 0
                /\ price.status = "FILLED" <=> Depth(levels) > 0 /\ Depth(levels) >= q
                /\ price.filled > 0 =>
                     /\ price.cost >= Min(PricesOf(levels)) * price.filled
                     /\ price.cost <= Max(PricesOf(levels)) * price.filled
                /\ \A more \in Quantities :
                     /\ more >= q => Executable(t, outcome, more).cost >= price.cost
                     /\ Combined(q, more).status = "SUFFICIENT_LIQUIDITY" =>
                          /\ Depth(BookOf(UNKNOWN).asks) >= q
                          /\ Depth(BookOf(UNKNOWN).bids) >= more
    BY DEF WalkFillsTheDepth
  <1>1. Quantities \subseteq Nat /\ q \in Nat /\ UNKNOWN \in Tokens
    BY OrderBookAssumption
  <1>2. ASSUME NEW more \in Quantities, Combined(q, more).status = "SUFFICIENT_LIQUIDITY"
        PROVE  Depth(BookOf(UNKNOWN).asks) >= q /\ Depth(BookOf(UNKNOWN).bids) >= more
    <2>1. /\ Executable(UNKNOWN, "YES", q).status = "FILLED"
          /\ Executable(UNKNOWN, "NO", more).status = "FILLED"
      BY <1>2 DEF Combined
    <2>2. more \in Nat
      BY <1>1
    <2>3. Depth(BookOf(UNKNOWN).asks) >= q
      BY <1>1, <2>1, PriceWell
    <2>4. Depth(BookOf(UNKNOWN).bids) >= more
      BY <1>1, <2>1, <2>2, PriceWell
    <2> QED
      BY <2>3, <2>4
  <1> QED
    BY <1>1, <1>2, PriceWell

(* A walk fills what the side holds up to the quantity, for any levels in any
   order, says FILLED when that is all of it, pays for each unit a price of the
   side and never less in total for more; both legs of a combined cost suffice
   only if each side holds its quantity (_walk_levels, combined_yes_no_cost). *)
THEOREM WalksFillTheDepth == Spec => []WalkFillsTheDepth
  <1> QED
    BY BooksInductive, WalksTold, PTL
=============================================================================
