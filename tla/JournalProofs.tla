----------------------------- MODULE JournalProofs -----------------------------
(***************************************************************************)
(* The invariant of a judged decision and what a YES about its entry means,*)
(* for windows of any length, candles and prices of any size and any       *)
(* target.  The mean true range is a sum over a window of any length: what *)
(* is needed of it, that it is a natural number and 0 on a flat window,    *)
(* goes by induction over the subsets of the window.                       *)
(***************************************************************************)
EXTENDS Journal, FiniteSetTheorems, WellFoundedInduction, TLAPS

(* Induction over the naturals, for a set. *)
LEMMA Induct ==
  ASSUME NEW S, 0 \in S, \A n \in Nat : n \in S => n + 1 \in S
  PROVE  Nat \subseteq S
  <1> DEFINE T == Nat \ S
  <1>1. SUFFICES ASSUME T # {} PROVE FALSE
    OBVIOUS
  <1>2. PICK m \in T : \A k \in T : <<k, m>> \notin OpToRel(<, Nat)
    BY <1>1, NatLessThanWellFounded, WFMin, Zenon
  <1>3. \A k \in T : ~(k < m)
    BY <1>2 DEF OpToRel
  <1> QED
    BY <1>3

(* A sum in whatever order: F holds the sums of the subsets of S. *)
Sums(F, S, f, pick) ==
  F = [T \in SUBSET S |-> IF T = {} THEN 0 ELSE f[pick[T]] + F[T \ {pick[T]}]]

(* One element less. *)
LEMMA Without ==
  ASSUME NEW T, IsFiniteSet(T), NEW x \in T
  PROVE  /\ IsFiniteSet(T \ {x}) /\ Cardinality(T \ {x}) = Cardinality(T) - 1
         /\ Cardinality(T) \in Nat \ {0} /\ Cardinality(T \ {x}) \in Nat
  <1>1. IsFiniteSet(T \ {x}) /\ Cardinality(T \ {x}) = Cardinality(T) - 1
    BY FS_RemoveElement
  <1>2. Cardinality(T) \in Nat /\ Cardinality(T \ {x}) \in Nat
    BY <1>1, FS_CardinalityType
  <1>3. Cardinality(T) # 0
    BY FS_EmptySet
  <1> QED
    BY <1>1, <1>2, <1>3

(* The recursive definition of a sum has a solution, by the size of the set. *)
LEMMA SumsExist ==
  ASSUME NEW S, IsFiniteSet(S), NEW f, NEW pick, \A T \in SUBSET S : T # {} => pick[T] \in T
  PROVE  \E F : Sums(F, S, f, pick)
  <1> DEFINE Upto(n) == {T \in SUBSET S : Cardinality(T) <= n}
             By(F, n) == F = [T \in Upto(n) |-> IF T = {} THEN 0 ELSE f[pick[T]] + F[T \ {pick[T]}]]
             K == {n \in Nat : \E F : By(F, n)}
  <1>1. \A T \in SUBSET S : IsFiniteSet(T) /\ Cardinality(T) \in Nat
    BY FS_Subset, FS_CardinalityType
  <1>2. \A T \in SUBSET S : T # {} =>
          /\ T \ {pick[T]} \in SUBSET S
          /\ Cardinality(T \ {pick[T]}) = Cardinality(T) - 1 /\ Cardinality(T) > 0
    BY <1>1, Without
  <1>3. 0 \in K
    <2> DEFINE G == [T \in Upto(0) |-> 0]
    <2>1. ASSUME NEW T \in Upto(0) PROVE T = {}
      <3>1. IsFiniteSet(T) /\ Cardinality(T) = 0
        BY <1>1, <2>1
      <3> QED
        BY <3>1, FS_EmptySet
    <2>2. By(G, 0)
      BY <2>1
    <2> HIDE DEF By, G
    <2> QED
      BY <2>2
  <1>4. ASSUME NEW n \in Nat, NEW F, By(F, n) PROVE \E G : By(G, n + 1)
    <2> DEFINE G == [T \in Upto(n + 1) |-> IF T = {} THEN 0 ELSE f[pick[T]] + F[T \ {pick[T]}]]
    <2>1. \A T \in Upto(n) : G[T] = F[T]
      <3>1. \A T \in Upto(n) : T \in Upto(n + 1)
        BY <1>1
      <3>2. \A T \in Upto(n) : F[T] = IF T = {} THEN 0 ELSE f[pick[T]] + F[T \ {pick[T]}]
        BY <1>4
      <3> QED
        BY <3>1, <3>2
    <2>2. \A T \in Upto(n + 1) : T # {} => T \ {pick[T]} \in Upto(n)
      BY <1>1, <1>2
    <2>3. \A T \in Upto(n + 1) : T # {} => G[T \ {pick[T]}] = F[T \ {pick[T]}]
      BY <2>1, <2>2
    <2>4. By(G, n + 1)
      BY <2>3
    <2> HIDE DEF By, G
    <2> QED
      BY <2>4
  <1>5. Nat \subseteq K
    <2> HIDE DEF By
    <2>1. \A n \in Nat : n \in K => n + 1 \in K
      BY <1>4
    <2> HIDE DEF K
    <2> QED
      BY <1>3, <2>1, Induct
  <1>6. PICK F : By(F, Cardinality(S))
    <2> HIDE DEF By
    <2>1. Cardinality(S) \in Nat
      BY <1>1
    <2> QED
      BY <1>5, <2>1
  <1>7. Upto(Cardinality(S)) = SUBSET S
    <2>1. \A T \in SUBSET S : Cardinality(T) <= Cardinality(S)
      BY FS_Subset
    <2> QED
      BY <2>1
  <1>8. F = [T \in SUBSET S |-> IF T = {} THEN 0 ELSE f[pick[T]] + F[T \ {pick[T]}]]
    BY <1>6, <1>7
  <1> QED
    BY <1>8 DEF Sums

(* Where every term keeps the sum in V, it is in V. *)
LEMMA SumsIn ==
  ASSUME NEW S, IsFiniteSet(S), NEW f, NEW pick, \A T \in SUBSET S : T # {} => pick[T] \in T,
         NEW F, Sums(F, S, f, pick), NEW V, 0 \in V, \A x \in S, v \in V : f[x] + v \in V
  PROVE  F[S] \in V
  <1> DEFINE K == {n \in Nat : \A T \in SUBSET S : Cardinality(T) = n => F[T] \in V}
  <1>1. \A T \in SUBSET S : IsFiniteSet(T) /\ Cardinality(T) \in Nat
    BY FS_Subset, FS_CardinalityType
  <1>2. \A T \in SUBSET S : T # {} =>
          /\ T \ {pick[T]} \in SUBSET S
          /\ Cardinality(T \ {pick[T]}) = Cardinality(T) - 1 /\ Cardinality(T) > 0
    BY <1>1, Without
  <1>3. \A T \in SUBSET S : F[T] = IF T = {} THEN 0 ELSE f[pick[T]] + F[T \ {pick[T]}]
    BY DEF Sums
  <1>4. 0 \in K
    <2>1. ASSUME NEW T \in SUBSET S, Cardinality(T) = 0 PROVE T = {}
      <3>1. IsFiniteSet(T)
        BY <1>1
      <3> QED
        BY <2>1, <3>1, FS_EmptySet
    <2> QED
      BY <1>3, <2>1
  <1>5. ASSUME NEW n \in Nat, n \in K PROVE n + 1 \in K
    <2> SUFFICES ASSUME NEW T \in SUBSET S, Cardinality(T) = n + 1 PROVE F[T] \in V
      OBVIOUS
    <2>1. T # {}
      <3>1. Cardinality(T) # 0
        OBVIOUS
      <3> QED
        BY <3>1, FS_EmptySet
    <2>2. F[T \ {pick[T]}] \in V
      BY <1>2, <1>5, <2>1
    <2>3. pick[T] \in S
      BY <2>1
    <2> QED
      BY <1>3, <2>1, <2>2, <2>3
  <1>6. Nat \subseteq K
    <2> HIDE DEF K
    <2> QED
      BY <1>4, <1>5, Induct
  <1> QED
    BY <1>1, <1>6

(* The same for the fold the model uses. *)
LEMMA FoldIn ==
  ASSUME NEW f, IsFiniteSet(DOMAIN f), NEW V, 0 \in V, \A x \in DOMAIN f, v \in V : f[x] + v \in V
  PROVE  FoldFunction(LAMBDA x, y : x + y, 0, f) \in V
  <1> DEFINE S == DOMAIN f
             pick == [T \in SUBSET S |-> CHOOSE x \in T : TRUE]
             D(F) == [s \in SUBSET S |->
                        IF s = {} THEN 0
                        ELSE f[CHOOSE x \in s : TRUE] + F[s \ {CHOOSE x \in s : TRUE}]]
             iter == CHOOSE F : F = D(F)
  <1>1. \A T \in SUBSET S : T # {} => pick[T] \in T
    OBVIOUS
  <1>2. \A F : Sums(F, S, f, pick) <=> F = D(F)
    BY DEF Sums
  <1>3. iter = D(iter)
    <2> HIDE DEF pick, D
    <2>1. \E F : F = D(F)
      BY <1>1, <1>2, SumsExist
    <2> QED
      BY <2>1, Zenon
  <1>4. FoldFunction(LAMBDA x, y : x + y, 0, f) = iter[S]
    BY DEF FoldFunction, FoldFunctionOnSet, MapThenFoldSet
  <1>5. Sums(iter, S, f, pick)
    BY <1>2, <1>3
  <1> HIDE DEF iter, pick
  <1>6. iter[S] \in V
    BY <1>1, <1>5, SumsIn
  <1> QED
    BY <1>4, <1>6

-----------------------------------------------------------------------------
(* Extremes of finite sets of integers. *)
LEMMA SomeHighest ==
  ASSUME NEW S, IsFiniteSet(S), S # {}, S \subseteq Int
  PROVE  \E x \in S : \A y \in S : x >= y
  <1> DEFINE K == {n \in Nat : \A T \in SUBSET S : Cardinality(T) = n /\ T # {} =>
                                  \E x \in T : \A y \in T : x >= y}
  <1>1. \A T \in SUBSET S : IsFiniteSet(T) /\ Cardinality(T) \in Nat
    BY FS_Subset, FS_CardinalityType
  <1>2. 0 \in K
    <2>1. ASSUME NEW T \in SUBSET S, Cardinality(T) = 0 PROVE T = {}
      <3>1. IsFiniteSet(T)
        BY <1>1
      <3> QED
        BY <2>1, <3>1, FS_EmptySet
    <2> QED
      BY <2>1
  <1>3. ASSUME NEW n \in Nat, n \in K PROVE n + 1 \in K
    <2> SUFFICES ASSUME NEW T \in SUBSET S, Cardinality(T) = n + 1, T # {}
                 PROVE  \E x \in T : \A y \in T : x >= y
      OBVIOUS
    <2>1. PICK z : z \in T
      OBVIOUS
    <2> DEFINE R == T \ {z}
    <2>2. R \in SUBSET S /\ Cardinality(R) = n
      BY <1>1, <2>1, Without
    <2>3. CASE R = {}
      <3>1. \A y \in T : y = z
        BY <2>3
      <3> QED
        BY <2>1, <3>1
    <2>4. CASE R # {}
      <3>1. PICK x \in R : \A y \in R : x >= y
        BY <1>3, <2>2, <2>4
      <3>2. x \in T /\ x \in Int /\ z \in Int
        BY <2>1
      <3>3. \A y \in T : y = z \/ y \in R
        OBVIOUS
      <3>4. \A y \in T : y \in Int
        OBVIOUS
      <3> HIDE DEF R
      <3>5. CASE x >= z
        BY <3>1, <3>2, <3>3, <3>5
      <3>6. CASE ~(x >= z)
        BY <2>1, <3>1, <3>2, <3>3, <3>4, <3>6
      <3> QED
        BY <3>5, <3>6
    <2> QED
      BY <2>3, <2>4
  <1>4. Nat \subseteq K
    <2> HIDE DEF K
    <2> QED
      BY <1>2, <1>3, Induct
  <1> QED
    BY <1>1, <1>4

LEMMA MaxIs ==
  ASSUME NEW S, IsFiniteSet(S), S # {}, S \subseteq Int
  PROVE  Max(S) \in S /\ \A y \in S : Max(S) >= y
  <1>1. \E x \in S : \A y \in S : x >= y
    BY SomeHighest
  <1> QED
    BY <1>1 DEF Max

LEMMA FiniteImage ==
  ASSUME NEW g, IsFiniteSet(DOMAIN g), g = [x \in DOMAIN g |-> g[x]]
  PROVE  IsFiniteSet({g[x] : x \in DOMAIN g})
  <1> DEFINE T == {g[x] : x \in DOMAIN g}
  <1>1. g \in [DOMAIN g -> T] /\ \A t \in T : \E x \in DOMAIN g : g[x] = t
    OBVIOUS
  <1> HIDE DEF T
  <1>2. g \in Surjection(DOMAIN g, T)
    BY <1>1 DEF Surjection
  <1>3. IsFiniteSet(T)
    BY <1>2, FS_Surjection
  <1> QED
    BY <1>3 DEF T

LEMMA MinIs ==
  ASSUME NEW S, IsFiniteSet(S), S # {}, S \subseteq Int
  PROVE  Min(S) \in S /\ \A y \in S : Min(S) <= y
  <1> DEFINE N == {-x : x \in S}
  <1> DEFINE g == [x \in S |-> -x]
  <1>1. IsFiniteSet(N)
    <2>1. g = [x \in DOMAIN g |-> g[x]] /\ DOMAIN g = S
      OBVIOUS
    <2>2. {g[x] : x \in DOMAIN g} = N
      OBVIOUS
    <2> HIDE DEF g, N
    <2>3. IsFiniteSet({g[x] : x \in DOMAIN g})
      BY <2>1, FiniteImage
    <2> QED
      BY <2>2, <2>3
  <1>2. N # {} /\ N \subseteq Int
    <2>1. PICK x \in S : TRUE
      OBVIOUS
    <2>2. -x \in N
      BY <2>1
    <2>3. \A y \in S : -y \in Int
      OBVIOUS
    <2>4. \A n \in N : \E y \in S : n = -y
      OBVIOUS
    <2> HIDE DEF N, g
    <2> QED
      BY <2>2, <2>3, <2>4
  <1>3. PICK m \in N : \A y \in N : m >= y
    <2> HIDE DEF N
    <2> QED
      BY <1>1, <1>2, SomeHighest
  <1>4. PICK x \in S : m = -x
    BY <1>3, Zenon
  <1>5. \A y \in S : x <= y
    <2> SUFFICES ASSUME NEW y \in S PROVE x <= y
      OBVIOUS
    <2>1. -x >= -y
      BY <1>3, <1>4
    <2> QED
      BY <2>1
  <1> QED
    BY <1>4, <1>5 DEF Min

-----------------------------------------------------------------------------
(* The windows a decision is judged on. *)
LEMMA WindowOfBars ==
  ASSUME TypeOK, candles # <<>>
  PROVE  Window \in Seq(Bars) /\ Len(Window) \in Nat \ {0}
  <1> DEFINE first == IF Len(candles) > Horizon + 1 THEN Len(candles) - Horizon ELSE 1
  <1>1. candles \in Seq(Bars) /\ Len(candles) \in Nat \ {0}
    BY DEF TypeOK
  <1>2. first \in 1..Len(candles)
    BY <1>1, JournalAssumption
  <1>3. /\ SubSeq(candles, first, Len(candles)) \in Seq(Bars)
        /\ Len(SubSeq(candles, first, Len(candles))) = Len(candles) - first + 1
    <2> HIDE DEF first
    <2> QED
      BY <1>1, <1>2
  <1>4. Window = SubSeq(candles, first, Len(candles))
    BY DEF Window
  <1> HIDE DEF first
  <1> QED
    BY <1>1, <1>2, <1>3, <1>4

LEMMA Extremes ==
  ASSUME NEW w \in Seq(Bars), Len(w) \in Nat \ {0}
  PROVE  /\ Highest(w) \in Nat /\ Lowest(w) \in Nat /\ Lowest(w) <= Highest(w)
         /\ \A k \in DOMAIN w : /\ w[k].high <= Highest(w) /\ w[k].low >= Lowest(w)
                                /\ w[k] \in Bar /\ w[k].low <= w[k].close /\ w[k].close <= w[k].high
  <1> DEFINE H == {w[k].high : k \in DOMAIN w}
             L == {w[k].low : k \in DOMAIN w}
  <1>1. DOMAIN w = 1..Len(w) /\ 1 \in DOMAIN w /\ IsFiniteSet(DOMAIN w)
    <2>1. DOMAIN w = 1..Len(w) /\ Len(w) \in Nat
      OBVIOUS
    <2>2. IsFiniteSet(1..Len(w))
      BY <2>1, FS_Interval
    <2> QED
      BY <2>1, <2>2
  <1>2. \A k \in DOMAIN w : /\ w[k] \in Bar /\ w[k].high \in Nat /\ w[k].low \in Nat /\ w[k].close \in Nat
                            /\ w[k].low <= w[k].close /\ w[k].close <= w[k].high
    BY JournalAssumption DEF Bar
  <1> DEFINE h == [k \in DOMAIN w |-> w[k].high]
             l == [k \in DOMAIN w |-> w[k].low]
  <1>3. IsFiniteSet(H) /\ IsFiniteSet(L)
    <2>1. /\ h = [k \in DOMAIN h |-> h[k]] /\ DOMAIN h = DOMAIN w
          /\ l = [k \in DOMAIN l |-> l[k]] /\ DOMAIN l = DOMAIN w
      OBVIOUS
    <2>2. {h[k] : k \in DOMAIN h} = H /\ {l[k] : k \in DOMAIN l} = L
      OBVIOUS
    <2> HIDE DEF h, l, H, L
    <2>3. IsFiniteSet({h[k] : k \in DOMAIN h}) /\ IsFiniteSet({l[k] : k \in DOMAIN l})
      BY <1>1, <2>1, FiniteImage
    <2> QED
      BY <2>2, <2>3
  <1>4. H # {} /\ L # {} /\ H \subseteq Nat /\ L \subseteq Nat
    BY <1>1, <1>2
  <1>5. /\ Max(H) \in H /\ \A y \in H : Max(H) >= y
        /\ Min(L) \in L /\ \A y \in L : Min(L) <= y
    <2> HIDE DEF H, L
    <2>1. H \subseteq Int /\ L \subseteq Int
      BY <1>4
    <2> QED
      BY <1>3, <1>4, <2>1, MaxIs, MinIs
  <1>6. Highest(w) = Max(H) /\ Lowest(w) = Min(L)
    BY DEF Highest, Lowest
  <1>7. Highest(w) \in Nat /\ Lowest(w) \in Nat
    BY <1>4, <1>5, <1>6
  <1>8. \A k \in DOMAIN w : w[k].high <= Highest(w) /\ w[k].low >= Lowest(w)
    <2> SUFFICES ASSUME NEW k \in DOMAIN w PROVE w[k].high <= Highest(w) /\ w[k].low >= Lowest(w)
      OBVIOUS
    <2>1. w[k].high \in H /\ w[k].low \in L
      OBVIOUS
    <2> HIDE DEF H, L
    <2> QED
      BY <1>2, <1>5, <1>6, <1>7, <2>1
  <1>9. Lowest(w) <= Highest(w)
    BY <1>1, <1>2, <1>7, <1>8
  <1> QED
    BY <1>2, <1>7, <1>8, <1>9

(* A flat window has no range. *)
LEMMA TrueRangeNat ==
  ASSUME NEW p \in Bar, NEW b \in Bar, b.low <= b.close, b.close <= b.high
  PROVE  /\ TrueRange(p, b) \in Nat
         /\ p.close = b.high /\ b.high = b.low => TrueRange(p, b) = 0
  <1> DEFINE x == b.high - b.low
             y == Gap(b.high, p.close)
             z == Gap(b.low, p.close)
  <1>1. x \in Nat /\ y \in Nat /\ z \in Nat
    BY DEF Bar, Gap
  <1>2. p.close = b.high /\ b.high = b.low => x = 0 /\ y = 0 /\ z = 0
    BY DEF Bar, Gap
  <1>3. TrueRange(p, b) = Max({x, y, z})
    BY DEF TrueRange
  <1> HIDE DEF x, y, z
  <1>4. \E m \in {x, y, z} : \A n \in {x, y, z} : m >= n
    BY <1>1
  <1>5. Max({x, y, z}) \in {x, y, z}
    BY <1>4 DEF Max
  <1> QED
    BY <1>1, <1>2, <1>3, <1>5

LEMMA RangeSumNat ==
  ASSUME NEW w \in Seq(Bars), Len(w) \in Nat \ {0}
  PROVE  /\ RangeCount(w) \in Nat /\ RangeSum(w) \in Nat
         /\ Highest(w) = Lowest(w) => RangeSum(w) = 0
  <1> DEFINE f == [k \in 1..RangeCount(w) |-> TrueRange(w[k], w[k + 1])]
  <1>1. RangeCount(w) \in Nat /\ RangeCount(w) = Len(w) - 1
    BY DEF RangeCount
  <1>2. DOMAIN f = 1..RangeCount(w) /\ IsFiniteSet(DOMAIN f)
    BY <1>1, FS_Interval
  <1>3. \A k \in 1..RangeCount(w) : k \in DOMAIN w /\ k + 1 \in DOMAIN w
    BY <1>1
  <1>4. \A k \in DOMAIN f : f[k] \in Nat
    BY <1>3, Extremes, TrueRangeNat
  <1>5. RangeSum(w) = FoldFunction(LAMBDA x, y : x + y, 0, f)
    BY DEF RangeSum
  <1>6. ASSUME Highest(w) = Lowest(w) PROVE \A k \in DOMAIN f : f[k] = 0
    <2>1. \A k \in DOMAIN w : w[k].high = w[k].low /\ w[k].close = w[k].high
                                /\ w[k].close = Highest(w)
      <3> SUFFICES ASSUME NEW k \in DOMAIN w
                   PROVE  w[k].high = w[k].low /\ w[k].close = w[k].high /\ w[k].close = Highest(w)
        OBVIOUS
      <3>1. /\ w[k].high <= Highest(w) /\ w[k].low >= Lowest(w) /\ Highest(w) \in Nat
            /\ w[k] \in Bar /\ w[k].low <= w[k].close /\ w[k].close <= w[k].high
        BY Extremes
      <3>2. w[k].high \in Nat /\ w[k].low \in Nat /\ w[k].close \in Nat
        BY <3>1 DEF Bar
      <3> QED
        BY <1>6, <3>1, <3>2
    <2>2. \A k \in DOMAIN w : w[k] \in Bar /\ w[k].low <= w[k].close /\ w[k].close <= w[k].high
      BY Extremes
    <2> SUFFICES ASSUME NEW k \in 1..RangeCount(w) PROVE TrueRange(w[k], w[k + 1]) = 0
      BY <1>2
    <2> QED
      BY <1>3, <2>1, <2>2, TrueRangeNat
  <1> HIDE DEF f
  <1>7. FoldFunction(LAMBDA x, y : x + y, 0, f) \in Nat
    <2>1. \A k \in DOMAIN f, v \in Nat : f[k] + v \in Nat
      BY <1>4
    <2> QED
      BY <1>2, <2>1, FoldIn
  <1>8. ASSUME Highest(w) = Lowest(w) PROVE FoldFunction(LAMBDA x, y : x + y, 0, f) \in {0}
    <2>1. \A k \in DOMAIN f, v \in {0} : f[k] + v \in {0}
      BY <1>6, <1>8
    <2> QED
      BY <1>2, <2>1, FoldIn
  <1> QED
    BY <1>1, <1>5, <1>7, <1>8

-----------------------------------------------------------------------------
(* Excursions, multiplied out. *)
LEMMA Times ==
  ASSUME NEW c \in Nat, NEW x \in Int, NEW y \in Int, x <= y
  PROVE  c * x \in Int /\ c * y \in Int /\ c * x <= c * y
  <1>1. c * (y - x) \in Nat
    <2>1. y - x \in Nat
      OBVIOUS
    <2> QED
      BY <2>1
  <1>2. c * (y - x) = c * y - c * x
    OBVIOUS
  <1>3. c * x \in Int /\ c * y \in Int
    OBVIOUS
  <1> QED
    BY <1>1, <1>2, <1>3

(* A long that reached its target and not its stop went further up than down,
   whatever its price. *)
LEMMA TargetMeansBias ==
  ASSUME NEW c \in Nat, NEW s \in Nat \ {0}, NEW hi \in Int, NEW lo \in Int, NEW p \in Int, lo < hi,
         2 * c * (hi - p) >= 3 * RRTarget * s, ~(2 * c * (p - lo) >= 3 * s)
  PROVE  2 * c * (hi - p) >= 1 * s /\ hi - p > Gap(0, p - lo)
  <1> DEFINE up == hi - p
             down == p - lo
             C == 2 * c
             R == 3 * RRTarget * s
  <1>1. up \in Int /\ down \in Int /\ C \in Nat /\ s \in Nat /\ s > 0 /\ -down < up
    OBVIOUS
  <1>2. R >= 3 * s /\ R \in Nat
    <2>1. RRTarget \in Nat /\ 1 <= RRTarget
      BY JournalAssumption
    <2>2. s * 1 <= s * RRTarget /\ s * RRTarget \in Int
      BY <2>1, Times
    <2>3. R = 3 * (s * RRTarget)
      BY <2>1
    <2> QED
      BY <2>2, <2>3
  <1>3. C * up >= R /\ ~(C * down >= 3 * s)
    OBVIOUS
  <1> HIDE DEF up, down, C, R
  <1>4. C * up \in Int /\ C * down \in Int
    BY <1>1
  <1>5. up > down
    <2> SUFFICES ASSUME up <= down PROVE FALSE
      BY <1>1
    <2>1. C * up <= C * down
      BY <1>1, Times
    <2> QED
      BY <1>1, <1>2, <1>3, <1>4, <2>1
  <1>6. C * up >= 1 * s
    BY <1>1, <1>2, <1>3, <1>4
  <1>7. up > Gap(0, down)
    BY <1>1, <1>5 DEF Gap
  <1> QED
    BY <1>6, <1>7 DEF up, down, C

LEMMA ReachesIs ==
  ASSUME NEW w, RangeSum(w) \in Nat, NEW excursion, NEW halves
  PROVE  RangeSum(w) > 0 =>
           (Reaches(excursion, halves, w) <=> 2 * RangeCount(w) * excursion >= halves * RangeSum(w))
  BY DEF Reaches

(* What a YES about an entry says of the extremes of the window. *)
LEMMA YesSays ==
  ASSUME NEW w \in Seq(Bars), Len(w) \in Nat \ {0}, NEW bias, NEW decision, NEW price \in Nat,
         EntryAnswer(bias, decision, price, w) = "YES"
  PROVE  /\ RangeSum(w) \in Nat \ {0} /\ bias \in {"LONG", "SHORT"}
         /\ bias = "LONG" =>
              /\ 2 * RangeCount(w) * (Highest(w) - price) >= 3 * RRTarget * RangeSum(w)
              /\ ~(2 * RangeCount(w) * (price - Lowest(w)) >= 3 * RangeSum(w))
         /\ bias # "LONG" => ~(2 * RangeCount(w) * (Highest(w) - price) >= 3 * RangeSum(w))
  <1>1. ~(~Traded(bias, decision) \/ RangeSum(w) = 0)
    BY DEF EntryAnswer
  <1>2. RangeSum(w) \in Nat /\ RangeSum(w) > 0 /\ bias \in {"LONG", "SHORT"}
    BY <1>1, RangeSumNat DEF Traded
  <1>3. CASE bias = "LONG"
    <2>1. EntryOutcome(Reaches(Highest(w) - price, 3 * RRTarget, w), Reaches(price - Lowest(w), 3, w)) = "YES"
      BY <1>1, <1>3 DEF EntryAnswer
    <2>2. Reaches(Highest(w) - price, 3 * RRTarget, w) /\ ~Reaches(price - Lowest(w), 3, w)
      <3> DEFINE t == Reaches(Highest(w) - price, 3 * RRTarget, w)
                 x == Reaches(price - Lowest(w), 3, w)
      <3>1. EntryOutcome(t, x) = "YES"
        BY <2>1
      <3> HIDE DEF t, x
      <3> QED
        BY <3>1 DEF EntryOutcome, t, x
    <2> QED
      BY <1>2, <1>3, <2>2, ReachesIs
  <1>4. CASE bias # "LONG"
    <2>1. EntryOutcome(Reaches(price - Lowest(w), 3 * RRTarget, w), Reaches(Highest(w) - price, 3, w)) = "YES"
      BY <1>1, <1>4 DEF EntryAnswer
    <2>2. ~Reaches(Highest(w) - price, 3, w)
      <3> DEFINE t == Reaches(price - Lowest(w), 3 * RRTarget, w)
                 x == Reaches(Highest(w) - price, 3, w)
      <3>1. EntryOutcome(t, x) = "YES"
        BY <2>1
      <3> HIDE DEF t, x
      <3> QED
        BY <3>1 DEF EntryOutcome, x
    <2> QED
      BY <1>2, <1>4, <2>2, ReachesIs
  <1> QED
    BY <1>2, <1>3, <1>4

(* Both answers come from one evaluation of one window. *)
LEMMA LongYesHasBias ==
  ASSUME NEW w \in Seq(Bars), Len(w) \in Nat \ {0}, NEW decision, NEW price \in Nat,
         EntryAnswer("LONG", decision, price, w) = "YES"
  PROVE  BiasAnswer("LONG", price, w) = "YES"
  <1> DEFINE s == RangeSum(w)
             c == RangeCount(w)
             hi == Highest(w)
             lo == Lowest(w)
  <1>1. c \in Nat /\ s \in Nat \ {0} /\ hi \in Nat /\ lo \in Nat /\ lo <= hi /\ lo # hi
    BY YesSays, Extremes, RangeSumNat
  <1>2. 2 * c * (hi - price) >= 3 * RRTarget * s /\ ~(2 * c * (price - lo) >= 3 * s)
    BY YesSays
  <1>3. Favourable("LONG", price, w) = hi - price /\ Adverse("LONG", price, w) = price - lo
    BY DEF Favourable, Adverse
  <1>4. Reaches(hi - price, 1, w) <=> 2 * c * (hi - price) >= 1 * s
    <2>1. RangeSum(w) \in Nat /\ RangeSum(w) > 0
      BY <1>1
    <2> QED
      BY <2>1, ReachesIs
  <1>5. BiasAnswer("LONG", price, w)
          = YesIf(Reaches(hi - price, 1, w) /\ hi - price > Gap(0, price - lo))
    BY <1>3 DEF BiasAnswer
  <1> HIDE DEF s, c, hi, lo
  <1>6. 2 * c * (hi - price) >= 1 * s /\ hi - price > Gap(0, price - lo)
    <2>1. lo < hi /\ hi \in Int /\ lo \in Int /\ price \in Int
      BY <1>1
    <2> QED
      BY <1>1, <1>2, <2>1, TargetMeansBias
  <1> QED
    BY <1>4, <1>5, <1>6 DEF YesIf

LEMMA AnswersTyped ==
  ASSUME NEW w, NEW bias, NEW decision, NEW price
  PROVE  /\ BiasAnswer(bias, price, w) \in Answer /\ EntryAnswer(bias, decision, price, w) \in Answer
         /\ EntryAnswer(bias, decision, price, w) # "NONE" => decision = "TRADE" /\ bias \in {"LONG", "SHORT"}
  <1>1. \A t, x : EntryOutcome(t, x) \in Answer
    BY DEF EntryOutcome, Answer
  <1>2. BiasAnswer(bias, price, w) \in Answer
    BY DEF BiasAnswer, YesIf, Answer
  <1>3. EntryAnswer(bias, decision, price, w) \in Answer
    BY DEF EntryAnswer, EntryOutcome, Answer
  <1>4. EntryAnswer(bias, decision, price, w) # "NONE" => Traded(bias, decision)
    BY DEF EntryAnswer
  <1> QED
    BY <1>2, <1>3, <1>4 DEF Traded

-----------------------------------------------------------------------------
Row == [status : {"PENDING", "EVALUATED"}, bias : Biases, decision : {"TRADE", "WAIT"},
        price : Prices, bias_ok : Answer, entry_ok : Answer]

LEMMA RowOf ==
  ASSUME TypeOK, Pending(entry) PROVE entry \in Row
  <1>1. entry # NoEntry
    <2>1. NoEntry.status = "NONE"
      BY DEF NoEntry
    <2> QED
      BY <2>1 DEF Pending
  <1> QED
    BY <1>1 DEF TypeOK, Row

(* One lemma per action. *)
LEMMA JudgedWell ==
  ASSUME JournalInv, Evaluate PROVE JournalInv'
  <1>1. entry \in Row /\ candles # <<>>
    BY RowOf DEF Evaluate, JournalInv
  <1>2. Window \in Seq(Bars) /\ Len(Window) \in Nat \ {0}
    BY <1>1, WindowOfBars DEF JournalInv
  <1>3. /\ entry.bias \in Biases /\ entry.decision \in {"TRADE", "WAIT"}
        /\ entry.price \in Nat /\ entry.price \in Prices
    BY <1>1, JournalAssumption DEF Row
  <1> DEFINE b == BiasAnswer(entry.bias, entry.price, Window)
             e == EntryAnswer(entry.bias, entry.decision, entry.price, Window)
  <1>4. entry' = [entry EXCEPT !.status = "EVALUATED", !.bias_ok = b, !.entry_ok = e]
    BY DEF Evaluate
  <1>5. /\ b \in Answer /\ e \in Answer
        /\ e # "NONE" => entry.decision = "TRADE" /\ entry.bias \in {"LONG", "SHORT"}
    BY AnswersTyped
  <1>6. entry.bias = "LONG" /\ e = "YES" => b = "YES"
    BY <1>2, <1>3, LongYesHasBias
  <1> HIDE DEF b, e
  <1>7. /\ entry' \in Row /\ entry'.status = "EVALUATED" /\ entry'.bias = entry.bias
        /\ entry'.decision = entry.decision /\ entry'.bias_ok = b /\ entry'.entry_ok = e
    BY <1>1, <1>4, <1>5 DEF Row
  <1>8. candles' = candles
    BY DEF Evaluate
  <1>9. TypeOK'
    <2>1. candles' \in Seq(Bars) /\ Len(candles') <= MaxBars
      BY <1>8 DEF JournalInv, TypeOK
    <2>2. entry' \in [status : {"PENDING", "EVALUATED"}, bias : Biases,
                      decision : {"TRADE", "WAIT"}, price : Prices,
                      bias_ok : Answer, entry_ok : Answer]
      BY <1>7 DEF Row
    <2>3. entry'.status # "PENDING"
      BY <1>7
    <2>4. entry'.entry_ok # "NONE" => entry'.decision = "TRADE" /\ entry'.bias # "NEUTRAL"
      BY <1>5, <1>7
    <2> QED
      BY <2>1, <2>2, <2>3, <2>4 DEF TypeOK
  <1>10. LongAnswersAgree'
    BY <1>6, <1>7 DEF LongAnswersAgree, Judged
  <1> QED
    BY <1>9, <1>10 DEF JournalInv

LEMMA Recorded ==
  ASSUME JournalInv, NEW bias \in Biases, NEW decision \in {"TRADE", "WAIT"}, NEW price \in Prices,
         RecordDecision(bias, decision, price)
  PROVE  JournalInv'
  <1>1. /\ entry' \in Row /\ entry'.status = "PENDING" /\ entry'.bias_ok = "NONE" /\ entry'.entry_ok = "NONE"
        /\ candles' = candles
    BY DEF RecordDecision, Row, Answer
  <1>2. TypeOK'
    BY <1>1 DEF JournalInv, TypeOK, Row
  <1> QED
    BY <1>1, <1>2 DEF JournalInv, LongAnswersAgree, Judged

LEMMA Printed ==
  ASSUME JournalInv, NEW b \in Bars, NewCandle(b) PROVE JournalInv'
  <1>1. candles' \in Seq(Bars) /\ Len(candles') <= MaxBars
    BY JournalAssumption DEF NewCandle, JournalInv, TypeOK
  <1>2. entry' = entry
    BY DEF NewCandle
  <1> QED
    BY <1>1, <1>2 DEF JournalInv, TypeOK, LongAnswersAgree, Judged

(* A judged row is well-typed and its two answers on a long agree, whatever the
   market printed before and after the decision (record_decision,
   evaluate_journal_outcome).  JournalInv is inductive: a row is written once and
   judged once, on one window. *)
THEOREM JournalKept == Spec => []JournalInv
  <1>1. Init => JournalInv
    BY JournalAssumption DEF Init, JournalInv, TypeOK, LongAnswersAgree, Judged
  <1>2. JournalInv /\ [Next]_vars => JournalInv'
    <2> SUFFICES ASSUME JournalInv, [Next]_vars PROVE JournalInv'
      OBVIOUS
    <2>1. CASE Evaluate
      BY <2>1, JudgedWell
    <2>2. CASE \E b \in Bars : NewCandle(b)
      BY <2>2, Printed
    <2>3. CASE \E bias \in Biases, decision \in {"TRADE", "WAIT"}, price \in Prices :
                 RecordDecision(bias, decision, price)
      BY <2>3, Recorded
    <2>4. CASE UNCHANGED vars
      BY <2>4 DEF vars, JournalInv, TypeOK, LongAnswersAgree, Judged
    <2> QED
      BY <2>1, <2>2, <2>3, <2>4 DEF Next
  <1> QED
    BY <1>1, <1>2, PTL DEF Spec

(* No candle of the window that earned a trade its YES touched the stop: the
   extremes the code compares bound every candle (evaluate_journal_outcome). *)
THEOREM StoppedIsNeverYes == Spec => YesWasNeverStopped
  <1> DEFINE Untouched ==
        /\ entry # NoEntry /\ entry.status = "PENDING" /\ entry' # entry /\ entry'.entry_ok = "YES"
        => \A k \in DOMAIN Window :
             LET against == IF entry.bias = "LONG" THEN entry.price - Window[k].low
                            ELSE Window[k].high - entry.price
             IN  2 * RangeCount(Window) * against < 3 * RangeSum(Window)
  <1>1. JournalInv /\ [Next]_vars => Untouched
    <2> SUFFICES ASSUME JournalInv, [Next]_vars, entry # NoEntry, entry.status = "PENDING",
                        entry' # entry, entry'.entry_ok = "YES", NEW k \in DOMAIN Window
                 PROVE  LET against == IF entry.bias = "LONG" THEN entry.price - Window[k].low
                                       ELSE Window[k].high - entry.price
                        IN  2 * RangeCount(Window) * against < 3 * RangeSum(Window)
      OBVIOUS
    <2>1. Evaluate
      BY DEF Next, vars, RecordDecision, NewCandle
    <2>2. entry \in Row /\ candles # <<>>
      BY <2>1, RowOf DEF Evaluate, JournalInv
    <2>3. Window \in Seq(Bars) /\ Len(Window) \in Nat \ {0}
      BY <2>2, WindowOfBars DEF JournalInv
    <2>4. entry.price \in Nat
      BY <2>2, JournalAssumption DEF Row
    <2>5. EntryAnswer(entry.bias, entry.decision, entry.price, Window) = "YES"
      BY <2>1, <2>2 DEF Evaluate, Row
    <2> DEFINE s == RangeSum(Window)
               c == RangeCount(Window)
               hi == Highest(Window)
               lo == Lowest(Window)
               p == entry.price
    <2>6. c \in Nat /\ s \in Nat /\ hi \in Nat /\ lo \in Nat
      BY <2>3, Extremes, RangeSumNat
    <2>7. Window[k].high <= hi /\ lo <= Window[k].low /\ Window[k].high \in Nat /\ Window[k].low \in Nat
      BY <2>3, Extremes DEF Bar
    <2>8. /\ entry.bias = "LONG" => ~(2 * c * (p - lo) >= 3 * s)
          /\ entry.bias # "LONG" => ~(2 * c * (hi - p) >= 3 * s)
      BY <2>3, <2>4, <2>5, YesSays
    <2> HIDE DEF s, c, hi, lo, p
    <2>9. p \in Nat
      BY <2>4 DEF p
    <2>10. /\ (2 * c) * (p - Window[k].low) <= (2 * c) * (p - lo)
           /\ (2 * c) * (Window[k].high - p) <= (2 * c) * (hi - p)
           /\ (2 * c) * (p - Window[k].low) \in Int /\ (2 * c) * (p - lo) \in Int
           /\ (2 * c) * (Window[k].high - p) \in Int /\ (2 * c) * (hi - p) \in Int
      <3>1. /\ 2 * c \in Nat
            /\ p - Window[k].low \in Int /\ p - lo \in Int /\ p - Window[k].low <= p - lo
            /\ Window[k].high - p \in Int /\ hi - p \in Int /\ Window[k].high - p <= hi - p
        BY <2>6, <2>7, <2>9
      <3> QED
        BY <3>1, Times
    <2>11. /\ entry.bias = "LONG" => 2 * c * (p - Window[k].low) < 3 * s
           /\ entry.bias # "LONG" => 2 * c * (Window[k].high - p) < 3 * s
      BY <2>6, <2>8, <2>10
    <2> QED
      BY <2>11 DEF s, c, p
  <1>2. JournalInv /\ [Next]_vars => [Untouched]_vars
    BY <1>1
  <1> QED
    BY <1>2, JournalKept, PTL DEF Spec, YesWasNeverStopped
=============================================================================
