--------------------------- MODULE EventBusProofs ---------------------------
(***************************************************************************)
(* The event bus, for any number of processes, dashboards, events and      *)
(* restarts: each bus dispatches what was published and in that order, its *)
(* ring holds the latest events, and a dashboard gets what was dispatched  *)
(* since it subscribed, without gap or repetition.                         *)
(***************************************************************************)
EXTENDS EventBus, SequenceTheorems, TLAPS

-----------------------------------------------------------------------------
(* Prefixes, suffixes and concatenations, element by element. *)

LEMMA PrefixAt ==
  ASSUME NEW S, NEW s \in Seq(S), NEW t \in Seq(S)
  PROVE  IsPrefix(s, t) <=> Len(s) <= Len(t) /\ \A k \in 1..Len(s) : s[k] = t[k]
  <1>1. ASSUME Len(s) <= Len(t)
        PROVE  /\ SubSeq(s, 1, Len(s)) = s
               /\ SubSeq(t, 1, Len(s)) \in Seq(S)
               /\ Len(SubSeq(t, 1, Len(s))) = Len(s)
               /\ \A k \in 1..Len(s) : SubSeq(t, 1, Len(s))[k] = t[k]
    <2>1. Len(s) \in Nat /\ Len(t) \in Nat /\ \A k \in 1..Len(s) : t[k] \in S
      BY <1>1, LenProperties, ElementOfSeq
    <2> QED BY <2>1, SubSeqFull, SubSeqProperties
  <1>2. ASSUME Len(s) <= Len(t), \A k \in 1..Len(s) : s[k] = t[k]
        PROVE  s = SubSeq(t, 1, Len(s))
    BY <1>1, <1>2, SeqEqual
  <1> QED BY <1>1, <1>2 DEF IsPrefix

LEMMA ReverseAt ==
  ASSUME NEW S, NEW s \in Seq(S)
  PROVE  /\ Reverse(s) \in Seq(S) /\ Len(Reverse(s)) = Len(s)
         /\ \A k \in 1..Len(s) : Reverse(s)[k] = s[Len(s) - k + 1]
  <1>1. Len(s) \in Nat /\ \A k \in 1..Len(s) : s[Len(s) - k + 1] \in S
    BY LenProperties
  <1>2. Reverse(s) \in [1..Len(s) -> S]
    BY <1>1 DEF Reverse
  <1> QED BY <1>1, <1>2 DEF Reverse

LEMMA SuffixAt ==
  ASSUME NEW S, NEW s \in Seq(S), NEW t \in Seq(S)
  PROVE  IsSuffix(s, t) <=>
           Len(s) <= Len(t) /\ \A k \in 1..Len(s) : s[k] = t[Len(t) - Len(s) + k]
  <1>1. Len(s) \in Nat /\ Len(t) \in Nat
    BY LenProperties
  <1>2. IsSuffix(s, t) <=>
          Len(s) <= Len(t) /\ \A k \in 1..Len(s) : Reverse(s)[k] = Reverse(t)[k]
    BY ReverseAt, PrefixAt DEF IsSuffix
  <1>3. ASSUME Len(s) <= Len(t)
        PROVE  \A k \in 1..Len(s) :
                 Reverse(s)[k] = s[Len(s) - k + 1] /\ Reverse(t)[k] = t[Len(t) - k + 1]
    BY <1>1, <1>3, ReverseAt
  <1>4. ASSUME Len(s) <= Len(t), \A k \in 1..Len(s) : s[Len(s) - k + 1] = t[Len(t) - k + 1],
               NEW k \in 1..Len(s)
        PROVE  s[k] = t[Len(t) - Len(s) + k]
    <2> DEFINE j == Len(s) - k + 1
    <2>1. j \in 1..Len(s) /\ Len(s) - j + 1 = k /\ Len(t) - j + 1 = Len(t) - Len(s) + k
      BY <1>1
    <2> HIDE DEF j
    <2> QED BY <1>4, <2>1
  <1>5. ASSUME Len(s) <= Len(t), \A k \in 1..Len(s) : s[k] = t[Len(t) - Len(s) + k],
               NEW k \in 1..Len(s)
        PROVE  s[Len(s) - k + 1] = t[Len(t) - k + 1]
    <2> DEFINE j == Len(s) - k + 1
    <2>1. j \in 1..Len(s) /\ Len(t) - Len(s) + j = Len(t) - k + 1
      BY <1>1
    <2> HIDE DEF j
    <2>2. s[j] = t[Len(t) - k + 1]
      BY <1>5, <2>1
    <2> QED BY <2>2 DEF j
  <1> QED BY <1>2, <1>3, <1>4, <1>5

LEMMA ConcatAt ==
  ASSUME NEW S, NEW s \in Seq(S), NEW t \in Seq(S), NEW u \in Seq(S)
  PROVE  s \o t = u <=> /\ Len(s) + Len(t) = Len(u)
                        /\ \A k \in 1..Len(s) : s[k] = u[k]
                        /\ \A k \in 1..Len(t) : t[k] = u[Len(s) + k]
  <1>1. /\ Len(s) \in Nat /\ Len(t) \in Nat /\ s \o t \in Seq(S)
        /\ Len(s \o t) = Len(s) + Len(t)
        /\ \A i \in 1 .. Len(s) + Len(t) :
             (s \o t)[i] = IF i <= Len(s) THEN s[i] ELSE t[i - Len(s)]
    BY LenProperties, ConcatProperties
  <1>2. /\ \A k \in 1..Len(s) : (s \o t)[k] = s[k]
        /\ \A k \in 1..Len(t) : (s \o t)[Len(s) + k] = t[k]
    BY <1>1
  <1>3. ASSUME /\ Len(s) + Len(t) = Len(u)
               /\ \A k \in 1..Len(s) : s[k] = u[k]
               /\ \A k \in 1..Len(t) : t[k] = u[Len(s) + k]
        PROVE  s \o t = u
    <2>1. ASSUME NEW i \in 1..Len(u) PROVE (s \o t)[i] = u[i]
      <3>1. CASE i <= Len(s)
        BY <1>1, <1>3, <3>1
      <3>2. CASE ~(i <= Len(s))
        <4>1. i - Len(s) \in 1..Len(t) /\ Len(s) + (i - Len(s)) = i
          BY <1>1, <1>3, <3>2
        <4> QED BY <1>1, <1>3, <3>2, <4>1
      <3> QED BY <3>1, <3>2
    <2> QED BY <1>1, <1>3, <2>1, SeqEqual
  <1> QED BY <1>1, <1>2, <1>3

LEMMA ConcatIs ==
  ASSUME NEW S, NEW s \in Seq(S), NEW t \in Seq(S), NEW u \in Seq(S),
         Len(s) + Len(t) = Len(u),
         \A k \in 1..Len(s) : s[k] = u[k],
         \A k \in 1..Len(t) : t[k] = u[Len(s) + k]
  PROVE  s \o t = u
  BY ConcatAt

LEMMA AppendAt ==
  ASSUME NEW S, NEW s \in Seq(S), NEW e \in S
  PROVE  /\ Append(s, e) \in Seq(S) /\ Len(Append(s, e)) = Len(s) + 1
         /\ \A k \in 1..Len(s) + 1 : Append(s, e)[k] = IF k <= Len(s) THEN s[k] ELSE e
  BY AppendProperties, LenProperties

LEMMA TailAt ==
  ASSUME NEW S, NEW s \in Seq(S), s # <<>>
  PROVE  /\ Len(s) \in Nat \ {0} /\ Head(s) = s[1] /\ Head(s) \in S
         /\ Tail(s) \in Seq(S) /\ Len(Tail(s)) = Len(s) - 1
         /\ \A k \in 1..Len(s) - 1 : Tail(s)[k] = s[k + 1]
  <1>1. Len(s) \in Nat \ {0}
    BY EmptySeq
  <1> QED BY <1>1, HeadTailProperties

LEMMA AppendKeepsConcat ==
  ASSUME NEW S, NEW s \in Seq(S), NEW t \in Seq(S), NEW u \in Seq(S), NEW e \in S,
         s \o t = u
  PROVE  s \o Append(t, e) = Append(u, e)
  <1>1. /\ Len(s) \in Nat /\ Len(t) \in Nat /\ Len(u) = Len(s) + Len(t)
        /\ \A k \in 1..Len(s) : s[k] = u[k]
        /\ \A k \in 1..Len(t) : t[k] = u[Len(s) + k]
    BY ConcatAt, LenProperties
  <1> DEFINE a == Append(t, e)
             b == Append(u, e)
  <1>2. /\ a \in Seq(S) /\ Len(a) = Len(t) + 1
        /\ \A k \in 1..Len(t) : a[k] = t[k]
        /\ a[Len(t) + 1] = e
        /\ b \in Seq(S) /\ Len(b) = Len(u) + 1
        /\ \A k \in 1..Len(u) : b[k] = u[k]
        /\ b[Len(u) + 1] = e
    BY AppendProperties
  <1> HIDE DEF a, b
  <1>3. ASSUME NEW k \in 1..Len(s) PROVE s[k] = b[k]
    <2>1. k \in 1..Len(u)
      BY <1>1
    <2> QED BY <1>1, <1>2, <2>1
  <1>4. ASSUME NEW k \in 1..Len(a) PROVE a[k] = b[Len(s) + k]
    <2>1. CASE k <= Len(t)
      <3>1. k \in 1..Len(t) /\ Len(s) + k \in 1..Len(u)
        BY <1>1, <1>2, <2>1
      <3> QED BY <1>1, <1>2, <3>1
    <2>2. CASE k = Len(t) + 1
      <3>1. Len(s) + k = Len(u) + 1
        BY <1>1, <2>2
      <3> QED BY <1>2, <2>2, <3>1
    <2> QED BY <1>1, <1>2, <2>1, <2>2
  <1>5. Len(s) + Len(a) = Len(b) /\ a \in Seq(S) /\ b \in Seq(S)
    BY <1>1, <1>2
  <1>6. s \o a = b
    BY <1>3, <1>4, <1>5, ConcatIs
  <1> QED BY <1>6 DEF a, b

LEMMA HeadMovesOver ==
  ASSUME NEW S, NEW s \in Seq(S), NEW t \in Seq(S), t # <<>>
  PROVE  Append(s, Head(t)) \o Tail(t) = s \o t
  <1> DEFINE u == s \o t
             a == Append(s, Head(t))
             b == Tail(t)
  <1>1. /\ u \in Seq(S) /\ Len(s) \in Nat /\ Len(t) \in Nat \ {0} /\ Len(u) = Len(s) + Len(t)
        /\ \A k \in 1..Len(s) : s[k] = u[k]
        /\ \A k \in 1..Len(t) : t[k] = u[Len(s) + k]
    BY ConcatAt, ConcatProperties, LenProperties, TailAt
  <1>2. /\ a \in Seq(S) /\ Len(a) = Len(s) + 1 /\ a[Len(s) + 1] = t[1]
        /\ \A k \in 1..Len(s) : a[k] = s[k]
        /\ b \in Seq(S) /\ Len(b) = Len(t) - 1
        /\ \A k \in 1..Len(t) - 1 : b[k] = t[k + 1]
    <2>1. Head(t) \in S /\ Head(t) = t[1]
      BY TailAt
    <2> QED BY <1>1, <2>1, AppendProperties, TailAt
  <1> HIDE DEF u, a, b
  <1>3. ASSUME NEW k \in 1..Len(a) PROVE a[k] = u[k]
    <2>1. CASE k <= Len(s)
      <3>1. k \in 1..Len(s)
        BY <1>1, <1>2, <2>1
      <3> QED BY <1>1, <1>2, <3>1
    <2>2. CASE k = Len(s) + 1
      <3>1. 1 \in 1..Len(t) /\ t[1] = u[Len(s) + 1]
        BY <1>1
      <3> QED BY <1>2, <2>2, <3>1
    <2> QED BY <1>1, <1>2, <2>1, <2>2
  <1>4. ASSUME NEW k \in 1..Len(b) PROVE b[k] = u[Len(a) + k]
    <2>1. k + 1 \in 1..Len(t) /\ Len(s) + (k + 1) = Len(a) + k /\ b[k] = t[k + 1]
      BY <1>1, <1>2
    <2>2. t[k + 1] = u[Len(s) + (k + 1)]
      BY <1>1, <2>1
    <2> QED BY <2>1, <2>2
  <1>5. Len(a) + Len(b) = Len(u)
    BY <1>1, <1>2
  <1>7. a \in Seq(S) /\ b \in Seq(S) /\ u \in Seq(S)
    BY <1>1, <1>2
  <1>6. a \o b = u
    BY <1>3, <1>4, <1>5, <1>7, ConcatIs
  <1> QED BY <1>6 DEF u, a, b

LEMMA AppendKeepsPrefix ==
  ASSUME NEW S, NEW s \in Seq(S), NEW t \in Seq(S), NEW e \in S, IsPrefix(s, t)
  PROVE  IsPrefix(s, Append(t, e))
  <1>1. Len(s) \in Nat /\ Len(t) \in Nat /\ Len(s) <= Len(t) /\ \A k \in 1..Len(s) : s[k] = t[k]
    BY PrefixAt, LenProperties
  <1>2. Len(s) <= Len(Append(t, e)) /\ \A k \in 1..Len(s) : s[k] = Append(t, e)[k]
    BY <1>1, AppendAt
  <1> QED BY <1>2, PrefixAt, AppendAt

LEMMA AppendKeepsSuffix ==
  ASSUME NEW S, NEW s \in Seq(S), NEW t \in Seq(S), NEW e \in S, IsSuffix(s, t)
  PROVE  IsSuffix(Append(s, e), Append(t, e))
  <1>1. /\ Len(s) \in Nat /\ Len(t) \in Nat /\ Len(s) <= Len(t)
        /\ \A k \in 1..Len(s) : s[k] = t[Len(t) - Len(s) + k]
    BY SuffixAt, LenProperties
  <1> DEFINE a == Append(s, e)
             b == Append(t, e)
  <1>2. /\ a \in Seq(S) /\ Len(a) = Len(s) + 1 /\ b \in Seq(S) /\ Len(b) = Len(t) + 1
        /\ \A k \in 1..Len(s) : a[k] = s[k]
        /\ \A k \in 1..Len(t) : b[k] = t[k]
        /\ a[Len(s) + 1] = e /\ b[Len(t) + 1] = e
    BY AppendProperties
  <1> HIDE DEF a, b
  <1>3. ASSUME NEW k \in 1..Len(a) PROVE a[k] = b[Len(b) - Len(a) + k]
    <2>1. Len(b) - Len(a) + k = Len(t) - Len(s) + k
      BY <1>1, <1>2
    <2>2. CASE k <= Len(s)
      <3>1. Len(t) - Len(s) + k \in 1..Len(t) /\ k \in 1..Len(s)
        BY <1>1, <2>2, <1>2
      <3> QED BY <1>1, <1>2, <2>1, <3>1
    <2>3. CASE k = Len(s) + 1
      <3>1. Len(t) - Len(s) + k = Len(t) + 1
        BY <1>1, <2>3
      <3> QED BY <1>2, <2>1, <2>3, <3>1
    <2> QED BY <1>1, <1>2, <2>2, <2>3
  <1>5. a \in Seq(S) /\ b \in Seq(S) /\ Len(a) <= Len(b)
    BY <1>1, <1>2
  <1>4. IsSuffix(a, b)
    BY <1>3, <1>5, SuffixAt
  <1> QED BY <1>4 DEF a, b

LEMMA CutKeepsSuffix ==
  ASSUME NEW S, NEW s \in Seq(S), NEW t \in Seq(S), NEW n \in 0..Len(s), IsSuffix(s, t)
  PROVE  LET cut == SubSeq(s, n + 1, Len(s))
         IN  cut \in Seq(S) /\ Len(cut) = Len(s) - n /\ IsSuffix(cut, t)
  <1>1. /\ Len(s) \in Nat /\ Len(t) \in Nat /\ Len(s) <= Len(t)
        /\ \A k \in 1..Len(s) : s[k] = t[Len(t) - Len(s) + k] /\ s[k] \in S
    BY SuffixAt, LenProperties
  <1> DEFINE cut == SubSeq(s, n + 1, Len(s))
  <1>2. /\ cut \in Seq(S) /\ Len(cut) = Len(s) - n
        /\ \A k \in 1..Len(s) - n : cut[k] = s[n + k]
    <2>1. /\ n + 1 \in Int /\ Len(s) \in Int /\ \A i \in n + 1..Len(s) : s[i] \in S
          /\ Len(s) - (n + 1) + 1 = Len(s) - n
      BY <1>1
    <2>2. /\ cut \in Seq(S)
          /\ Len(cut) = IF n + 1 <= Len(s) THEN Len(s) - (n + 1) + 1 ELSE 0
          /\ \A i \in 1..Len(s) - (n + 1) + 1 : cut[i] = s[(n + 1) + i - 1]
      BY <2>1, SubSeqProperties
    <2> HIDE DEF cut
    <2>3. Len(cut) = Len(s) - n
      BY <1>1, <2>2
    <2>4. ASSUME NEW k \in 1..Len(s) - n PROVE cut[k] = s[n + k]
      <3>1. k \in 1..Len(s) - (n + 1) + 1 /\ (n + 1) + k - 1 = n + k
        BY <1>1
      <3>2. cut[k] = s[(n + 1) + k - 1]
        BY <2>2, <3>1
      <3> QED BY <3>1, <3>2
    <2> QED BY <2>2, <2>3, <2>4
  <1> HIDE DEF cut
  <1>3. ASSUME NEW k \in 1..Len(cut) PROVE cut[k] = t[Len(t) - Len(cut) + k]
    <2>1. n + k \in 1..Len(s) /\ Len(t) - Len(s) + (n + k) = Len(t) - Len(cut) + k
      BY <1>1, <1>2
    <2> QED BY <1>1, <1>2, <2>1
  <1>5. cut \in Seq(S) /\ Len(cut) <= Len(t)
    BY <1>1, <1>2
  <1>4. IsSuffix(cut, t)
    BY <1>3, <1>5, SuffixAt
  <1> QED BY <1>2, <1>4 DEF cut

(* What was dispatched after the first j events. *)
After(d, j) == SubSeq(d, j + 1, Len(d))

LEMMA AfterAt ==
  ASSUME NEW S, NEW d \in Seq(S), NEW j \in 0..Len(d)
  PROVE  /\ After(d, j) \in Seq(S) /\ Len(After(d, j)) = Len(d) - j
         /\ \A k \in 1..Len(d) - j : After(d, j)[k] = d[j + k]
  <1>1. Len(d) \in Nat /\ \A i \in j + 1..Len(d) : d[i] \in S
    BY LenProperties
  <1>3. /\ After(d, j) \in Seq(S)
        /\ Len(After(d, j)) = IF j + 1 <= Len(d) THEN Len(d) - (j + 1) + 1 ELSE 0
        /\ \A i \in 1..Len(d) - (j + 1) + 1 : After(d, j)[i] = d[(j + 1) + i - 1]
    BY <1>1, SubSeqProperties DEF After
  <1>4. Len(After(d, j)) = Len(d) - j
    BY <1>1, <1>3
  <1>5. ASSUME NEW k \in 1..Len(d) - j PROVE After(d, j)[k] = d[j + k]
    <2>1. k \in 1..Len(d) - (j + 1) + 1 /\ (j + 1) + k - 1 = j + k
      BY <1>1
    <2>2. After(d, j)[k] = d[(j + 1) + k - 1]
      BY <1>3, <2>1
    <2> QED BY <2>1, <2>2
  <1> QED BY <1>3, <1>4, <1>5

LEMMA AfterGrows ==
  ASSUME NEW S, NEW d \in Seq(S), NEW j \in 0..Len(d), NEW e \in S
  PROVE  After(Append(d, e), j) = Append(After(d, j), e)
  <1> DEFINE a == Append(d, e)
             b == After(d, j)
             c == Append(b, e)
             f == After(a, j)
  <1>1. Len(d) \in Nat
    BY LenProperties
  <1>2. /\ a \in Seq(S) /\ Len(a) = Len(d) + 1
        /\ \A k \in 1..Len(d) + 1 : a[k] = IF k <= Len(d) THEN d[k] ELSE e
    BY AppendAt
  <1>3. /\ b \in Seq(S) /\ Len(b) = Len(d) - j
        /\ \A k \in 1..Len(d) - j : b[k] = d[j + k]
    BY AfterAt
  <1> HIDE DEF a, b
  <1>4. /\ c \in Seq(S) /\ Len(c) = Len(b) + 1
        /\ \A k \in 1..Len(b) + 1 : c[k] = IF k <= Len(b) THEN b[k] ELSE e
    BY <1>3, AppendAt
  <1>5. /\ f \in Seq(S) /\ Len(f) = Len(a) - j
        /\ \A k \in 1..Len(a) - j : f[k] = a[j + k]
    <2>1. a \in Seq(S) /\ j \in 0..Len(a)
      BY <1>1, <1>2
    <2> QED BY <2>1, AfterAt
  <1> HIDE DEF c, f
  <1>6. Len(f) = Len(c) /\ \A k \in 1..Len(f) : f[k] = c[k]
    <2>1. Len(f) = Len(d) - j + 1 /\ Len(c) = Len(d) - j + 1
      BY <1>1, <1>2, <1>3, <1>4, <1>5
    <2>2. ASSUME NEW k \in 1..Len(d) - j PROVE f[k] = d[j + k] /\ c[k] = d[j + k]
      <3>1. k \in 1..Len(a) - j /\ j + k \in 1..Len(d) + 1 /\ j + k <= Len(d)
            /\ k \in 1..Len(b) + 1 /\ k <= Len(b)
        BY <1>1, <1>2, <1>3
      <3>2. f[k] = a[j + k] /\ a[j + k] = d[j + k]
        BY <1>2, <1>5, <3>1
      <3>3. c[k] = b[k] /\ b[k] = d[j + k]
        BY <1>3, <1>4, <3>1
      <3> QED BY <3>2, <3>3
    <2>3. f[Len(d) - j + 1] = e /\ c[Len(d) - j + 1] = e
      <3> DEFINE k == Len(d) - j + 1
      <3>1. k \in 1..Len(a) - j /\ j + k \in 1..Len(d) + 1 /\ ~(j + k <= Len(d))
            /\ k \in 1..Len(b) + 1 /\ ~(k <= Len(b))
        BY <1>1, <1>2, <1>3
      <3> HIDE DEF k
      <3>2. f[k] = a[j + k] /\ a[j + k] = e
        BY <1>2, <1>5, <3>1
      <3>3. c[k] = e
        BY <1>4, <3>1
      <3> QED BY <3>2, <3>3 DEF k
    <2> QED BY <1>1, <2>1, <2>2, <2>3
  <1>7. f = c
    BY <1>4, <1>5, <1>6, SeqEqual
  <1> QED BY <1>7 DEF a, b, c, f

LEMMA HeadIsLost ==
  ASSUME NEW S, NEW s \in Seq(S), NEW t \in Seq(S), NEW u \in Seq(S), t # <<>>, s \o t = u
  PROVE  /\ IsPrefix(s, u) /\ IsSuffix(Tail(t), u)
         /\ Len(s) + 1 + Len(Tail(t)) = Len(u)
  <1>1. /\ Len(s) \in Nat /\ Len(t) \in Nat \ {0} /\ Len(u) = Len(s) + Len(t)
        /\ \A k \in 1..Len(s) : s[k] = u[k]
        /\ \A k \in 1..Len(t) : t[k] = u[Len(s) + k]
    BY ConcatAt, LenProperties, TailAt
  <1> DEFINE b == Tail(t)
  <1>2. /\ b \in Seq(S) /\ Len(b) = Len(t) - 1
        /\ \A k \in 1..Len(t) - 1 : b[k] = t[k + 1]
    BY TailAt
  <1> HIDE DEF b
  <1>3. ASSUME NEW k \in 1..Len(b) PROVE b[k] = u[Len(u) - Len(b) + k]
    <2>1. k + 1 \in 1..Len(t) /\ Len(s) + (k + 1) = Len(u) - Len(b) + k
      BY <1>1, <1>2
    <2> QED BY <1>1, <1>2, <2>1
  <1>4. b \in Seq(S) /\ Len(b) <= Len(u) /\ Len(s) + 1 + Len(b) = Len(u)
    BY <1>1, <1>2
  <1>6. IsSuffix(b, u)
    BY <1>3, <1>4, SuffixAt
  <1>5. IsPrefix(s, u)
    BY <1>1, PrefixAt
  <1> QED BY <1>4, <1>5, <1>6 DEF b

-----------------------------------------------------------------------------
(* The inductive invariant. *)
BusShape ==
  /\ queue \in [Process -> Seq(Event)] /\ published \in [Process -> Seq(Event)]
  /\ history \in [Process -> Seq(Event)] /\ dispatched \in [Process -> Seq(Event)]
  /\ inbox \in [Client -> Seq(Event)] /\ received \in [Client -> Seq(Event)]
  /\ socket \in [Client -> Socket] /\ joined \in [Client -> Nat]
  /\ subscribed \subseteq Client
  /\ restarts \in 0..MaxRestarts /\ nextEvent \in 1..(MaxEvents + 1)
  /\ \A c \in Client :
       socket[c] = "new" => c \notin subscribed /\ inbox[c] = <<>> /\ received[c] = <<>>

(* A bus in order: until a ring has been cut it holds the whole history. *)
InOrder(p) ==
  /\ dispatched[p] \o queue[p] = history[p]
  /\ Len(published[p]) <= RingMax
  /\ IsSuffix(published[p], history[p])
  /\ Len(published[p]) = Len(history[p]) \/ Len(published[p]) > RingMax - RingCut

(* What a dashboard that subscribed after j events hears of those dispatched. *)
Follows(c) ==
  LET since == After(dispatched[Api], joined[c])
  IN  IF socket[c] \in {"open", "gone"}
      THEN received[c] \o inbox[c] = since
      ELSE /\ IsPrefix(received[c], since)
           /\ IsSuffix(inbox[c], since)
           /\ Len(received[c]) + 1 + Len(inbox[c]) = Len(since)

Follower(c) == joined[c] <= Len(dispatched[Api]) /\ Follows(c)

BusIInv ==
  /\ BusShape
  /\ \A p \in Process : InOrder(p)
  /\ \A c \in subscribed : Follower(c)

LEMMA ShapeIsTyped == BusShape => TypeOK
  BY DEF BusShape, TypeOK

LEMMA BusInit == Init => BusIInv
  <1> SUFFICES ASSUME Init PROVE BusIInv
    OBVIOUS
  <1> USE BusAssumption DEF Init
  <1>1. <<>> \in Seq(Event) /\ Len(<<>>) = 0
    OBVIOUS
  <1>2. BusShape
    BY <1>1 DEF BusShape, Socket
  <1>3. \A p \in Process : InOrder(p)
    <2>1. IsSuffix(<<>>, <<>>)
      <3>1. Len(<<>>) <= Len(<<>>) /\ 1..Len(<<>>) = {}
        BY <1>1
      <3> QED BY <1>1, <3>1, SuffixAt
    <2>2. <<>> \o <<>> = <<>>
      BY <1>1, ConcatEmptySeq
    <2> QED BY <1>1, <2>1, <2>2 DEF InOrder
  <1> QED BY <1>2, <1>3 DEF BusIInv

(* publish. *)
LEMMA PublishKeeps ==
  ASSUME BusIInv, NEW p \in Process, Publish(p)
  PROVE  BusIInv'
  <1> USE BusAssumption
  <1> DEFINE e == nextEvent
             ring == Append(published[p], e)
  <1>1. /\ BusShape /\ e \in Event /\ InOrder(p)
        /\ queue[p] \in Seq(Event) /\ published[p] \in Seq(Event)
        /\ history[p] \in Seq(Event) /\ dispatched[p] \in Seq(Event)
    BY DEF BusIInv, BusShape, Publish, Event
  <1>2. /\ published' = [published EXCEPT ![p] = Trimmed(ring)]
        /\ queue' = [queue EXCEPT ![p] = Append(queue[p], e)]
        /\ history' = [history EXCEPT ![p] = Append(history[p], e)]
        /\ nextEvent' = e + 1 /\ e <= MaxEvents
        /\ UNCHANGED <<subscribed, socket, inbox, received, restarts, dispatched, joined>>
    BY DEF Publish
  <1>3. /\ Append(queue[p], e) \in Seq(Event) /\ Append(history[p], e) \in Seq(Event)
        /\ ring \in Seq(Event) /\ Len(ring) = Len(published[p]) + 1
        /\ Len(Append(history[p], e)) = Len(history[p]) + 1
        /\ IsSuffix(ring, Append(history[p], e))
        /\ Len(published[p]) \in Nat /\ Len(history[p]) \in Nat
    BY <1>1, AppendProperties, AppendKeepsSuffix, LenProperties DEF InOrder
  <1>11. /\ Len(published[p]) <= RingMax
         /\ Len(published[p]) = Len(history[p]) \/ Len(published[p]) > RingMax - RingCut
    BY <1>1 DEF InOrder
  <1> HIDE DEF e, ring
  <1>4. /\ Trimmed(ring) \in Seq(Event)
        /\ IsSuffix(Trimmed(ring), Append(history[p], e))
        /\ Len(Trimmed(ring)) <= RingMax
        /\ \/ Len(Trimmed(ring)) = Len(history[p]) + 1
           \/ Len(Trimmed(ring)) > RingMax - RingCut
    <2>1. CASE Len(ring) > RingMax
      <3> DEFINE cut == SubSeq(ring, RingCut + 1, Len(ring))
      <3>1. RingCut \in 0..Len(ring)
        BY <1>3, <2>1
      <3>2. cut \in Seq(Event) /\ Len(cut) = Len(ring) - RingCut
            /\ IsSuffix(cut, Append(history[p], e))
        BY <1>3, <3>1, CutKeepsSuffix
      <3>3. Trimmed(ring) = cut
        BY <2>1 DEF Trimmed
      <3> HIDE DEF cut
      <3>4. Len(ring) = RingMax + 1
        BY <1>3, <1>11, <2>1
      <3> QED BY <3>2, <3>3, <3>4
    <2>2. CASE ~(Len(ring) > RingMax)
      <3>1. Trimmed(ring) = ring
        BY <2>2 DEF Trimmed
      <3>2. Len(ring) = Len(history[p]) + 1 \/ Len(ring) > RingMax - RingCut
        BY <1>3, <1>11
      <3> QED BY <1>3, <2>2, <3>1, <3>2
    <2> QED BY <2>1, <2>2
  <1>5. dispatched[p] \o Append(queue[p], e) = Append(history[p], e)
    BY <1>1, AppendKeepsConcat DEF InOrder
  <1>6. BusShape'
    <2>1. nextEvent' \in 1..(MaxEvents + 1)
      BY <1>1, <1>2 DEF Event
    <2>2. /\ published' \in [Process -> Seq(Event)] /\ queue' \in [Process -> Seq(Event)]
          /\ history' \in [Process -> Seq(Event)]
      BY <1>1, <1>2, <1>3, <1>4 DEF BusShape
    <2> QED BY <1>1, <1>2, <2>1, <2>2 DEF BusShape
  <1>7. /\ published'[p] = Trimmed(ring) /\ queue'[p] = Append(queue[p], e)
        /\ history'[p] = Append(history[p], e) /\ dispatched'[p] = dispatched[p]
        /\ \A q \in Process : q # p =>
             /\ published'[q] = published[q] /\ queue'[q] = queue[q]
             /\ history'[q] = history[q] /\ dispatched'[q] = dispatched[q]
    BY <1>1, <1>2 DEF BusShape
  <1>8. InOrder(p)'
    BY <1>3, <1>4, <1>5, <1>7 DEF InOrder
  <1>9. \A q \in Process : q # p => InOrder(q)'
    BY <1>7 DEF BusIInv, InOrder
  <1>10. \A c \in subscribed' : Follower(c)'
    BY <1>2 DEF BusIInv, Follower, Follows
  <1> QED BY <1>6, <1>8, <1>9, <1>10 DEF BusIInv

(* _dispatch hands the event to every dashboard that is subscribed. *)
LEMMA DispatchFollows ==
  ASSUME BusShape, NEW e \in Event, NEW c \in subscribed, Follower(c),
         dispatched'[Api] = Append(dispatched[Api], e),
         inbox'[c] = Append(inbox[c], e),
         received'[c] = received[c], joined'[c] = joined[c], socket'[c] = socket[c]
  PROVE  Follower(c)'
  <1> USE BusAssumption
  <1> DEFINE d == dispatched[Api]
             j == joined[c]
             since == After(d, j)
  <1>1. /\ d \in Seq(Event) /\ j \in 0..Len(d) /\ c \in Client
        /\ received[c] \in Seq(Event) /\ inbox[c] \in Seq(Event)
        /\ Len(d) \in Nat
    BY LenProperties DEF BusShape, Follower
  <1>2. After(Append(d, e), j) = Append(since, e) /\ since \in Seq(Event)
    BY <1>1, AfterGrows, AfterAt
  <1>3. Len(Append(d, e)) = Len(d) + 1
    BY <1>1, AppendProperties
  <1>4. joined'[c] <= Len(dispatched'[Api])
    BY <1>1, <1>3
  <1>5. After(dispatched'[Api], joined'[c]) = Append(since, e)
    BY <1>2
  <1> HIDE DEF since
  <1>6. CASE socket[c] \in {"open", "gone"}
    <2>1. received[c] \o inbox[c] = since
      BY <1>6 DEF Follower, Follows, since
    <2>2. received[c] \o Append(inbox[c], e) = Append(since, e)
      BY <1>1, <1>2, <2>1, AppendKeepsConcat
    <2> QED BY <1>4, <1>5, <1>6, <2>2 DEF Follower, Follows
  <1>7. CASE socket[c] \notin {"open", "gone"}
    <2>1. /\ IsPrefix(received[c], since)
          /\ IsSuffix(inbox[c], since)
          /\ Len(received[c]) + 1 + Len(inbox[c]) = Len(since)
      BY <1>7 DEF Follower, Follows, since
    <2>2. /\ IsPrefix(received[c], Append(since, e))
          /\ IsSuffix(Append(inbox[c], e), Append(since, e))
      BY <1>1, <1>2, <2>1, AppendKeepsPrefix, AppendKeepsSuffix
    <2>3. Len(received[c]) + 1 + Len(Append(inbox[c], e)) = Len(Append(since, e))
      <3>1. /\ Len(Append(inbox[c], e)) = Len(inbox[c]) + 1
            /\ Len(Append(since, e)) = Len(since) + 1
        BY <1>1, <1>2, AppendProperties
      <3>2. Len(received[c]) \in Nat /\ Len(inbox[c]) \in Nat /\ Len(since) \in Nat
        BY <1>1, <1>2, LenProperties
      <3> DEFINE r == Len(received[c])
                 i == Len(inbox[c])
                 n == Len(since)
      <3>3. r + 1 + i = n /\ r \in Nat /\ i \in Nat /\ n \in Nat
        BY <2>1, <3>2
      <3> HIDE DEF r, i, n
      <3>4. r + 1 + (i + 1) = n + 1
        BY <3>3
      <3> QED BY <3>1, <3>4, Zenon DEF r, i, n
    <2> QED BY <1>4, <1>5, <1>7, <2>2, <2>3 DEF Follower, Follows
  <1> QED BY <1>6, <1>7

LEMMA DispatchKeeps ==
  ASSUME BusIInv, NEW p \in Process, Dispatch(p)
  PROVE  BusIInv'
  <1> USE BusAssumption
  <1> DEFINE e == Head(queue[p])
  <1>1. /\ BusShape /\ InOrder(p) /\ queue[p] # <<>>
        /\ queue[p] \in Seq(Event) /\ dispatched[p] \in Seq(Event)
    BY DEF BusIInv, BusShape, Dispatch
  <1>2. e \in Event /\ Tail(queue[p]) \in Seq(Event)
    BY <1>1, HeadTailProperties
  <1>3. /\ queue' = [queue EXCEPT ![p] = Tail(queue[p])]
        /\ inbox' = [c \in Client |->
             IF c \in Listeners(p) THEN Append(inbox[c], e) ELSE inbox[c]]
        /\ dispatched' = [dispatched EXCEPT ![p] = Append(dispatched[p], e)]
        /\ UNCHANGED <<published, subscribed, socket, received, restarts, nextEvent,
                       history, joined>>
    BY DEF Dispatch
  <1>4. Append(dispatched[p], e) \o Tail(queue[p]) = history[p]
    BY <1>1, HeadMovesOver DEF InOrder
  <1> HIDE DEF e
  <1>5. Append(dispatched[p], e) \in Seq(Event)
    BY <1>1, <1>2, AppendProperties
  <1>6. /\ queue' \in [Process -> Seq(Event)] /\ dispatched' \in [Process -> Seq(Event)]
        /\ queue'[p] = Tail(queue[p]) /\ dispatched'[p] = Append(dispatched[p], e)
        /\ \A q \in Process : q # p => queue'[q] = queue[q] /\ dispatched'[q] = dispatched[q]
    BY <1>1, <1>2, <1>3, <1>5 DEF BusShape
  <1>7. ASSUME NEW c \in Client
        PROVE  /\ inbox'[c] \in Seq(Event)
               /\ c \notin subscribed => inbox'[c] = inbox[c]
               /\ p # Api => inbox'[c] = inbox[c]
               /\ c \in subscribed /\ p = Api => inbox'[c] = Append(inbox[c], e)
    <2>1. inbox[c] \in Seq(Event) /\ Append(inbox[c], e) \in Seq(Event)
      BY <1>1, <1>2, AppendProperties DEF BusShape
    <2> QED BY <1>3, <2>1 DEF Listeners
  <1>8. BusShape'
    <2>1. inbox' \in [Client -> Seq(Event)]
      BY <1>3, <1>7
    <2> QED BY <1>1, <1>3, <1>6, <1>7, <2>1 DEF BusShape
  <1>9. \A q \in Process : InOrder(q)'
    <2>1. InOrder(p)'
      BY <1>1, <1>3, <1>4, <1>6 DEF InOrder
    <2> QED BY <1>3, <1>6, <2>1 DEF BusIInv, InOrder
  <1>10. ASSUME NEW c \in subscribed
         PROVE  Follower(c)'
    <2>1. c \in Client /\ Follower(c)
      BY <1>1 DEF BusIInv, BusShape
    <2>2. CASE p = Api
      BY <1>1, <1>2, <1>3, <1>6, <1>7, <2>1, <2>2, DispatchFollows
    <2>3. CASE p # Api
      <3>1. dispatched'[Api] = dispatched[Api] /\ inbox'[c] = inbox[c]
        BY <1>6, <1>7, <2>1, <2>3
      <3> QED BY <1>3, <2>1, <3>1 DEF Follower, Follows
    <2> QED BY <2>2, <2>3
  <1> QED BY <1>3, <1>8, <1>9, <1>10 DEF BusIInv

(* ws_events accepts a dashboard: it has heard of nothing, and nothing has been
   dispatched since. *)
LEMMA ConnectKeeps ==
  ASSUME BusIInv, NEW c \in Client, Connect(c)
  PROVE  BusIInv'
  <1> USE BusAssumption
  <1>1. /\ BusShape /\ dispatched[Api] \in Seq(Event) /\ Len(dispatched[Api]) \in Nat
        /\ socket[c] = "new" /\ inbox[c] = <<>> /\ received[c] = <<>> /\ c \notin subscribed
    BY LenProperties DEF BusIInv, BusShape, Connect
  <1>2. /\ socket' = [socket EXCEPT ![c] = "open"]
        /\ subscribed' = subscribed \cup {c}
        /\ joined' = [joined EXCEPT ![c] = Len(dispatched[Api])]
        /\ UNCHANGED <<queue, published, inbox, received, restarts, nextEvent, history,
                       dispatched>>
    BY DEF Connect
  <1>3. BusShape'
    BY <1>1, <1>2 DEF BusShape, Socket
  <1>4. \A p \in Process : InOrder(p)'
    BY <1>2 DEF BusIInv, InOrder
  <1>5. socket'[c] = "open" /\ joined'[c] = Len(dispatched[Api])
    BY <1>1, <1>2 DEF BusShape
  <1>6. After(dispatched[Api], Len(dispatched[Api])) = <<>> /\ <<>> \o <<>> = <<>>
    BY <1>1, SubSeqEmpty, ConcatEmptySeq, EmptySeq DEF After
  <1>7. Follower(c)'
    <2>1. /\ joined'[c] <= Len(dispatched'[Api])
          /\ After(dispatched'[Api], joined'[c]) = <<>>
          /\ received'[c] \o inbox'[c] = <<>>
      BY <1>1, <1>2, <1>5, <1>6
    <2> QED BY <1>5, <2>1 DEF Follower, Follows
  <1>8. ASSUME NEW d \in subscribed PROVE Follower(d)'
    <2>1. socket'[d] = socket[d] /\ joined'[d] = joined[d]
      BY <1>1, <1>2 DEF BusShape
    <2> QED BY <1>2, <2>1 DEF BusIInv, Follower, Follows
  <1> QED BY <1>2, <1>3, <1>4, <1>7, <1>8 DEF BusIInv

LEMMA LeaveKeeps ==
  ASSUME BusIInv, NEW c \in Client, Leave(c)
  PROVE  BusIInv'
  <1>1. BusShape /\ socket[c] = "open" /\ socket' = [socket EXCEPT ![c] = "gone"]
        /\ UNCHANGED <<queue, published, subscribed, inbox, received, restarts, nextEvent,
                       history, dispatched, joined>>
    BY DEF BusIInv, Leave
  <1>2. BusShape'
    BY <1>1 DEF BusShape, Socket
  <1>3. \A p \in Process : InOrder(p)'
    BY <1>1 DEF BusIInv, InOrder
  <1>4. ASSUME NEW d \in subscribed PROVE Follower(d)'
    <2>1. socket'[d] = IF d = c THEN "gone" ELSE socket[d]
      BY <1>1 DEF BusShape
    <2>2. CASE d = c
      BY <1>1, <2>1, <2>2 DEF BusIInv, Follower, Follows
    <2>3. CASE d # c
      BY <1>1, <2>1, <2>3 DEF BusIInv, Follower, Follows
    <2> QED BY <2>2, <2>3
  <1> QED BY <1>1, <1>2, <1>3, <1>4 DEF BusIInv

(* What a handler sends moves from its queue to the dashboard. *)
LEMMA SendKeeps ==
  ASSUME BusIInv, NEW c \in Client, Send(c)
  PROVE  BusIInv'
  <1>1. /\ BusShape /\ socket[c] = "open" /\ inbox[c] # <<>>
        /\ inbox[c] \in Seq(Event) /\ received[c] \in Seq(Event)
        /\ inbox' = [inbox EXCEPT ![c] = Tail(inbox[c])]
        /\ received' = [received EXCEPT ![c] = Append(received[c], Head(inbox[c]))]
        /\ UNCHANGED <<queue, published, subscribed, socket, restarts, nextEvent, history,
                       dispatched, joined>>
    BY DEF BusIInv, BusShape, Send
  <1>2. /\ Tail(inbox[c]) \in Seq(Event) /\ Head(inbox[c]) \in Event
        /\ Append(received[c], Head(inbox[c])) \in Seq(Event)
        /\ Append(received[c], Head(inbox[c])) \o Tail(inbox[c]) = received[c] \o inbox[c]
    <2>1. Tail(inbox[c]) \in Seq(Event) /\ Head(inbox[c]) \in Event
      BY <1>1, HeadTailProperties
    <2> QED BY <1>1, <2>1, AppendProperties, HeadMovesOver
  <1>3. /\ inbox'[c] = Tail(inbox[c]) /\ received'[c] = Append(received[c], Head(inbox[c]))
        /\ \A d \in Client : d # c => inbox'[d] = inbox[d] /\ received'[d] = received[d]
    BY <1>1 DEF BusShape
  <1>4. BusShape'
    BY <1>1, <1>2, <1>3 DEF BusShape
  <1>5. \A p \in Process : InOrder(p)'
    BY <1>1 DEF BusIInv, InOrder
  <1>6. ASSUME NEW d \in subscribed PROVE Follower(d)'
    <2>1. Follower(d) /\ d \in Client
      BY <1>1 DEF BusIInv, BusShape
    <2>2. CASE d = c
      <3>1. received'[c] \o inbox'[c] = After(dispatched[Api], joined[c])
        BY <1>1, <1>2, <1>3, <2>1, <2>2 DEF Follower, Follows
      <3> QED BY <1>1, <2>1, <2>2, <3>1 DEF Follower, Follows
    <2>3. CASE d # c
      <3>1. inbox'[d] = inbox[d] /\ received'[d] = received[d]
        BY <1>3, <2>1, <2>3
      <3> QED BY <1>1, <2>1, <3>1 DEF Follower, Follows
    <2> QED BY <2>2, <2>3
  <1> QED BY <1>1, <1>4, <1>5, <1>6 DEF BusIInv

(* A handler that finds its dashboard gone loses the event in its hands. *)
LEMMA SendFailsKeeps ==
  ASSUME BusIInv, NEW c \in Client, SendFails(c)
  PROVE  BusIInv'
  <1> USE BusAssumption
  <1>1. /\ BusShape /\ socket[c] = "gone" /\ inbox[c] # <<>>
        /\ inbox[c] \in Seq(Event) /\ received[c] \in Seq(Event)
        /\ inbox' = [inbox EXCEPT ![c] = Tail(inbox[c])]
        /\ socket' = [socket EXCEPT ![c] = "closed"]
        /\ UNCHANGED <<queue, published, subscribed, received, restarts, nextEvent, history,
                       dispatched, joined>>
    BY DEF BusIInv, BusShape, SendFails
  <1>2. Tail(inbox[c]) \in Seq(Event)
    BY <1>1, HeadTailProperties
  <1>3. /\ inbox'[c] = Tail(inbox[c]) /\ socket'[c] = "closed"
        /\ \A d \in Client : d # c => inbox'[d] = inbox[d] /\ socket'[d] = socket[d]
    BY <1>1 DEF BusShape
  <1>4. BusShape'
    BY <1>1, <1>2, <1>3 DEF BusShape, Socket
  <1>5. \A p \in Process : InOrder(p)'
    BY <1>1 DEF BusIInv, InOrder
  <1>6. ASSUME NEW d \in subscribed PROVE Follower(d)'
    <2>1. Follower(d) /\ d \in Client
      BY <1>1 DEF BusIInv, BusShape
    <2>2. CASE d = c
      <3> DEFINE since == After(dispatched[Api], joined[c])
      <3>1. since \in Seq(Event)
        <4>1. dispatched[Api] \in Seq(Event) /\ Len(dispatched[Api]) \in Nat /\ joined[c] \in Nat
              /\ joined[c] <= Len(dispatched[Api])
          BY <1>1, <2>1, <2>2, LenProperties DEF BusShape, Follower
        <4>2. joined[c] \in 0..Len(dispatched[Api])
          BY <4>1
        <4> QED BY <4>1, <4>2, AfterAt
      <3>2. received[c] \o inbox[c] = since
        BY <1>1, <2>1, <2>2 DEF Follower, Follows
      <3> HIDE DEF since
      <3>3. /\ IsPrefix(received[c], since) /\ IsSuffix(Tail(inbox[c]), since)
            /\ Len(received[c]) + 1 + Len(Tail(inbox[c])) = Len(since)
        <4> DEFINE r == received[c]
                   i == inbox[c]
        <4>1. r \in Seq(Event) /\ i \in Seq(Event) /\ i # <<>> /\ r \o i = since
          BY <1>1, <3>2
        <4> HIDE DEF r, i
        <4>2. IsPrefix(r, since) /\ IsSuffix(Tail(i), since) /\ Len(r) + 1 + Len(Tail(i)) = Len(since)
          BY <3>1, <4>1, HeadIsLost
        <4> QED BY <4>2 DEF r, i
      <3>4. socket'[c] \notin {"open", "gone"}
        BY <1>3
      <3>5. joined'[c] <= Len(dispatched'[Api])
        BY <1>1, <2>1, <2>2 DEF Follower
      <3> QED BY <1>1, <1>3, <2>2, <3>3, <3>4, <3>5 DEF Follower, Follows, since
    <2>3. CASE d # c
      <3>1. inbox'[d] = inbox[d] /\ socket'[d] = socket[d]
        BY <1>3, <2>1, <2>3
      <3> QED BY <1>1, <2>1, <3>1 DEF Follower, Follows
    <2> QED BY <2>2, <2>3
  <1> QED BY <1>1, <1>4, <1>5, <1>6 DEF BusIInv

(* The API starts again with an empty bus and no connections. *)
LEMMA RestartKeeps ==
  ASSUME BusIInv, Restart
  PROVE  BusIInv'
  <1> USE BusAssumption
  <1>1. BusShape /\ <<>> \in Seq(Event) /\ Len(<<>>) = 0
    BY DEF BusIInv
  <1>2. BusShape'
    BY <1>1 DEF Restart, BusShape, Socket
  <1>3. InOrder(Api)'
    <2>1. /\ queue'[Api] = <<>> /\ published'[Api] = <<>> /\ history'[Api] = <<>>
          /\ dispatched'[Api] = <<>>
      BY <1>1 DEF Restart, BusShape
    <2>2. IsSuffix(<<>>, <<>>) /\ <<>> \o <<>> = <<>>
      <3>1. Len(<<>>) <= Len(<<>>) /\ 1..Len(<<>>) = {}
        BY <1>1
      <3> QED BY <1>1, <3>1, SuffixAt, ConcatEmptySeq
    <2> QED BY <1>1, <2>1, <2>2 DEF InOrder
  <1>4. ASSUME NEW p \in Process, p # Api PROVE InOrder(p)'
    <2>1. /\ queue'[p] = queue[p] /\ published'[p] = published[p] /\ history'[p] = history[p]
          /\ dispatched'[p] = dispatched[p]
      BY <1>1, <1>4 DEF Restart, BusShape
    <2> QED BY <2>1 DEF BusIInv, InOrder
  <1>5. subscribed' = {}
    BY DEF Restart
  <1> QED BY <1>2, <1>3, <1>4, <1>5 DEF BusIInv

LEMMA BusStep == BusIInv /\ [Next]_vars => BusIInv'
  <1> SUFFICES ASSUME BusIInv, [Next]_vars PROVE BusIInv'
    OBVIOUS
  <1>1. CASE UNCHANGED vars
    BY <1>1 DEF vars, BusIInv, BusShape, InOrder, Follower, Follows
  <1> QED
    BY <1>1, PublishKeeps, DispatchKeeps, ConnectKeeps, LeaveKeeps, SendKeeps, SendFailsKeeps,
       RestartKeeps DEF Next

(* Whatever is published, sent and restarted: no event is lost, repeated or
   overtaken between publish and dispatch, and each ring ends with the latest
   events, a bounded number of them and never fewer than its cut leaves
   (publish, _dispatch). *)
THEOREM BusSafe == Spec => []BusInv
  <1>1. BusIInv => BusInv
    <2> SUFFICES ASSUME BusIInv, NEW p \in Process
                 PROVE  /\ dispatched[p] \o queue[p] = history[p]
                        /\ Len(published[p]) <= RingMax
                        /\ IsSuffix(published[p], history[p])
                        /\ Len(history[p]) > RingMax - RingCut => Len(published[p]) > RingMax - RingCut
      BY ShapeIsTyped DEF BusIInv, BusInv, BusKeepsOrder
    <2> QED BY DEF BusIInv, InOrder
  <1> QED BY BusInit, BusStep, <1>1, PTL DEF Spec

(* What a dashboard got, with what its handler still holds, is what the bus
   dispatched since it subscribed, in that order; only a handler that finds its
   dashboard gone loses one event, and none before it (ws_events, _dispatch). *)
THEOREM DashboardsHearInOrder == Spec => []DashboardInOrder
  <1>1. BusIInv => DashboardInOrder
    BY DEF BusIInv, Follower, Follows, After, DashboardInOrder
  <1> QED BY BusInit, BusStep, <1>1, PTL DEF Spec
=============================================================================
