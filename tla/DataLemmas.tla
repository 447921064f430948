----------------------------- MODULE DataLemmas -----------------------------
(***************************************************************************)
(* Facts about data that several proofs need.  Queues: a sequence that     *)
(* lists each of its elements once - the wait queue of the network         *)
(* scheduler, the order of the tab strip - and what appending, serving its *)
(* head and leaving its middle do to the set of its elements.  Counting:   *)
(* induction over the naturals for a set of naturals.  Sums: the fold that *)
(* adds F[x] for all x of a finite set, whatever order it takes them in.   *)
(* Sequences: what a filter keeps, and what stringing sequences together   *)
(* makes of their elements.                                                *)
(***************************************************************************)
EXTENDS Integers, SequencesExt, SequenceTheorems, FiniteSetTheorems, WellFoundedInduction, TLAPS

LEMMA QueueAppend ==
  ASSUME NEW S, NEW s \in Seq(S), IsInjective(s), NEW e \in S, e \notin ToSet(s)
  PROVE  /\ Append(s, e) \in Seq(S)
         /\ ToSet(Append(s, e)) = ToSet(s) \cup {e}
         /\ IsInjective(Append(s, e))
  <1> DEFINE t == Append(s, e)
  <1>1. /\ Len(s) \in Nat /\ DOMAIN s = 1..Len(s)
        /\ t \in Seq(S) /\ DOMAIN t = 1..(Len(s) + 1)
        /\ \A i \in 1..Len(s) : t[i] = s[i]
        /\ t[Len(s) + 1] = e
    BY AppendProperties, LenProperties
  <1> HIDE DEF t
  <1>2. ToSet(t) = ToSet(s) \cup {e}
    BY <1>1 DEF ToSet
  <1>3. IsInjective(t)
    BY <1>1 DEF IsInjective, ToSet
  <1> QED BY <1>1, <1>2, <1>3 DEF t

LEMMA QueueTail ==
  ASSUME NEW S, NEW s \in Seq(S), IsInjective(s), s # <<>>
  PROVE  /\ Tail(s) \in Seq(S)
         /\ Head(s) \in ToSet(s)
         /\ ToSet(Tail(s)) = ToSet(s) \ {Head(s)}
         /\ IsInjective(Tail(s))
  <1> DEFINE t == Tail(s)
  <1>1. /\ Len(s) \in Nat \ {0} /\ DOMAIN s = 1..Len(s)
        /\ t \in Seq(S) /\ DOMAIN t = 1..(Len(s) - 1)
        /\ \A i \in 1..(Len(s) - 1) : t[i] = s[i + 1]
        /\ Head(s) = s[1]
    BY HeadTailProperties, LenProperties, EmptySeq
  <1> HIDE DEF t
  <1>2. ToSet(t) = ToSet(s) \ {s[1]}
    <2>1. ASSUME NEW x \in ToSet(t) PROVE x \in ToSet(s) \ {s[1]}
      BY <1>1, <2>1 DEF ToSet, IsInjective
    <2>2. ASSUME NEW x \in ToSet(s), x # s[1] PROVE x \in ToSet(t)
      <3>1. PICK i \in 1..Len(s) : s[i] = x
        BY <1>1 DEF ToSet
      <3>2. i - 1 \in DOMAIN t /\ t[i - 1] = x
        BY <1>1, <2>2, <3>1
      <3> QED BY <3>2 DEF ToSet
    <2> QED BY <2>1, <2>2
  <1>3. IsInjective(t)
    <2> SUFFICES ASSUME NEW i \in DOMAIN t, NEW j \in DOMAIN t, t[i] = t[j]
                 PROVE  i = j
      BY DEF IsInjective
    <2>1. /\ i + 1 \in DOMAIN s /\ j + 1 \in DOMAIN s /\ i \in Nat /\ j \in Nat
          /\ s[i + 1] = s[j + 1]
      BY <1>1
    <2>2. i + 1 = j + 1
      BY <2>1 DEF IsInjective
    <2> QED BY <2>1, <2>2
  <1>4. Head(s) \in ToSet(s)
    BY <1>1 DEF ToSet
  <1> QED BY <1>1, <1>2, <1>3, <1>4 DEF t

LEMMA QueueRemove ==
  ASSUME NEW S, NEW s \in Seq(S), IsInjective(s), NEW k \in DOMAIN s
  PROVE  /\ RemoveAt(s, k) \in Seq(S)
         /\ ToSet(RemoveAt(s, k)) = ToSet(s) \ {s[k]}
         /\ IsInjective(RemoveAt(s, k))
  <1> DEFINE a == SubSeq(s, 1, k - 1)
             b == SubSeq(s, k + 1, Len(s))
             t == RemoveAt(s, k)
  <1>1. Len(s) \in Nat /\ DOMAIN s = 1..Len(s) /\ k \in 1..Len(s)
    BY LenProperties
  <1>2. \A i \in 1..Len(s) : s[i] \in S
    BY ElementOfSeq
  <1>3. /\ a \in Seq(S) /\ Len(a) = k - 1
        /\ \A i \in 1..(k - 1) : a[i] = s[i]
    <2>1. \A i \in 1..(k - 1) : s[i] \in S
      BY <1>1, <1>2
    <2>2. 1 \in Int /\ k - 1 \in Int
      BY <1>1
    <2> HIDE DEF a
    <2>3. /\ SubSeq(s, 1, k - 1) \in Seq(S)
          /\ Len(SubSeq(s, 1, k - 1)) = IF 1 <= k - 1 THEN k - 1 - 1 + 1 ELSE 0
          /\ \A i \in 1..(k - 1 - 1 + 1) : SubSeq(s, 1, k - 1)[i] = s[1 + i - 1]
      BY <2>1, <2>2, SubSeqProperties
    <2> QED BY <1>1, <2>3 DEF a
  <1>4. /\ b \in Seq(S) /\ Len(b) = Len(s) - k
        /\ \A i \in 1..(Len(s) - k) : b[i] = s[k + i]
    <2>1. \A i \in (k + 1)..Len(s) : s[i] \in S
      BY <1>1, <1>2
    <2>2. k + 1 \in Int /\ Len(s) \in Int
      BY <1>1
    <2> HIDE DEF b
    <2>3. /\ SubSeq(s, k + 1, Len(s)) \in Seq(S)
          /\ Len(SubSeq(s, k + 1, Len(s))) =
               IF k + 1 <= Len(s) THEN Len(s) - (k + 1) + 1 ELSE 0
          /\ \A i \in 1..(Len(s) - (k + 1) + 1) :
               SubSeq(s, k + 1, Len(s))[i] = s[k + 1 + i - 1]
      BY <2>1, <2>2, SubSeqProperties
    <2> QED BY <1>1, <2>3 DEF b
  <1> HIDE DEF a, b
  <1>5. /\ t \in Seq(S) /\ Len(t) = Len(s) - 1
        /\ \A i \in 1..(Len(s) - 1) : t[i] = IF i <= k - 1 THEN s[i] ELSE s[i + 1]
    <2>1. t = a \o b
      BY DEF a, b, RemoveAt
    <2>2. /\ a \o b \in Seq(S) /\ Len(a \o b) = Len(a) + Len(b)
          /\ \A i \in 1..(Len(a) + Len(b)) :
               (a \o b)[i] = IF i <= Len(a) THEN a[i] ELSE b[i - Len(a)]
      BY <1>3, <1>4, ConcatProperties
    <2> HIDE DEF t
    <2>3. ASSUME NEW i \in 1..(Len(s) - 1)
          PROVE  t[i] = IF i <= k - 1 THEN s[i] ELSE s[i + 1]
      <3>1. t[i] = IF i <= k - 1 THEN a[i] ELSE b[i - (k - 1)]
        BY <1>1, <1>3, <1>4, <2>1, <2>2
      <3>2. CASE i <= k - 1
        BY <1>1, <1>3, <3>1, <3>2
      <3>3. CASE ~(i <= k - 1)
        <4>1. i - (k - 1) \in 1..(Len(s) - k) /\ k + (i - (k - 1)) = i + 1
          BY <1>1, <3>3
        <4>2. b[i - (k - 1)] = s[k + (i - (k - 1))]
          BY <1>4, <4>1
        <4> QED BY <3>1, <3>3, <4>1, <4>2
      <3> QED BY <3>2, <3>3
    <2> QED BY <1>1, <1>3, <1>4, <2>1, <2>2, <2>3
  <1>6. DOMAIN t = 1..(Len(s) - 1)
    BY <1>5, LenProperties
  <1> HIDE DEF t
  <1>7. ToSet(t) = ToSet(s) \ {s[k]}
    <2>1. ASSUME NEW x \in ToSet(t) PROVE x \in ToSet(s) \ {s[k]}
      <3>1. PICK i \in 1..(Len(s) - 1) : t[i] = x
        BY <1>6 DEF ToSet
      <3>2. PICK j \in 1..Len(s) : j # k /\ s[j] = x
        <4>1. CASE i <= k - 1
          BY <1>1, <1>5, <3>1, <4>1
        <4>2. CASE ~(i <= k - 1)
          <5>1. i + 1 \in 1..Len(s) /\ i + 1 # k
            BY <1>1, <4>2
          <5>2. s[i + 1] = x
            BY <1>5, <3>1, <4>2
          <5> QED BY <5>1, <5>2
        <4> QED BY <4>1, <4>2
      <3>3. x # s[k]
        BY <1>1, <3>2 DEF IsInjective
      <3> QED BY <1>1, <3>2, <3>3 DEF ToSet
    <2>2. ASSUME NEW x \in ToSet(s), x # s[k] PROVE x \in ToSet(t)
      <3>1. PICK i \in 1..Len(s) : s[i] = x
        BY <1>1 DEF ToSet
      <3>2. CASE i < k
        BY <1>1, <1>5, <1>6, <3>1, <3>2 DEF ToSet
      <3>3. CASE i > k
        <4>1. i - 1 \in DOMAIN t /\ t[i - 1] = x
          BY <1>1, <1>5, <1>6, <3>1, <3>3
        <4> QED BY <4>1 DEF ToSet
      <3> QED BY <1>1, <2>2, <3>1, <3>2, <3>3
    <2> QED BY <2>1, <2>2
  <1>8. IsInjective(t)
    <2> SUFFICES ASSUME NEW i \in DOMAIN t, NEW j \in DOMAIN t, t[i] = t[j]
                 PROVE  i = j
      BY DEF IsInjective
    <2> DEFINE origin(n) == IF n <= k - 1 THEN n ELSE n + 1
    <2>1. /\ i \in 1..(Len(s) - 1) /\ j \in 1..(Len(s) - 1)
          /\ origin(i) \in DOMAIN s /\ origin(j) \in DOMAIN s
      BY <1>1, <1>6
    <2>2. s[origin(i)] = s[origin(j)]
      BY <1>5, <2>1
    <2>3. origin(i) = origin(j)
      <3> HIDE DEF origin
      <3> QED BY <2>1, <2>2 DEF IsInjective
    <2> QED BY <1>1, <2>1, <2>3
  <1> QED BY <1>5, <1>7, <1>8 DEF t
-----------------------------------------------------------------------------
(* A set of naturals that is not empty has a least element; hence          *)
(* induction: a set with 0 and all successors is everything.               *)
LEMMA Least ==
  ASSUME NEW S, S \subseteq Nat, S # {}
  PROVE  \E x \in S : \A y \in S : x <= y
  <1> DEFINE Less == {p \in Nat \X Nat : p[1] < p[2]}
  <1>1. IsWellFoundedOn(Less, Nat)
    BY NatLessThanWellFounded DEF OpToRel
  <1>2. PICK x \in S : \A y \in S : ~(<<y, x>> \in Less)
    <2> HIDE DEF Less
    <2> QED BY <1>1, WFMin
  <1> SUFFICES ASSUME NEW y \in S PROVE x <= y
    OBVIOUS
  <1>3. x \in Nat /\ y \in Nat /\ ~(<<y, x>> \in Less)
    BY <1>2
  <1>4. ~(y < x)
    BY <1>3
  <1> QED BY <1>3, <1>4

LEMMA Counting ==
  ASSUME NEW T, T \subseteq Nat, 0 \in T, \A n \in T : n + 1 \in T
  PROVE  \A n \in Nat : n \in T
  <1> SUFFICES ASSUME NEW m \in Nat, m \notin T PROVE FALSE
    OBVIOUS
  <1>1. PICK x \in Nat \ T : \A y \in Nat \ T : x <= y
    <2> DEFINE R == Nat \ T
    <2>1. R \subseteq Nat /\ R # {}
      OBVIOUS
    <2> HIDE DEF R
    <2>2. \E x \in R : \A y \in R : x <= y
      BY <2>1, Least
    <2> QED BY <2>2 DEF R
  <1>2. x # 0 /\ x - 1 \in Nat
    BY <1>1
  <1>3. x - 1 \in T
    BY <1>1, <1>2
  <1>4. (x - 1) + 1 \in T
    BY <1>3
  <1> QED BY <1>1, <1>2, <1>4
LEMMA Greatest ==
  ASSUME NEW S, S \subseteq Nat, S # {}, NEW b \in Nat, \A x \in S : x <= b
  PROVE  \E x \in S : \A y \in S : y <= x
  <1> DEFINE R == {n \in Nat : b - n \in S}
  <1>1. R \subseteq Nat /\ R # {}
    <2>1. PICK x \in S : TRUE
      OBVIOUS
    <2>2. b - x \in Nat /\ b - (b - x) = x
      OBVIOUS
    <2> QED BY <2>2
  <1>2. PICK n \in R : \A m \in R : n <= m
    <2> HIDE DEF R
    <2> QED BY <1>1, Least
  <1>3. ASSUME NEW y \in S PROVE y <= b - n
    <2>1. b - y \in Nat /\ b - (b - y) = y /\ n \in Nat
      OBVIOUS
    <2>2. b - y \in R
      BY <2>1
    <2>3. n <= b - y
      BY <1>2, <2>2
    <2> QED BY <2>1, <2>3
  <1> QED BY <1>3

-----------------------------------------------------------------------------
Sum(F, S) == MapThenSumSet(LAMBDA x : F[x], S)
Pick(s) == CHOOSE x \in s : TRUE
(* g is the function the fold is defined by: what it says of one set.      *)
Unfold(F, g, s) == IF s = {} THEN 0 ELSE F[Pick(s)] + g[s \ {Pick(s)}]
Sums(g, F, S) == g = [s \in SUBSET S |-> Unfold(F, g, s)]

LEMMA Picked ==
  ASSUME NEW s, s # {}
  PROVE  Pick(s) \in s
  BY DEF Pick

LEMMA OneLess ==
  ASSUME NEW s, IsFiniteSet(s), NEW x \in s, NEW n \in Nat, Cardinality(s) <= n + 1
  PROVE  IsFiniteSet(s \ {x}) /\ Cardinality(s \ {x}) <= n
  <1>1. Cardinality(s) \in Nat /\ Cardinality(s \ {x}) = Cardinality(s) - 1 /\ IsFiniteSet(s \ {x})
    BY FS_RemoveElement, FS_CardinalityType
  <1> QED BY <1>1

(* The recursion has a solution, built for one cardinality after another.  *)
LEMMA SumsExist ==
  ASSUME NEW S, IsFiniteSet(S), NEW F
  PROVE  \E g : Sums(g, F, S)
  <1> DEFINE Upto(g, n) == \A s \in SUBSET S : Cardinality(s) <= n => g[s] = Unfold(F, g, s)
             Some(n) == \E g : g = [s \in SUBSET S |-> g[s]] /\ Upto(g, n)
             T == {n \in Nat : Some(n)}
  <1>0. \A s \in SUBSET S : IsFiniteSet(s) /\ Cardinality(s) \in Nat
    BY FS_Subset, FS_CardinalityType
  <1>1. 0 \in T
    <2> DEFINE g == [s \in SUBSET S |-> 0]
    <2>1. \A s \in SUBSET S : Cardinality(s) <= 0 => s = {}
      BY <1>0, FS_EmptySet
    <2>2. Upto(g, 0) /\ g = [s \in SUBSET S |-> g[s]]
      BY <2>1 DEF Unfold
    <2> HIDE DEF g, Upto
    <2>3. Some(0)
      BY <2>2
    <2> HIDE DEF Some
    <2> QED BY <2>3
  <1>2. ASSUME NEW n \in T PROVE n + 1 \in T
    <2>1. PICK g : g = [s \in SUBSET S |-> g[s]] /\ Upto(g, n)
      OBVIOUS
    <2> DEFINE h == [s \in SUBSET S |-> IF Cardinality(s) <= n THEN g[s] ELSE Unfold(F, g, s)]
    <2>2. n \in Nat /\ h = [s \in SUBSET S |-> h[s]]
      OBVIOUS
    <2>3. ASSUME NEW s \in SUBSET S, Cardinality(s) <= n + 1, s # {}
          PROVE  h[s \ {Pick(s)}] = g[s \ {Pick(s)}]
      <3>1. Pick(s) \in s /\ IsFiniteSet(s)
        BY <1>0, <2>3, Picked
      <3>2. Cardinality(s \ {Pick(s)}) <= n
        BY <2>2, <2>3, <3>1, OneLess
      <3>3. s \ {Pick(s)} \in SUBSET S
        OBVIOUS
      <3> QED BY <3>2, <3>3
    <2>4. ASSUME NEW s \in SUBSET S, Cardinality(s) <= n + 1
          PROVE  h[s] = Unfold(F, h, s)
      <3>1. h[s] = Unfold(F, g, s)
        BY <2>1
      <3>2. Unfold(F, g, s) = Unfold(F, h, s)
        <4> HIDE DEF h
        <4> QED BY <2>3, <2>4 DEF Unfold
      <3> QED BY <3>1, <3>2
    <2>5. Upto(h, n + 1)
      BY <2>4
    <2> HIDE DEF h, Upto
    <2>6. Some(n + 1)
      BY <2>2, <2>5
    <2> HIDE DEF Some
    <2> QED BY <2>2, <2>6
  <1>3. T \subseteq Nat
    OBVIOUS
  <1>4. Cardinality(S) \in T
    <2> HIDE DEF T
    <2> QED BY <1>0, <1>1, <1>2, <1>3, Counting
  <1>5. PICK g : g = [s \in SUBSET S |-> g[s]] /\ Upto(g, Cardinality(S))
    BY <1>4
  <1>6. \A s \in SUBSET S : g[s] = Unfold(F, g, s)
    <2>1. \A s \in SUBSET S : Cardinality(s) <= Cardinality(S)
      BY FS_Subset
    <2> QED BY <1>5, <2>1
  <1> QED BY <1>5, <1>6 DEF Sums

LEMMA SumIs ==
  ASSUME NEW S, IsFiniteSet(S), NEW F
  PROVE  \E g : Sums(g, F, S) /\ Sum(F, S) = g[S]
  <1> DEFINE it == CHOOSE g : g = [s \in SUBSET S |->
                     IF s = {} THEN 0 ELSE LET x == CHOOSE x \in s : TRUE IN F[x] + g[s \ {x}]]
  <1>1. Sum(F, S) = it[S]
    BY DEF Sum, MapThenSumSet, MapThenFoldSet
  <1>2. \E g : Sums(g, F, S)
    BY SumsExist
  <1>3. Sums(it, F, S)
    BY <1>2, Zenon DEF Sums, Unfold, Pick
  <1> HIDE DEF it
  <1> QED BY <1>1, <1>3

(* Two sums agree on what both are defined for.                            *)
LEMMA SumsAgree ==
  ASSUME NEW S, NEW R, NEW F, NEW G, NEW g, NEW h, Sums(g, F, S), Sums(h, G, R),
         NEW a, a \subseteq S, a \subseteq R, IsFiniteSet(a), \A x \in a : F[x] = G[x]
  PROVE  g[a] = h[a]
  <1> DEFINE T == {n \in Nat : \A s \in SUBSET a : Cardinality(s) <= n => g[s] = h[s]}
  <1>0. \A s \in SUBSET a : IsFiniteSet(s) /\ Cardinality(s) \in Nat
    BY FS_Subset, FS_CardinalityType
  <1>u. \A s \in SUBSET a : g[s] = Unfold(F, g, s) /\ h[s] = Unfold(G, h, s)
    BY DEF Sums
  <1>1. 0 \in T
    <2>1. \A s \in SUBSET a : Cardinality(s) <= 0 => s = {}
      BY <1>0, FS_EmptySet
    <2> QED BY <1>u, <2>1 DEF Unfold
  <1>2. ASSUME NEW n \in T PROVE n + 1 \in T
    <2> SUFFICES ASSUME NEW s \in SUBSET a, Cardinality(s) <= n + 1, s # {} PROVE g[s] = h[s]
      BY <1>u DEF Unfold
    <2>1. Pick(s) \in s /\ s \ {Pick(s)} \in SUBSET a
      BY Picked
    <2>2. Cardinality(s \ {Pick(s)}) <= n
      BY <1>0, <2>1, OneLess
    <2>3. g[s \ {Pick(s)}] = h[s \ {Pick(s)}] /\ F[Pick(s)] = G[Pick(s)]
      BY <2>1, <2>2
    <2> HIDE DEF T
    <2> QED BY <1>u, <2>3 DEF Unfold
  <1>3. Cardinality(a) \in T
    <2>1. T \subseteq Nat
      OBVIOUS
    <2> HIDE DEF T
    <2> QED BY <1>0, <1>1, <1>2, <2>1, Counting
  <1> QED BY <1>3, <1>0
LEMMA SumAgree ==
  ASSUME NEW S, IsFiniteSet(S), NEW F, NEW G, \A x \in S : F[x] = G[x]
  PROVE  Sum(F, S) = Sum(G, S)
  <1>1. PICK g : Sums(g, F, S) /\ Sum(F, S) = g[S]
    BY SumIs
  <1>2. PICK h : Sums(h, G, S) /\ Sum(G, S) = h[S]
    BY SumIs
  <1>3. g[S] = h[S]
    BY <1>1, <1>2, SumsAgree
  <1> QED BY <1>1, <1>2, <1>3

LEMMA SumEmpty == ASSUME NEW F PROVE Sum(F, {}) = 0
  <1>1. PICK g : Sums(g, F, {}) /\ Sum(F, {}) = g[{}]
    BY SumIs, FS_EmptySet
  <1> QED BY <1>1 DEF Sums, Unfold

(* The order in which elements are added does not matter.                  *)
LEMMA SumStep ==
  ASSUME NEW S, IsFiniteSet(S), NEW F, \A x \in S : F[x] \in Nat
  PROVE  /\ Sum(F, S) \in Nat
         /\ \A x \in S : Sum(F, S) = F[x] + Sum(F, S \ {x})
  <1>1. PICK g : Sums(g, F, S) /\ Sum(F, S) = g[S]
    BY SumIs
  <1> DEFINE Good(s) == g[s] \in Nat /\ \A x \in s : g[s] = F[x] + g[s \ {x}]
             Upto(n) == \A s \in SUBSET S : Cardinality(s) <= n => Good(s)
             T == {n \in Nat : Upto(n)}
  <1>0. \A s \in SUBSET S : IsFiniteSet(s) /\ Cardinality(s) \in Nat
    BY FS_Subset, FS_CardinalityType
  <1>u. \A s \in SUBSET S : g[s] = Unfold(F, g, s)
    BY <1>1 DEF Sums
  <1>e. Good({})
    <2>1. g[{}] = Unfold(F, g, {})
      BY <1>u
    <2>2. g[{}] = 0
      BY <2>1 DEF Unfold
    <2> QED BY <2>2
  <1>2. 0 \in T
    <2>1. \A s \in SUBSET S : Cardinality(s) <= 0 => s = {}
      BY <1>0, FS_EmptySet
    <2> QED BY <1>e, <2>1
  <1>3. ASSUME NEW n \in T PROVE n + 1 \in T
    <2>n. n \in Nat /\ \A s \in SUBSET S : Cardinality(s) <= n => Good(s)
      OBVIOUS
    <2> HIDE DEF T
    <2>s. SUFFICES Upto(n + 1)
      <3> HIDE DEF Upto
      <3> QED BY <2>n DEF T
    <2> SUFFICES ASSUME NEW s \in SUBSET S, Cardinality(s) <= n + 1, s # {} PROVE Good(s)
      <3> HIDE DEF Good
      <3> QED BY <1>e
    <2> DEFINE p == Pick(s)
    <2>1. p \in s /\ p \in S /\ F[p] \in Nat
      BY Picked
    <2> HIDE DEF p
    <2>2. \A x \in s : s \ {x} \in SUBSET S /\ Cardinality(s \ {x}) <= n
      BY <1>0, <2>n, OneLess
    <2>3. g[s] = F[p] + g[s \ {p}]
      BY <1>u DEF Unfold, p
    <2>4. \A x \in s : Good(s \ {x})
      BY <2>2, <2>n
    <2>5. g[s] \in Nat
      BY <2>1, <2>3, <2>4
    <2>6. ASSUME NEW x \in s, x # p PROVE g[s] = F[x] + g[s \ {x}]
      <3>1. g[s \ {p}] = F[x] + g[(s \ {p}) \ {x}]
        BY <2>1, <2>4, <2>6
      <3>2. g[s \ {x}] = F[p] + g[(s \ {x}) \ {p}]
        BY <2>1, <2>4, <2>6
      <3>3. (s \ {p}) \ {x} = (s \ {x}) \ {p}
        OBVIOUS
      <3>4. g[(s \ {p}) \ {x}] \in Nat
        <4>1. (s \ {p}) \ {x} \in SUBSET S
          OBVIOUS
        <4>2. IsFiniteSet(s \ {p}) /\ Cardinality(s \ {p}) <= n /\ x \in s \ {p}
          BY <1>0, <2>1, <2>2, <2>6
        <4>3. Cardinality((s \ {p}) \ {x}) <= n
          <5>1. Cardinality((s \ {p}) \ {x}) = Cardinality(s \ {p}) - 1
            BY <4>2, FS_RemoveElement
          <5>2. Cardinality(s \ {p}) \in Nat
            BY <4>2, FS_CardinalityType
          <5> QED BY <2>n, <4>2, <5>1, <5>2
        <4> QED BY <4>1, <4>3, <2>n
      <3>5. F[x] \in Nat
        OBVIOUS
      <3>6. \A a, b, c \in Nat : a + (b + c) = b + (a + c)
        OBVIOUS
      <3>7. g[s] = F[p] + (F[x] + g[(s \ {p}) \ {x}])
        BY <2>3, <3>1
      <3>8. F[x] + g[s \ {x}] = F[x] + (F[p] + g[(s \ {p}) \ {x}])
        BY <3>2, <3>3
      <3> QED BY <2>1, <3>4, <3>5, <3>6, <3>7, <3>8
    <2> QED BY <2>3, <2>5, <2>6
  <1>4. Cardinality(S) \in T
    <2>1. T \subseteq Nat
      OBVIOUS
    <2> HIDE DEF T
    <2> QED BY <1>0, <1>2, <1>3, <2>1, Counting
  <1>5. Good(S)
    BY <1>4, <1>0
  <1>6. ASSUME NEW x \in S PROVE Sum(F, S \ {x}) = g[S \ {x}]
    <2>1. IsFiniteSet(S \ {x})
      BY FS_RemoveElement
    <2>2. PICK h : Sums(h, F, S \ {x}) /\ Sum(F, S \ {x}) = h[S \ {x}]
      BY <2>1, SumIs
    <2>3. g[S \ {x}] = h[S \ {x}]
      <3> DEFINE a == S \ {x}
      <3>1. a \subseteq S /\ IsFiniteSet(a) /\ Sums(h, F, a)
        BY <2>1, <2>2
      <3> HIDE DEF a
      <3>2. g[a] = h[a]
        BY <1>1, <3>1, SumsAgree
      <3> QED BY <3>2 DEF a
    <2> QED BY <2>2, <2>3
  <1> QED BY <1>1, <1>5, <1>6

(* One element changed.                                                    *)
LEMMA SumChanged ==
  ASSUME NEW S, IsFiniteSet(S), NEW F, NEW G, \A x \in S : F[x] \in Nat,
         NEW x \in S, G[x] \in Nat, \A y \in S \ {x} : G[y] = F[y]
  PROVE  Sum(G, S) = Sum(F, S) - F[x] + G[x]
  <1>1. IsFiniteSet(S \ {x})
    BY FS_RemoveElement
  <1>2. Sum(G, S \ {x}) = Sum(F, S \ {x})
    BY <1>1, SumAgree
  <1>3. Sum(F, S) = F[x] + Sum(F, S \ {x}) /\ Sum(F, S \ {x}) \in Nat
    BY <1>1, SumStep
  <1>4. \A y \in S : G[y] \in Nat
    OBVIOUS
  <1>5. Sum(G, S) = G[x] + Sum(G, S \ {x})
    BY <1>4, SumStep
  <1>6. F[x] \in Nat
    OBVIOUS
  <1> QED BY <1>2, <1>3, <1>5, <1>6

(* The elements of A set to zero.                                          *)
LEMMA SumCleared ==
  ASSUME NEW S, IsFiniteSet(S), NEW F, \A x \in S : F[x] \in Nat, NEW A, A \subseteq S
  PROVE  Sum([x \in S |-> IF x \in A THEN 0 ELSE F[x]], S) = Sum(F, S) - Sum(F, A)
  <1> DEFINE Off(B) == [x \in S |-> IF x \in B THEN 0 ELSE F[x]]
             T == {n \in Nat : \A B \in SUBSET A : Cardinality(B) <= n =>
                                  Sum(Off(B), S) = Sum(F, S) - Sum(F, B)}
  <1>0. \A B \in SUBSET S : IsFiniteSet(B) /\ Cardinality(B) \in Nat /\ Sum(F, B) \in Nat
    BY FS_Subset, FS_CardinalityType, SumStep
  <1>1. Sum(F, S) \in Nat
    BY <1>0
  <1>e. Sum(Off({}), S) = Sum(F, S) - Sum(F, {})
    <2>1. Sum(Off({}), S) = Sum(F, S)
      BY SumAgree
    <2> QED BY <1>1, <2>1, SumEmpty
  <1>2. 0 \in T
    <2>1. \A s \in SUBSET A : Cardinality(s) <= 0 => s = {}
      BY <1>0, FS_EmptySet
    <2> HIDE DEF Off
    <2> QED BY <1>e, <2>1
  <1>3. ASSUME NEW n \in T PROVE n + 1 \in T
    <2>n. n \in Nat /\ \A B \in SUBSET A : Cardinality(B) <= n =>
                        Sum(Off(B), S) = Sum(F, S) - Sum(F, B)
      OBVIOUS
    <2> SUFFICES ASSUME NEW B \in SUBSET A, Cardinality(B) <= n + 1, B # {}
                 PROVE  Sum(Off(B), S) = Sum(F, S) - Sum(F, B)
      BY <2>n, <1>e
    <2> HIDE DEF T
    <2>1. PICK x \in B : TRUE
      OBVIOUS
    <2> DEFINE C == B \ {x}
    <2>2. x \in S /\ F[x] \in Nat /\ C \in SUBSET A /\ B \in SUBSET S /\ C \in SUBSET S
      OBVIOUS
    <2>3. Cardinality(C) <= n
      BY <1>0, <2>n, <2>2, OneLess
    <2>4. Sum(Off(C), S) = Sum(F, S) - Sum(F, C)
      BY <2>2, <2>3, <2>n
    <2>5. Sum(F, B) = F[x] + Sum(F, C)
      BY <1>0, <2>2, SumStep
    <2>6. /\ \A y \in S : Off(C)[y] \in Nat
          /\ Off(C)[x] = F[x] /\ Off(B)[x] = 0
          /\ \A y \in S \ {x} : Off(B)[y] = Off(C)[y]
      BY <2>2
    <2> HIDE DEF Off, C
    <2>7. Sum(Off(B), S) = Sum(Off(C), S) - F[x] + 0
      BY <2>2, <2>6, SumChanged
    <2>8. Sum(F, C) \in Nat
      BY <1>0, <2>2
    <2> QED BY <1>1, <2>2, <2>4, <2>5, <2>7, <2>8
  <1>4. Cardinality(A) \in T
    <2>1. T \subseteq Nat
      OBVIOUS
    <2> HIDE DEF T
    <2> QED BY <1>0, <1>2, <1>3, <2>1, Counting
  <1> QED BY <1>0, <1>4
-----------------------------------------------------------------------------
(* A recursion that steps from one value of a set to the next has a        *)
(* solution.                                                               *)
Follows(g, f, x, N) == g[0] = x /\ \A k \in 1 .. N : g[k] = f[k][g[k - 1]]

LEMMA Recursion ==
  ASSUME NEW S, NEW N \in Nat, NEW f \in [1 .. N -> [S -> S]], NEW x \in S
  PROVE  \E g \in [0 .. N -> S] : Follows(g, f, x, N)
  <1> DEFINE Good(g, n) == g[0] = x /\ \A k \in 1 .. n : k <= N => g[k] = f[k][g[k - 1]]
             T == {n \in Nat : \E g \in [0 .. N -> S] : Good(g, n)}
  <1>1. 0 \in T
    <2> DEFINE g == [k \in 0 .. N |-> x]
    <2>1. g \in [0 .. N -> S] /\ g[0] = x
      OBVIOUS
    <2> HIDE DEF g
    <2>2. Good(g, 0)
      BY <2>1
    <2> HIDE DEF Good
    <2> QED BY <2>1, <2>2
  <1>2. ASSUME NEW n \in T PROVE n + 1 \in T
    <2>1. PICK g \in [0 .. N -> S] : Good(g, n)
      OBVIOUS
    <2>2. CASE n + 1 > N
      <3>1. Good(g, n + 1)
        BY <2>1, <2>2
      <3> HIDE DEF Good
      <3> QED BY <3>1
    <2>3. CASE n + 1 <= N
      <3> DEFINE h == [g EXCEPT ![n + 1] = f[n + 1][g[n]]]
      <3>0. n \in Nat /\ n \in 0 .. N /\ n + 1 \in 1 .. N
        BY <2>3
      <3>1. h \in [0 .. N -> S]
        BY <3>0
      <3>2. h[0] = x /\ h[n + 1] = f[n + 1][g[n]] /\ \A k \in 0 .. n : h[k] = g[k]
        BY <2>1, <3>0
      <3> HIDE DEF h
      <3>3. Good(h, n + 1)
        <4>1. \A k \in 1 .. n + 1 : k \in 1 .. n \/ k = n + 1
          BY <3>0
        <4>2. \A k \in 1 .. n : k <= N => h[k] = f[k][h[k - 1]]
          <5> SUFFICES ASSUME NEW k \in 1 .. n, k <= N PROVE h[k] = f[k][h[k - 1]]
            OBVIOUS
          <5>1. k \in 0 .. n /\ k - 1 \in 0 .. n
            BY <3>0
          <5>2. g[k] = f[k][g[k - 1]]
            BY <2>1
          <5> QED BY <3>2, <5>1, <5>2
        <4>3. h[n + 1] = f[n + 1][h[(n + 1) - 1]]
          <5>1. (n + 1) - 1 = n /\ n \in 0 .. n
            BY <3>0
          <5> QED BY <3>2, <5>1
        <4> QED BY <3>2, <4>1, <4>2, <4>3
      <3> HIDE DEF Good
      <3> QED BY <3>1, <3>3
    <2> QED BY <2>2, <2>3
  <1>3. N \in T
    <2>1. T \subseteq Nat
      OBVIOUS
    <2> HIDE DEF T
    <2> QED BY <1>1, <1>2, <2>1, Counting
  <1> QED BY <1>3 DEF Follows
-----------------------------------------------------------------------------
(* The elements of a sequence that are in S, in their order.               *)
Filtered(seq, S) ==
  LET kept[i \in 0 .. Len(seq)] ==
        IF i = 0 THEN <<>>
        ELSE IF seq[i] \in S THEN Append(kept[i - 1], seq[i]) ELSE kept[i - 1]
  IN  kept[Len(seq)]

FiltersTo(g, s, S) ==
  /\ Filtered(s, S) = g[Len(s)]
  /\ g[0] = <<>>
  /\ \A i \in 1 .. Len(s) : g[i] = IF s[i] \in S THEN Append(g[i - 1], s[i]) ELSE g[i - 1]

LEMMA FilteredStep ==
  ASSUME NEW A, NEW s \in Seq(A), NEW S
  PROVE  \E g \in [0 .. Len(s) -> Seq(A)] : FiltersTo(g, s, S)
  <1> DEFINE n == Len(s)
             body(g) == [i \in 0 .. n |-> IF i = 0 THEN <<>>
                           ELSE IF s[i] \in S THEN Append(g[i - 1], s[i]) ELSE g[i - 1]]
             add(i, q) == IF s[i] \in S THEN Append(q, s[i]) ELSE q
             f == [i \in 1 .. n |-> [q \in Seq(A) |-> add(i, q)]]
             it == CHOOSE g : g = body(g)
  <1>0. n \in Nat /\ \A i \in 1 .. n : s[i] \in A
    BY LenProperties, ElementOfSeq
  <1>1. \A i \in 1 .. n, q \in Seq(A) : add(i, q) \in Seq(A)
    BY <1>0, AppendProperties
  <1>2. f \in [1 .. n -> [Seq(A) -> Seq(A)]] /\ <<>> \in Seq(A)
    <2> HIDE DEF add
    <2> QED BY <1>1
  <1> HIDE DEF it, body, add
  <1>3. PICK g \in [0 .. n -> Seq(A)] : g[0] = <<>> /\ \A k \in 1 .. n : g[k] = f[k][g[k - 1]]
    <2> DEFINE Q == Seq(A)
               e == <<>>
    <2>1. n \in Nat /\ f \in [1 .. n -> [Q -> Q]] /\ e \in Q
      BY <1>0, <1>2
    <2> HIDE DEF f, n, Q, e
    <2>2. \E g \in [0 .. n -> Q] : Follows(g, f, e, n)
      BY <2>1, Recursion
    <2> QED BY <2>2 DEF Q, e, Follows
  <1>4. \A k \in 1 .. n : g[k] = add(k, g[k - 1])
    <2> SUFFICES ASSUME NEW k \in 1 .. n PROVE f[k][g[k - 1]] = add(k, g[k - 1])
      BY <1>3
    <2>1. g[k - 1] \in Seq(A)
      BY <1>0, <1>3
    <2> QED BY <2>1
  <1>5. g = body(g)
    <2> HIDE DEF f, n
    <2>1. g = [i \in 0 .. n |-> g[i]]
      BY <1>3
    <2>2. \A i \in 0 .. n : g[i] = IF i = 0 THEN <<>> ELSE add(i, g[i - 1])
      BY <1>0, <1>3, <1>4
    <2>3. g = [i \in 0 .. n |-> IF i = 0 THEN <<>> ELSE add(i, g[i - 1])]
      <3> HIDE DEF add
      <3> QED BY <2>1, <2>2
    <2> QED BY <2>3 DEF body, add
  <1>6. it = body(it)
    BY <1>5 DEF it
  <1>7. Filtered(s, S) = it[n]
    BY DEF Filtered, it, body
  <1> HIDE DEF f
  <1>8. it[0] = <<>> /\ \A i \in 1 .. n : it[i] = add(i, it[i - 1])
    <2>1. it = [i \in 0 .. n |-> IF i = 0 THEN <<>> ELSE add(i, it[i - 1])]
      BY <1>6 DEF body, add
    <2> HIDE DEF n
    <2> QED BY <1>0, <2>1
  <1>9. it \in [0 .. n -> Seq(A)]
    <2> DEFINE T == {i \in Nat : i <= n => it[i] \in Seq(A)}
    <2>1. 0 \in T
      <3>1. <<>> \in Seq(A)
        OBVIOUS
      <3> QED BY <1>8, <3>1
    <2>2. ASSUME NEW i \in T PROVE i + 1 \in T
      <3> SUFFICES ASSUME i + 1 <= n PROVE it[i + 1] \in Seq(A)
        OBVIOUS
      <3>1. i + 1 \in 1 .. n /\ (i + 1) - 1 = i /\ it[i] \in Seq(A)
        BY <1>0
      <3>2. add(i + 1, it[i]) \in Seq(A)
        BY <1>1, <3>1
      <3> QED BY <1>8, <3>1, <3>2
    <2>3. \A i \in Nat : i \in T
      <3>1. T \subseteq Nat
        OBVIOUS
      <3> HIDE DEF T
      <3> QED BY <2>1, <2>2, <3>1, Counting
    <2>4. \A i \in 0 .. n : it[i] \in Seq(A)
      BY <1>0, <2>3
    <2>5. it = [i \in 0 .. n |-> it[i]]
      <3> HIDE DEF n
      <3> QED BY <1>6 DEF body
    <2> QED BY <2>4, <2>5
  <1> QED BY <1>7, <1>8, <1>9 DEF add, FiltersTo

(* Every element that is kept comes from a place of its own, and the order *)
(* is the old one.                                                         *)
LEMMA FilteredPlaces ==
  ASSUME NEW A, NEW s \in Seq(A), NEW S
  PROVE  /\ Filtered(s, S) \in Seq(A)
         /\ \E at \in [1 .. Len(Filtered(s, S)) -> 1 .. Len(s)] :
              /\ \A i \in 1 .. Len(Filtered(s, S)) : Filtered(s, S)[i] = s[at[i]] /\ s[at[i]] \in S
              /\ \A i, j \in 1 .. Len(Filtered(s, S)) : i < j => at[i] < at[j]
              /\ \A k \in 1 .. Len(s) : s[k] \in S => \E i \in 1 .. Len(Filtered(s, S)) : at[i] = k
  <1>f. PICK g \in [0 .. Len(s) -> Seq(A)] : FiltersTo(g, s, S)
    BY FilteredStep
  <1>1. /\ Filtered(s, S) = g[Len(s)]
        /\ g[0] = <<>>
        /\ \A i \in 1 .. Len(s) :
             g[i] = IF s[i] \in S THEN Append(g[i - 1], s[i]) ELSE g[i - 1]
    BY <1>f DEF FiltersTo
  <1> DEFINE n == Len(s)
             Good(q, at, m) ==
               /\ at \in [1 .. Len(q) -> 1 .. m]
               /\ \A i \in 1 .. Len(q) : q[i] = s[at[i]] /\ s[at[i]] \in S
               /\ \A i, j \in 1 .. Len(q) : i < j => at[i] < at[j]
               /\ \A k \in 1 .. m : s[k] \in S => \E i \in 1 .. Len(q) : at[i] = k
             T == {m \in Nat : m <= n => \E at : Good(g[m], at, m)}
  <1>0. n \in Nat /\ \A i \in 1 .. n : s[i] \in A
    BY LenProperties, ElementOfSeq
  <1>2. 0 \in T
    <2>1. Good(<<>>, <<>>, 0)
      <3>1. Len(<<>>) = 0
        OBVIOUS
      <3>2. <<>> \in [1 .. 0 -> 1 .. 0]
        OBVIOUS
      <3> QED BY <3>1, <3>2
    <2> HIDE DEF Good
    <2> QED BY <1>1, <2>1
  <1>3. ASSUME NEW m \in T PROVE m + 1 \in T
    <2> SUFFICES ASSUME m + 1 <= n PROVE \E at : Good(g[m + 1], at, m + 1)
      <3> HIDE DEF Good
      <3> QED OBVIOUS
    <2>0. m \in Nat /\ m \in 0 .. n /\ m + 1 \in 1 .. n /\ (m + 1) - 1 = m
      BY <1>0
    <2>1. PICK at : Good(g[m], at, m)
      <3> HIDE DEF Good
      <3> QED BY <1>0, <2>0
    <2> DEFINE q == g[m]
               r == g[m + 1]
    <2>2. r = IF s[m + 1] \in S THEN Append(q, s[m + 1]) ELSE q
      BY <1>1, <2>0
    <2>3. q \in Seq(A) /\ Len(q) \in Nat
      BY <2>0, LenProperties
    <2>g. Good(q, at, m)
      BY <2>1
    <2> HIDE DEF q, r, T
    <2>4. CASE s[m + 1] \notin S
      <3>1. r = q
        BY <2>2, <2>4
      <3>2. \A k \in 1 .. (m + 1) : k \in 1 .. m \/ k = m + 1
        BY <2>0
      <3>3. Good(r, at, m + 1)
        <4>1. at \in [1 .. Len(q) -> 1 .. (m + 1)]
          BY <2>g, <2>0
        <4>2. \A k \in 1 .. (m + 1) : s[k] \in S => \E i \in 1 .. Len(q) : at[i] = k
          BY <2>g, <2>4, <3>2
        <4> QED BY <2>g, <3>1, <4>1, <4>2
      <3> HIDE DEF Good
      <3> QED BY <3>3 DEF r
    <2>5. CASE s[m + 1] \in S
      <3> DEFINE l == Len(q)
                 to == [i \in 1 .. (l + 1) |-> IF i = l + 1 THEN m + 1 ELSE at[i]]
      <3>1. /\ r = Append(q, s[m + 1]) /\ Len(r) = l + 1
            /\ \A i \in 1 .. l : r[i] = q[i]
            /\ r[l + 1] = s[m + 1]
        BY <1>0, <2>0, <2>2, <2>3, <2>5, AppendProperties
      <3>2. at \in [1 .. l -> 1 .. m]
        BY <2>g
      <3>i. /\ l \in Nat /\ \A i \in 1 .. l : i \in 1 .. l + 1 /\ i # l + 1 /\ at[i] \in 1 .. m
            /\ \A i \in 1 .. l + 1 : i # l + 1 => i \in 1 .. l
            /\ m + 1 \in 1 .. m + 1 /\ \A i \in 1 .. m : i \in 1 .. m + 1
        BY <2>0, <2>3, <3>2
      <3>3. to \in [1 .. (l + 1) -> 1 .. (m + 1)] /\ to[l + 1] = m + 1 /\ \A i \in 1 .. l : to[i] = at[i] /\ at[i] \in 1 .. m
        <4> HIDE DEF l
        <4> QED BY <3>i
      <3> HIDE DEF to
      <3>4. \A i \in 1 .. (l + 1) : i \in 1 .. l \/ i = l + 1
        BY <2>3
      <3>5. \A i \in 1 .. (l + 1) : r[i] = s[to[i]] /\ s[to[i]] \in S
        BY <2>5, <2>g, <3>1, <3>3, <3>4
      <3>6. ASSUME NEW i \in 1 .. (l + 1), NEW j \in 1 .. (l + 1), i < j PROVE to[i] < to[j]
        <4>1. i \in 1 .. l
          BY <2>3, <3>6
        <4>2. CASE j = l + 1
          BY <2>0, <3>3, <4>1, <4>2
        <4>3. CASE j \in 1 .. l
          BY <2>g, <3>3, <3>6, <4>1, <4>3
        <4> QED BY <3>4, <4>2, <4>3
      <3>7. ASSUME NEW k \in 1 .. (m + 1), s[k] \in S PROVE \E i \in 1 .. (l + 1) : to[i] = k
        <4>1. CASE k = m + 1
          BY <2>3, <3>3, <4>1
        <4>2. CASE k # m + 1
          <5>1. k \in 1 .. m
            BY <2>0, <4>2
          <5>2. PICK i \in 1 .. l : at[i] = k
            BY <2>g, <3>7, <5>1
          <5> QED BY <2>3, <3>3, <5>2
        <4> QED BY <4>1, <4>2
      <3>8. Good(r, to, m + 1)
        BY <3>1, <3>3, <3>5, <3>6, <3>7
      <3> HIDE DEF Good
      <3> QED BY <3>8 DEF r
    <2> QED BY <2>4, <2>5
  <1>4. n \in T
    <2>1. T \subseteq Nat
      OBVIOUS
    <2> HIDE DEF T
    <2> QED BY <1>0, <1>2, <1>3, <2>1, Counting
  <1>5. PICK at : Good(g[n], at, n)
    <2> HIDE DEF Good
    <2> QED BY <1>0, <1>4
  <1>6. Filtered(s, S) = g[n] /\ g[n] \in Seq(A)
    BY <1>0, <1>1
  <1> HIDE DEF T
  <1> DEFINE q == Filtered(s, S)
  <1>7. q \in Seq(A) /\ Good(q, at, n)
    <2> HIDE DEF Good
    <2> QED BY <1>5, <1>6
  <1> HIDE DEF q
  <1> QED BY <1>7 DEF q

LEMMA FilteredRange ==
  ASSUME NEW A, NEW s \in Seq(A), NEW S
  PROVE  /\ Filtered(s, S) \in Seq(A)
         /\ Range(Filtered(s, S)) = Range(s) \cap S
         /\ IsInjective(s) => IsInjective(Filtered(s, S))
  <1> DEFINE q == Filtered(s, S)
  <1>1. q \in Seq(A)
    BY FilteredPlaces
  <1>2. PICK at \in [1 .. Len(q) -> 1 .. Len(s)] :
              /\ \A i \in 1 .. Len(q) : q[i] = s[at[i]] /\ s[at[i]] \in S
              /\ \A i, j \in 1 .. Len(q) : i < j => at[i] < at[j]
              /\ \A k \in 1 .. Len(s) : s[k] \in S => \E i \in 1 .. Len(q) : at[i] = k
    BY FilteredPlaces
  <1> HIDE DEF q
  <1>3. DOMAIN s = 1 .. Len(s) /\ DOMAIN q = 1 .. Len(q) /\ Len(s) \in Nat /\ Len(q) \in Nat
    BY <1>1, LenProperties
  <1>4. Range(q) = Range(s) \cap S
    <2>1. ASSUME NEW x \in Range(q) PROVE x \in Range(s) /\ x \in S
      BY <1>2, <1>3, <2>1 DEF Range
    <2>2. ASSUME NEW x \in Range(s), x \in S PROVE x \in Range(q)
      <3>1. PICK k \in 1 .. Len(s) : s[k] = x
        BY <1>3 DEF Range
      <3>2. PICK i \in 1 .. Len(q) : at[i] = k
        BY <1>2, <2>2, <3>1
      <3> QED BY <1>2, <1>3, <3>1, <3>2 DEF Range
    <2> QED BY <2>1, <2>2
  <1>5. ASSUME IsInjective(s) PROVE IsInjective(q)
    <2> SUFFICES ASSUME NEW i \in 1 .. Len(q), NEW j \in 1 .. Len(q), q[i] = q[j], i < j PROVE FALSE
      BY <1>3 DEF IsInjective
    <2>1. s[at[i]] = s[at[j]] /\ at[i] \in DOMAIN s /\ at[j] \in DOMAIN s
      BY <1>2, <1>3
    <2>2. at[i] = at[j]
      BY <1>5, <2>1 DEF IsInjective
    <2>3. at[i] < at[j] /\ at[i] \in Nat /\ at[j] \in Nat
      BY <1>2
    <2> QED BY <2>2, <2>3
  <1> QED BY <1>1, <1>4, <1>5 DEF q

(* The sequences of a sequence, one after the other.                       *)
FlattensTo(g, ss) ==
  /\ FlattenSeq(ss) = g[Len(ss)]
  /\ g[0] = <<>>
  /\ \A i \in 1 .. Len(ss) : g[i] = g[i - 1] \o ss[i]

LEMMA FlattenStep ==
  ASSUME NEW A, NEW ss \in Seq(Seq(A))
  PROVE  \E g \in [0 .. Len(ss) -> Seq(A)] : FlattensTo(g, ss)
  <1> DEFINE n == Len(ss)
             body(g) == [i \in 1 .. n |-> IF i = 1 THEN ss[i] ELSE g[i - 1] \o ss[i]]
             join(i, q) == q \o ss[i]
             f == [i \in 1 .. n |-> [q \in Seq(A) |-> join(i, q)]]
             it == CHOOSE g : g = body(g)
             full == [i \in 0 .. n |-> IF i = 0 THEN <<>> ELSE it[i]]
  <1>0. n \in Nat /\ \A i \in 1 .. n : ss[i] \in Seq(A)
    BY LenProperties, ElementOfSeq
  <1>1. \A i \in 1 .. n, q \in Seq(A) : join(i, q) \in Seq(A)
    BY <1>0, ConcatProperties
  <1>2. f \in [1 .. n -> [Seq(A) -> Seq(A)]] /\ <<>> \in Seq(A)
    <2> HIDE DEF join
    <2> QED BY <1>1
  <1> HIDE DEF it, body, join, full
  <1>3. PICK g \in [0 .. n -> Seq(A)] : Follows(g, f, <<>>, n)
    <2> DEFINE Q == Seq(A)
               e == <<>>
    <2>1. n \in Nat /\ f \in [1 .. n -> [Q -> Q]] /\ e \in Q
      BY <1>0, <1>2
    <2> HIDE DEF f, n, Q, e
    <2>2. \E g \in [0 .. n -> Q] : Follows(g, f, e, n)
      BY <2>1, Recursion
    <2> QED BY <2>2 DEF Q, e
  <1>4. g[0] = <<>> /\ \A k \in 1 .. n : g[k] = join(k, g[k - 1])
    <2>1. ASSUME NEW k \in 1 .. n PROVE g[k] = join(k, g[k - 1])
      <3>1. g[k - 1] \in Seq(A)
        <4>1. k - 1 \in 0 .. n
          BY <1>0
        <4> HIDE DEF n, f
        <4> QED BY <1>3, <4>1
      <3>2. g[k] = f[k][g[k - 1]]
        BY <1>3 DEF Follows
      <3> QED BY <3>1, <3>2
    <2> QED BY <1>3, <2>1 DEF Follows
  <1> HIDE DEF f
  <1>5. CASE n = 0
    <2>1. ss = <<>>
      BY <1>5, EmptySeq
    <2>2. FlattenSeq(ss) = <<>>
      BY <1>5, <2>1 DEF FlattenSeq
    <2>3. FlattensTo(g, ss)
      BY <1>4, <1>5, <2>2 DEF FlattensTo
    <2> QED BY <2>3
  <1>6. CASE n # 0
    <2> DEFINE h == [i \in 1 .. n |-> g[i]]
    <2>1. n \in Nat \ {0} /\ \A q \in Seq(A) : <<>> \o q = q
      BY <1>0, <1>6, ConcatEmptySeq
    <2>2. \A i \in 1 .. n : h[i] = IF i = 1 THEN ss[i] ELSE join(i, h[i - 1])
      <3> SUFFICES ASSUME NEW i \in 1 .. n PROVE h[i] = IF i = 1 THEN ss[i] ELSE join(i, h[i - 1])
        OBVIOUS
      <3>1. CASE i = 1
        <4>1. g[1] = join(1, <<>>) /\ ss[1] \in Seq(A)
          BY <1>0, <1>4, <2>1
        <4> QED BY <2>1, <3>1, <4>1 DEF join
      <3>2. CASE i # 1
        <4>1. i - 1 \in 1 .. n
          BY <1>0, <3>2
        <4> QED BY <1>4, <3>2, <4>1
      <3> QED BY <3>1, <3>2
    <2>3. h = [i \in 1 .. n |-> IF i = 1 THEN ss[i] ELSE join(i, h[i - 1])]
      <3>1. h = [i \in 1 .. n |-> h[i]]
        OBVIOUS
      <3> HIDE DEF h, n, join
      <3> QED BY <2>2, <3>1
    <2>4. it = body(it)
      <3> HIDE DEF h
      <3> QED BY <2>3 DEF it, body, join
    <2>5. FlattenSeq(ss) = it[n]
      BY <1>6 DEF FlattenSeq, it, body
    <2>6. it = [i \in 1 .. n |-> IF i = 1 THEN ss[i] ELSE join(i, it[i - 1])]
      BY <2>4 DEF body, join
    <2> HIDE DEF n, h
    <2>7. \A i \in 1 .. n : it[i] = IF i = 1 THEN ss[i] ELSE join(i, it[i - 1])
      BY <2>6
    <2>8. \A k \in Nat : k \in {i \in Nat : i <= n => full[i] = g[i]}
      <3> DEFINE T == {i \in Nat : i <= n => full[i] = g[i]}
      <3>1. 0 \in T
        BY <1>4, <2>1 DEF full
      <3>2. ASSUME NEW i \in T PROVE i + 1 \in T
        <4> SUFFICES ASSUME i + 1 <= n PROVE full[i + 1] = g[i + 1]
          OBVIOUS
        <4>1. i \in Nat /\ i + 1 \in 1 .. n /\ i + 1 \in 0 .. n /\ i \in 0 .. n /\ (i + 1) - 1 = i /\ full[i] = g[i]
          BY <2>1
        <4>2. full[i + 1] = it[i + 1]
          BY <4>1 DEF full
        <4>3. g[i + 1] = join(i + 1, g[i])
          BY <1>4, <4>1
        <4>4. CASE i = 0
          <5>1. it[1] = ss[1] /\ ss[1] \in Seq(A) /\ g[1] = join(1, <<>>)
            BY <1>0, <1>4, <2>1, <2>7
          <5> QED BY <2>1, <4>2, <4>4, <5>1 DEF join
        <4>5. CASE i # 0
          <5>1. it[i] = g[i]
            BY <4>1, <4>5 DEF full
          <5>2. it[i + 1] = join(i + 1, it[i])
            BY <2>7, <4>1, <4>5
          <5> QED BY <4>2, <4>3, <5>1, <5>2
        <4> QED BY <4>4, <4>5
      <3>3. T \subseteq Nat
        OBVIOUS
      <3> HIDE DEF T
      <3>4. \A k \in Nat : k \in T
        BY <3>1, <3>2, <3>3, Counting
      <3> QED BY <3>4 DEF T
    <2>9. it[n] = g[n]
      <3>1. full[n] = it[n]
        BY <2>1 DEF full
      <3> QED BY <2>1, <2>8, <3>1
    <2>10. FlattensTo(g, ss)
      BY <1>4, <2>5, <2>9 DEF FlattensTo, n, join
    <2> QED BY <2>10 DEF n
  <1> QED BY <1>5, <1>6

(* An element of the whole lies in one of the parts, which lies in the     *)
(* whole as it is.                                                         *)
LiesIn(i, f, ss) ==
  \E q \in 1 .. Len(ss), o \in Nat :
    /\ i \in o + 1 .. o + Len(ss[q])
    /\ o + Len(ss[q]) <= Len(f)
    /\ \A e \in 1 .. Len(ss[q]) : f[o + e] = ss[q][e]

LEMMA FlattenPlaces ==
  ASSUME NEW A, NEW ss \in Seq(Seq(A))
  PROVE  /\ FlattenSeq(ss) \in Seq(A)
         /\ \A i \in 1 .. Len(FlattenSeq(ss)) : LiesIn(i, FlattenSeq(ss), ss)
  <1>1. PICK g \in [0 .. Len(ss) -> Seq(A)] : FlattensTo(g, ss)
    BY FlattenStep
  <1> DEFINE n == Len(ss)
             T == {k \in Nat : k <= n => \A i \in 1 .. Len(g[k]) : LiesIn(i, g[k], ss)}
  <1>0. n \in Nat /\ \A i \in 1 .. n : ss[i] \in Seq(A)
    BY LenProperties, ElementOfSeq
  <1>2. g[0] = <<>> /\ \A k \in 1 .. n : g[k] = g[k - 1] \o ss[k]
    BY <1>1 DEF FlattensTo
  <1>3. 0 \in T
    <2>1. Len(<<>>) = 0
      OBVIOUS
    <2> QED BY <1>2, <2>1
  <1>4. ASSUME NEW k \in T PROVE k + 1 \in T
    <2>0. k \in Nat /\ (k <= n => \A i \in 1 .. Len(g[k]) : LiesIn(i, g[k], ss))
      OBVIOUS
    <2> HIDE DEF T
    <2> SUFFICES ASSUME k + 1 <= n, NEW i \in 1 .. Len(g[k + 1]) PROVE LiesIn(i, g[k + 1], ss)
      BY <2>0 DEF T
    <2> DEFINE a == g[k]
               b == ss[k + 1]
               c == g[k + 1]
    <2>1. k + 1 \in 1 .. n /\ (k + 1) - 1 = k /\ k \in 0 .. n
      BY <1>0, <2>0
    <2>2. c = a \o b /\ a \in Seq(A) /\ b \in Seq(A)
      BY <1>0, <1>2, <2>1
    <2>3. /\ Len(a) \in Nat /\ Len(b) \in Nat /\ Len(c) = Len(a) + Len(b)
          /\ \A j \in 1 .. Len(a) : c[j] = a[j]
          /\ \A j \in 1 .. Len(b) : c[Len(a) + j] = b[j]
      <3>1. /\ Len(a \o b) = Len(a) + Len(b) /\ Len(a) \in Nat /\ Len(b) \in Nat
            /\ \A j \in 1 .. Len(a) + Len(b) : (a \o b)[j] = IF j <= Len(a) THEN a[j] ELSE b[j - Len(a)]
        BY <2>2, ConcatProperties, LenProperties
      <3> HIDE DEF a, b, c
      <3>2. \A j \in 1 .. Len(a) : c[j] = a[j]
        BY <2>2, <3>1
      <3>3. ASSUME NEW j \in 1 .. Len(b) PROVE c[Len(a) + j] = b[j]
        <4>1. Len(a) + j \in 1 .. Len(a) + Len(b) /\ ~(Len(a) + j <= Len(a)) /\ (Len(a) + j) - Len(a) = j
          BY <3>1
        <4> QED BY <2>2, <3>1, <4>1
      <3> QED BY <2>2, <3>1, <3>2, <3>3
    <2>4. \A j \in 1 .. Len(a) : LiesIn(j, a, ss)
      BY <1>0, <2>0, <2>1
    <2>5. b = ss[k + 1] /\ n = Len(ss)
      OBVIOUS
    <2>i. i \in 1 .. Len(c)
      OBVIOUS
    <2> HIDE DEF a, b, c, n
    <2>6. CASE i \in 1 .. Len(a)
      <3>1. PICK q \in 1 .. Len(ss), o \in Nat :
                   /\ i \in o + 1 .. o + Len(ss[q])
                   /\ o + Len(ss[q]) <= Len(a)
                   /\ \A e \in 1 .. Len(ss[q]) : a[o + e] = ss[q][e]
        BY <2>4, <2>6 DEF LiesIn
      <3>2. Len(ss[q]) \in Nat
        BY <1>0, <2>5, LenProperties
      <3>3. o + Len(ss[q]) <= Len(c)
        BY <2>3, <3>1, <3>2
      <3>4. \A e \in 1 .. Len(ss[q]) : c[o + e] = ss[q][e]
        <4> SUFFICES ASSUME NEW e \in 1 .. Len(ss[q]) PROVE c[o + e] = ss[q][e]
          OBVIOUS
        <4>1. o + e \in 1 .. Len(a)
          BY <2>3, <3>1, <3>2
        <4>2. a[o + e] = ss[q][e]
          BY <3>1
        <4> QED BY <2>3, <4>1, <4>2
      <3>5. LiesIn(i, c, ss)
        BY <3>1, <3>3, <3>4 DEF LiesIn
      <3> QED BY <3>5 DEF c
    <2>7. CASE i \notin 1 .. Len(a)
      <3>1. i \in Len(a) + 1 .. Len(a) + Len(b)
        BY <2>3, <2>7, <2>i
      <3>2. LiesIn(i, c, ss)
        <4>1. k + 1 \in 1 .. Len(ss) /\ Len(a) \in Nat
          BY <2>1, <2>3, <2>5
        <4>2. /\ i \in Len(a) + 1 .. Len(a) + Len(ss[k + 1])
              /\ Len(a) + Len(ss[k + 1]) <= Len(c)
              /\ \A e \in 1 .. Len(ss[k + 1]) : c[Len(a) + e] = ss[k + 1][e]
          BY <2>3, <2>5, <3>1
        <4> QED BY <4>1, <4>2 DEF LiesIn
      <3> QED BY <3>2 DEF c
    <2> QED BY <2>6, <2>7
  <1>5. n \in T
    <2>1. T \subseteq Nat
      OBVIOUS
    <2> HIDE DEF T
    <2> QED BY <1>0, <1>3, <1>4, <2>1, Counting
  <1>6. FlattenSeq(ss) = g[n] /\ g[n] \in Seq(A)
    BY <1>0, <1>1 DEF FlattensTo
  <1>7. \A i \in 1 .. Len(g[n]) : LiesIn(i, g[n], ss)
    BY <1>0, <1>5
  <1> HIDE DEF n
  <1> QED BY <1>6, <1>7

LEMMA FlattenRange ==
  ASSUME NEW A, NEW ss \in Seq(Seq(A))
  PROVE  /\ FlattenSeq(ss) \in Seq(A)
         /\ \A x \in Range(FlattenSeq(ss)) : \E q \in 1 .. Len(ss) : x \in Range(ss[q])
  <1> DEFINE f == FlattenSeq(ss)
  <1>1. f \in Seq(A) /\ \A i \in 1 .. Len(f) : LiesIn(i, f, ss)
    BY FlattenPlaces
  <1> HIDE DEF f
  <1>2. ASSUME NEW x \in Range(f) PROVE \E q \in 1 .. Len(ss) : x \in Range(ss[q])
    <2>1. PICK i \in 1 .. Len(f) : x = f[i]
      BY <1>1, LenProperties DEF Range
    <2>2. PICK q \in 1 .. Len(ss), o \in Nat :
                 /\ i \in o + 1 .. o + Len(ss[q])
                 /\ \A e \in 1 .. Len(ss[q]) : f[o + e] = ss[q][e]
      BY <1>1 DEF LiesIn
    <2>3. ss[q] \in Seq(A) /\ Len(ss[q]) \in Nat /\ DOMAIN ss[q] = 1 .. Len(ss[q])
      BY ElementOfSeq, LenProperties
    <2>4. i - o \in 1 .. Len(ss[q]) /\ o + (i - o) = i
      BY <2>2, <2>3
    <2>5. x = ss[q][i - o]
      BY <2>1, <2>2, <2>4
    <2> QED BY <2>3, <2>4, <2>5 DEF Range
  <1> QED BY <1>1, <1>2 DEF f
=============================================================================
