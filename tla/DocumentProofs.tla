---------------------------- MODULE DocumentProofs ----------------------------
(***************************************************************************)
(* The document a page's scripts work on: the store stays a forest, a      *)
(* boundary hides what is inside, and what was drawn is what is there, for *)
(* any limits and any markup.                                              *)
(***************************************************************************)
EXTENDS EngineState, DataLemmas

NoNode == Dom!NoNode
Far == MaxPath + LastId
NodeRecord == [parent : Nat, children : Seq(Nat), tag : Dom!Tags, named : BOOLEAN]

IsStore(s, next) ==
  /\ next \in Nat \ {0} /\ next <= LastId + 1
  /\ DOMAIN s \subseteq 1 .. next - 1
  /\ s \in [DOMAIN s -> NodeRecord]

(* TreeSound without the climb.                                            *)
Linked(s) ==
  \A n \in DOMAIN s :
    /\ IsInjective(s[n].children)
    /\ s[n].parent \in DOMAIN s \cup {NoNode}
    /\ \A c \in Range(s[n].children) : c \in DOMAIN s /\ s[c].parent = n
    /\ s[n].parent # NoNode => n \in Range(s[s[n].parent].children)

(* A depth for every node, smaller at its parent: no parent chain closes   *)
(* on itself.                                                              *)
Ranked(s, d) ==
  /\ d \in [DOMAIN s -> Nat]
  /\ \A n \in DOMAIN s : s[n].parent \in DOMAIN s => d[s[n].parent] < d[n]

Sound(s, next) == IsStore(s, next) /\ Linked(s) /\ \E d : Ranked(s, d)
-----------------------------------------------------------------------------
(* Climbing.                                                               *)
LEMMA Limits ==
  /\ {MaxNodes, MaxDepth, MaxPath, MaxShadows, LastId} \subseteq Nat \ {0}
  /\ MaxPath >= MaxDepth /\ Far \in Nat
  BY DocumentAssumption DEF Dom!DocumentAssumption, Far

LEMMA ClimbStep ==
  ASSUME NEW s, NEW n
  PROVE  /\ Dom!Climb(s, n)[0] = n
         /\ \A k \in 1 .. Far : Dom!Climb(s, n)[k] = Dom!Parent(s, Dom!Climb(s, n)[k - 1])
  <1> DEFINE S == {NoNode, n} \cup {s[x].parent : x \in DOMAIN s}
             up(x) == Dom!Parent(s, x)
             f == [i \in 1 .. Far |-> [x \in S |-> up(x)]]
             body(g) == [k \in 0 .. Far |-> IF k = 0 THEN n ELSE up(g[k - 1])]
             it == CHOOSE g : g = body(g)
  <1>1. Far \in Nat /\ n \in S /\ \A x \in S : up(x) \in S
    BY Limits DEF Dom!Parent, NoNode
  <1> HIDE DEF up, S, it, body
  <1>2. f \in [1 .. Far -> [S -> S]]
    BY <1>1
  <1> HIDE DEF f
  <1>3. PICK g \in [0 .. Far -> S] : Follows(g, f, n, Far)
    BY <1>1, <1>2, Recursion
  <1>4. \A k \in 0 .. Far : g[k] = IF k = 0 THEN n ELSE up(g[k - 1])
    <2> SUFFICES ASSUME NEW k \in 0 .. Far, k # 0 PROVE g[k] = up(g[k - 1])
      BY <1>3 DEF Follows
    <2>1. k \in 1 .. Far /\ k - 1 \in 0 .. Far
      BY <1>1
    <2>2. g[k] = f[k][g[k - 1]] /\ g[k - 1] \in S
      BY <1>3, <2>1 DEF Follows
    <2> QED BY <2>1, <2>2 DEF f
  <1>5. g = body(g)
    <2>1. g = [k \in 0 .. Far |-> g[k]]
      BY <1>3
    <2> QED BY <1>4, <2>1 DEF body
  <1>6. it = body(it)
    BY <1>5 DEF it
  <1>7. Dom!Climb(s, n) = it
    BY DEF Dom!Climb, it, body, up, Far
  <1> HIDE DEF Far
  <1>8. it[0] = n /\ \A k \in 1 .. Far : it[k] = up(it[k - 1])
    <2>1. \A k \in 0 .. Far : it[k] = IF k = 0 THEN n ELSE up(it[k - 1])
      BY <1>6 DEF body
    <2> QED BY <1>1, <2>1
  <1> QED BY <1>7, <1>8 DEF up

(* Climbing from where a climb arrived goes on with it.                    *)
LEMMA ClimbOn ==
  ASSUME NEW s, NEW n, NEW j \in Nat, NEW k \in Nat, j + k <= Far
  PROVE  Dom!Climb(s, n)[j + k] = Dom!Climb(s, Dom!Climb(s, n)[j])[k]
  <1> DEFINE a == Dom!Climb(s, n)
             b == Dom!Climb(s, a[j])
             T == {i \in Nat : j + i <= Far => a[j + i] = b[i]}
  <1>1. Far \in Nat
    BY Limits
  <1>2. \A i \in 1 .. Far : a[i] = Dom!Parent(s, a[i - 1])
    BY ClimbStep
  <1>3. b[0] = a[j] /\ \A i \in 1 .. Far : b[i] = Dom!Parent(s, b[i - 1])
    BY ClimbStep
  <1> HIDE DEF a, b, Far
  <1>4. 0 \in T
    BY <1>3
  <1>5. ASSUME NEW i \in T PROVE i + 1 \in T
    <2> SUFFICES ASSUME j + (i + 1) <= Far PROVE a[j + (i + 1)] = b[i + 1]
      OBVIOUS
    <2>1. /\ i \in Nat /\ j + i <= Far /\ j + (i + 1) \in 1 .. Far /\ i + 1 \in 1 .. Far
          /\ (j + (i + 1)) - 1 = j + i /\ (i + 1) - 1 = i
      BY <1>1
    <2>2. a[j + i] = b[i]
      BY <2>1
    <2> HIDE DEF T
    <2>3. a[j + (i + 1)] = Dom!Parent(s, a[j + i]) /\ b[i + 1] = Dom!Parent(s, b[i])
      BY <1>2, <1>3, <2>1
    <2> QED BY <2>2, <2>3
  <1>6. k \in T
    <2>1. T \subseteq Nat
      OBVIOUS
    <2> HIDE DEF T
    <2> QED BY <1>4, <1>5, <2>1, Counting
  <1>7. a[j + k] = b[k]
    BY <1>6
  <1> QED BY <1>7 DEF a, b

LEMMA ClimbEnds ==
  ASSUME NEW s, NoNode \notin DOMAIN s, NEW n, NEW j \in Nat, NEW k \in Nat, j <= k, k <= Far,
         Dom!Climb(s, n)[j] = NoNode
  PROVE  Dom!Climb(s, n)[k] = NoNode
  <1> DEFINE a == Dom!Climb(s, n)
             T == {i \in Nat : j + i <= Far => a[j + i] = NoNode}
  <1>1. Far \in Nat
    BY Limits
  <1>2. \A i \in 1 .. Far : a[i] = Dom!Parent(s, a[i - 1])
    BY ClimbStep
  <1>3. Dom!Parent(s, NoNode) = NoNode
    BY DEF Dom!Parent, NoNode
  <1>0. a[j] = NoNode
    OBVIOUS
  <1> HIDE DEF a, Far, NoNode
  <1>4. 0 \in T
    BY <1>0
  <1>5. ASSUME NEW i \in T PROVE i + 1 \in T
    <2> SUFFICES ASSUME j + (i + 1) <= Far PROVE a[j + (i + 1)] = NoNode
      OBVIOUS
    <2>1. /\ i \in Nat /\ j + i <= Far /\ j + (i + 1) \in 1 .. Far
          /\ (j + (i + 1)) - 1 = j + i
      BY <1>1
    <2>2. a[j + i] = NoNode
      BY <2>1
    <2> HIDE DEF T
    <2>3. a[j + (i + 1)] = Dom!Parent(s, a[j + i])
      BY <1>2, <2>1
    <2> QED BY <1>3, <2>2, <2>3
  <1>6. k - j \in T
    <2>1. T \subseteq Nat
      OBVIOUS
    <2>2. k - j \in Nat
      OBVIOUS
    <2> HIDE DEF T
    <2> QED BY <1>4, <1>5, <2>1, <2>2, Counting
  <1>7. a[j + (k - j)] = NoNode
    BY <1>1, <1>6
  <1> QED BY <1>7 DEF a

(* In a forest a climb stays in the store, ever higher, until it ends.     *)
LEMMA ClimbFalls ==
  ASSUME NEW s, NoNode \notin DOMAIN s, Linked(s), NEW d, Ranked(s, d), NEW n \in DOMAIN s,
         NEW j \in Nat, j <= Far, Dom!Climb(s, n)[j] # NoNode
  PROVE  /\ Dom!Climb(s, n)[j] \in DOMAIN s
         /\ \A i \in 0 .. j - 1 : /\ Dom!Climb(s, n)[i] \in DOMAIN s
                                 /\ d[Dom!Climb(s, n)[j]] < d[Dom!Climb(s, n)[i]]
  <1> DEFINE a == Dom!Climb(s, n)
             Good(m) == a[m] # NoNode =>
                          /\ a[m] \in DOMAIN s
                          /\ \A i \in 0 .. m - 1 : a[i] \in DOMAIN s /\ d[a[m]] < d[a[i]]
             T == {m \in Nat : m <= Far => Good(m)}
  <1>1. Far \in Nat
    BY Limits
  <1>2. a[0] = n /\ \A i \in 1 .. Far : a[i] = Dom!Parent(s, a[i - 1])
    BY ClimbStep
  <1>0. a[j] # NoNode
    OBVIOUS
  <1> HIDE DEF a, Far
  <1>3. 0 \in T
    BY <1>2
  <1>4. ASSUME NEW m \in T PROVE m + 1 \in T
    <2>1. m \in Nat /\ (m <= Far => Good(m))
      OBVIOUS
    <2> SUFFICES ASSUME m + 1 <= Far, a[m + 1] # NoNode PROVE Good(m + 1)
      BY <2>1
    <2> HIDE DEF T
    <2>2. m \in 0 .. Far /\ m + 1 \in 1 .. Far /\ (m + 1) - 1 = m
      BY <1>1, <2>1
    <2>3. a[m + 1] = Dom!Parent(s, a[m])
      BY <1>2, <2>2
    <2>4. a[m] \in DOMAIN s /\ a[m + 1] = s[a[m]].parent
      BY <2>3 DEF Dom!Parent, NoNode
    <2>5. a[m] # NoNode /\ Good(m)
      BY <1>1, <2>1, <2>2, <2>4
    <2>6. a[m + 1] \in DOMAIN s
      BY <2>4 DEF Linked
    <2>7. d[a[m + 1]] < d[a[m]]
      BY <2>4, <2>6 DEF Ranked
    <2>8. ASSUME NEW i \in 0 .. m PROVE a[i] \in DOMAIN s /\ d[a[m + 1]] < d[a[i]]
      <3>1. CASE i = m
        BY <2>4, <2>7, <3>1
      <3>2. CASE i # m
        <4>1. i \in 0 .. m - 1
          BY <2>1, <3>2
        <4>2. a[i] \in DOMAIN s /\ d[a[m]] < d[a[i]]
          BY <2>5, <4>1
        <4>3. d[a[i]] \in Nat /\ d[a[m]] \in Nat /\ d[a[m + 1]] \in Nat
          BY <2>4, <2>6, <4>2 DEF Ranked
        <4> QED BY <2>7, <4>2, <4>3
      <3> QED BY <3>1, <3>2
    <2> QED BY <2>2, <2>6, <2>8
  <1>5. j \in T
    <2>1. T \subseteq Nat
      OBVIOUS
    <2> HIDE DEF T
    <2> QED BY <1>3, <1>4, <2>1, Counting
  <1>6. Good(j)
    BY <1>5
  <1> QED BY <1>0, <1>6 DEF a

(* No climb meets a node twice, so it ends within as many steps as there   *)
(* are identities.                                                         *)
LEMMA ClimbGrounded ==
  ASSUME NEW s, DOMAIN s \subseteq 1 .. LastId, Linked(s), NEW d, Ranked(s, d), NEW n \in DOMAIN s
  PROVE  Dom!Climb(s, n)[LastId] = NoNode
  <1> SUFFICES ASSUME Dom!Climb(s, n)[LastId] # NoNode PROVE FALSE
    OBVIOUS
  <1> DEFINE a == Dom!Climb(s, n)
             f == [i \in 0 .. LastId |-> a[i]]
  <1>1. LastId \in Nat /\ Far \in Nat /\ LastId <= Far
    BY Limits DEF Far
  <1>2. NoNode \notin DOMAIN s
    BY <1>1 DEF NoNode, Dom!NoNode
  <1>3. ASSUME NEW j \in 0 .. LastId
        PROVE  a[j] \in DOMAIN s /\ \A i \in 0 .. j - 1 : d[a[j]] < d[a[i]]
    <2>1. a[j] # NoNode
      <3> SUFFICES ASSUME a[j] = NoNode PROVE FALSE
        OBVIOUS
      <3>1. j \in Nat /\ j <= LastId
        BY <1>1
      <3> QED BY <1>1, <1>2, <3>1, ClimbEnds
    <2>2. j \in Nat /\ j <= Far
      BY <1>1
    <2> QED BY <1>2, <2>1, <2>2, ClimbFalls
  <1> HIDE DEF a
  <1>4. f \in [0 .. LastId -> 1 .. LastId]
    BY <1>1, <1>3
  <1>5. /\ IsFiniteSet(0 .. LastId) /\ IsFiniteSet(1 .. LastId)
        /\ Cardinality(1 .. LastId) < Cardinality(0 .. LastId)
    <2>1. 0 \in Int /\ 1 \in Int /\ LastId \in Int /\ ~(0 > LastId)
      BY <1>1
    <2>2. IsFiniteSet(0 .. LastId) /\ Cardinality(0 .. LastId) = LastId - 0 + 1
      BY <2>1, FS_Interval
    <2>3. IsFiniteSet(1 .. LastId) /\ Cardinality(1 .. LastId) = LastId
      <3>1. Cardinality(1 .. LastId) = IF 1 > LastId THEN 0 ELSE LastId - 1 + 1
        BY <2>1, FS_Interval
      <3> QED BY <1>1, <2>1, <3>1, FS_Interval
    <2> QED BY <1>1, <2>2, <2>3
  <1> HIDE DEF f
  <1>6. PICK i \in 0 .. LastId, j \in 0 .. LastId : i # j /\ f[i] = f[j]
    BY <1>4, <1>5, FS_PigeonHole
  <1>7. a[i] = a[j] /\ a[i] \in DOMAIN s /\ d[a[i]] \in Nat
    BY <1>3, <1>6 DEF f, Ranked
  <1>8. CASE i < j
    <2>1. i \in 0 .. j - 1
      BY <1>1, <1>8
    <2> QED BY <1>3, <1>7, <2>1
  <1>9. CASE j < i
    <2>1. j \in 0 .. i - 1
      BY <1>1, <1>9
    <2> QED BY <1>3, <1>7, <2>1
  <1> QED BY <1>1, <1>6, <1>8, <1>9

LEMMA SoundIsTree ==
  ASSUME NEW s, NEW next, Sound(s, next)
  PROVE  /\ NoNode \notin DOMAIN s /\ DOMAIN s \subseteq 1 .. LastId
         /\ \A n \in DOMAIN s : Dom!Climb(s, n)[LastId] = NoNode
  <1>1. LastId \in Nat
    BY Limits
  <1>2. DOMAIN s \subseteq 1 .. LastId
    BY <1>1 DEF Sound, IsStore
  <1>3. PICK d : Ranked(s, d)
    BY DEF Sound
  <1>4. NoNode \notin DOMAIN s
    BY <1>2 DEF NoNode, Dom!NoNode
  <1> QED BY <1>2, <1>3, <1>4, ClimbGrounded DEF Sound

LEMMA ClimbParent ==
  ASSUME NEW s, NEW n \in DOMAIN s, NEW j \in Nat, j + 1 <= Far
  PROVE  Dom!Climb(s, n)[j + 1] = Dom!Climb(s, s[n].parent)[j]
  <1>1. Far \in Nat
    BY Limits
  <1>2. Dom!Climb(s, n)[0] = n /\ \A k \in 1 .. Far : Dom!Climb(s, n)[k] = Dom!Parent(s, Dom!Climb(s, n)[k - 1])
    BY ClimbStep
  <1> HIDE DEF Far
  <1>3. Dom!Climb(s, n)[1] = s[n].parent
    <2>1. 1 \in 1 .. Far /\ 1 - 1 = 0
      BY <1>1
    <2>2. Dom!Climb(s, n)[1] = Dom!Parent(s, Dom!Climb(s, n)[0])
      BY <1>2, <2>1
    <2> QED BY <1>2, <2>2 DEF Dom!Parent
  <1>4. 1 \in Nat /\ 1 + j <= Far /\ 1 + j = j + 1
    BY <1>1
  <1>5. Dom!Climb(s, n)[1 + j] = Dom!Climb(s, Dom!Climb(s, n)[1])[j]
    BY <1>4, ClimbOn
  <1> QED BY <1>3, <1>4, <1>5
-----------------------------------------------------------------------------
(* What lies below.                                                        *)
Deeper(s, T) == T \cup UNION {Range(s[n].children) : n \in T \cap DOMAIN s}
Descends(g, s, S) ==
  /\ Dom!Below(s, S) = g[LastId] /\ g[0] = S
  /\ \A k \in 1 .. LastId : g[k] = Deeper(s, g[k - 1])

LEMMA BelowStep ==
  ASSUME NEW s, NEW S
  PROVE  \E g : Descends(g, s, S)
  <1> DEFINE U == S \cup UNION {Range(s[n].children) : n \in DOMAIN s}
             Q == SUBSET U
             f == [i \in 1 .. LastId |-> [T \in Q |-> Deeper(s, T)]]
             body(g) == [k \in 0 .. LastId |-> IF k = 0 THEN S ELSE Deeper(s, g[k - 1])]
             it == CHOOSE g : g = body(g)
  <1>1. LastId \in Nat /\ S \in Q /\ \A T \in Q : Deeper(s, T) \in Q
    BY Limits DEF Deeper
  <1> HIDE DEF U, Q, it, body
  <1>2. f \in [1 .. LastId -> [Q -> Q]]
    BY <1>1
  <1> HIDE DEF f
  <1>3. PICK g \in [0 .. LastId -> Q] : Follows(g, f, S, LastId)
    BY <1>1, <1>2, Recursion
  <1>4. \A k \in 0 .. LastId : g[k] = IF k = 0 THEN S ELSE Deeper(s, g[k - 1])
    <2> SUFFICES ASSUME NEW k \in 0 .. LastId, k # 0 PROVE g[k] = Deeper(s, g[k - 1])
      BY <1>3 DEF Follows
    <2>1. k \in 1 .. LastId /\ k - 1 \in 0 .. LastId
      BY <1>1
    <2>2. g[k] = f[k][g[k - 1]] /\ g[k - 1] \in Q
      BY <1>3, <2>1 DEF Follows
    <2> QED BY <2>1, <2>2 DEF f
  <1>5. g = body(g)
    <2>1. g = [k \in 0 .. LastId |-> g[k]]
      BY <1>3
    <2> QED BY <1>4, <2>1 DEF body
  <1>6. it = body(it)
    BY <1>5 DEF it
  <1>7. Dom!Below(s, S) = it[LastId]
    BY DEF Dom!Below, it, body, Deeper, Range, Dom!Range
  <1>8. it[0] = S /\ \A k \in 1 .. LastId : it[k] = Deeper(s, it[k - 1])
    <2>1. \A k \in 0 .. LastId : it[k] = IF k = 0 THEN S ELSE Deeper(s, it[k - 1])
      BY <1>6 DEF body
    <2> QED BY <1>1, <2>1
  <1> QED BY <1>7, <1>8 DEF Descends

(* Below a set is what climbs to it.                                       *)
LEMMA BelowIsClimb ==
  ASSUME NEW s, NEW next, Sound(s, next), NEW S, S \subseteq DOMAIN s
  PROVE  Dom!Below(s, S) = {x \in DOMAIN s : \E j \in 0 .. LastId : Dom!Climb(s, x)[j] \in S}
  <1>1. PICK g : Descends(g, s, S)
    BY BelowStep
  <1> DEFINE Reaches(k) == {x \in DOMAIN s : \E j \in 0 .. k : Dom!Climb(s, x)[j] \in S}
             T == {k \in Nat : k <= LastId => g[k] = Reaches(k)}
  <1>2. LastId \in Nat /\ Far \in Nat /\ LastId <= Far
    BY Limits DEF Far
  <1>3. NoNode \notin DOMAIN s /\ Linked(s)
    BY SoundIsTree DEF Sound
  <1>4. \A x : Dom!Climb(s, x)[0] = x
    BY ClimbStep
  <1>5. \A x \in DOMAIN s : \A j \in Nat : j + 1 <= Far =>
          Dom!Climb(s, x)[j + 1] = Dom!Climb(s, s[x].parent)[j]
    BY ClimbParent
  <1>6. \A j \in Nat : j <= Far => Dom!Climb(s, NoNode)[j] = NoNode
    <2> SUFFICES ASSUME NEW j \in Nat, j <= Far PROVE Dom!Climb(s, NoNode)[j] = NoNode
      OBVIOUS
    <2>1. 0 \in Nat /\ 0 <= j /\ Dom!Climb(s, NoNode)[0] = NoNode
      BY <1>4
    <2> QED BY <1>3, <2>1, ClimbEnds
  <1>7. 0 \in T
    <2>1. g[0] = S
      BY <1>1 DEF Descends
    <2>2. \A j : j \in 0 .. 0 <=> j = 0
      OBVIOUS
    <2>3. Reaches(0) = S
      BY <1>4, <2>2
    <2> HIDE DEF Reaches
    <2> QED BY <2>1, <2>3
  <1>8. ASSUME NEW k \in T PROVE k + 1 \in T
    <2>1. k \in Nat /\ (k <= LastId => g[k] = Reaches(k))
      OBVIOUS
    <2> SUFFICES ASSUME k + 1 <= LastId PROVE g[k + 1] = Reaches(k + 1)
      BY <2>1
    <2> HIDE DEF T
    <2>2. k + 1 \in 1 .. LastId /\ (k + 1) - 1 = k /\ k <= LastId
      BY <1>2, <2>1
    <2>3. g[k + 1] = Deeper(s, Reaches(k))
      <3> HIDE DEF Reaches
      <3>1. g[k + 1] = Deeper(s, g[k])
        BY <1>1, <2>2 DEF Descends
      <3> QED BY <2>1, <2>2, <3>1
    <2>4. ASSUME NEW y \in Deeper(s, Reaches(k)) PROVE y \in Reaches(k + 1)
      <3>1. CASE y \in Reaches(k)
        <4>1. PICK j \in 0 .. k : Dom!Climb(s, y)[j] \in S
          BY <3>1
        <4>2. j \in 0 .. k + 1
          BY <2>1
        <4> QED BY <3>1, <4>1, <4>2
      <3>2. CASE y \notin Reaches(k)
        <4>1. PICK z \in Reaches(k) : y \in Range(s[z].children)
          <5> HIDE DEF Reaches
          <5> QED BY <2>4, <3>2 DEF Deeper
        <4>2. z \in DOMAIN s /\ y \in DOMAIN s /\ s[y].parent = z
          BY <1>3, <4>1 DEF Linked
        <4>3. PICK j \in 0 .. k : Dom!Climb(s, z)[j] \in S
          BY <4>1
        <4>4. j \in Nat /\ j + 1 <= Far /\ j + 1 \in 0 .. k + 1
          BY <1>2, <2>1, <2>2
        <4>5. Dom!Climb(s, y)[j + 1] \in S
          BY <1>5, <4>2, <4>3, <4>4
        <4> QED BY <4>2, <4>4, <4>5
      <3> QED BY <3>1, <3>2
    <2>5. ASSUME NEW y \in Reaches(k + 1) PROVE y \in Deeper(s, Reaches(k))
      <3>1. PICK j \in 0 .. k + 1 : Dom!Climb(s, y)[j] \in S
        BY <2>5
      <3>2. CASE j <= k
        <4>1. y \in Reaches(k)
          BY <2>1, <3>1, <3>2
        <4> HIDE DEF Reaches
        <4> QED BY <4>1 DEF Deeper
      <3>3. CASE ~(j <= k)
        <4>1. j = k + 1 /\ k + 1 <= Far /\ k <= Far
          BY <1>2, <2>1, <3>3
        <4> DEFINE z == s[y].parent
        <4>2. y \in DOMAIN s /\ Dom!Climb(s, z)[k] \in S
          BY <1>5, <2>1, <3>1, <4>1
        <4>3. z \in DOMAIN s \cup {NoNode}
          BY <1>3, <4>2 DEF Linked
        <4>4. z # NoNode
          BY <1>3, <1>6, <2>1, <4>1, <4>2
        <4>5. k \in 0 .. k
          BY <2>1
        <4>6. z \in Reaches(k)
          BY <4>2, <4>3, <4>4, <4>5
        <4>7. y \in Range(s[z].children)
          BY <1>3, <4>2, <4>4 DEF Linked
        <4> HIDE DEF z, Reaches
        <4> QED BY <4>3, <4>4, <4>6, <4>7 DEF Deeper
      <3> QED BY <3>2, <3>3
    <2> HIDE DEF Reaches
    <2> QED BY <2>3, <2>4, <2>5
  <1>9. LastId \in T
    <2>1. T \subseteq Nat
      OBVIOUS
    <2> HIDE DEF T
    <2> QED BY <1>2, <1>7, <1>8, <2>1, Counting
  <1>10. g[LastId] = Reaches(LastId)
    <2> HIDE DEF Reaches
    <2> QED BY <1>2, <1>9
  <1> QED BY <1>1, <1>10 DEF Descends

(* Children follow their parent below, and get there in no other way.      *)
LEMMA BelowClosed ==
  ASSUME NEW s, NEW next, Sound(s, next), NEW S, S \subseteq DOMAIN s
  PROVE  /\ S \subseteq Dom!Below(s, S) /\ Dom!Below(s, S) \subseteq DOMAIN s
         /\ \A x \in DOMAIN s : s[x].parent \in Dom!Below(s, S) => x \in Dom!Below(s, S)
         /\ \A x \in Dom!Below(s, S) : x \in S \/ s[x].parent \in Dom!Below(s, S)
  <1> DEFINE B == {x \in DOMAIN s : \E j \in 0 .. LastId : Dom!Climb(s, x)[j] \in S}
  <1>1. Dom!Below(s, S) = B
    BY BelowIsClimb
  <1>2. LastId \in Nat /\ Far \in Nat /\ LastId <= Far /\ LastId + 1 <= Far
    BY Limits DEF Far
  <1>3. NoNode \notin DOMAIN s /\ Linked(s) /\ \A n \in DOMAIN s : Dom!Climb(s, n)[LastId] = NoNode
    BY SoundIsTree DEF Sound
  <1>4. \A x : Dom!Climb(s, x)[0] = x
    BY ClimbStep
  <1>5. \A x \in DOMAIN s : \A j \in Nat : j + 1 <= Far =>
          Dom!Climb(s, x)[j + 1] = Dom!Climb(s, s[x].parent)[j]
    BY ClimbParent
  <1> HIDE DEF Far
  <1>6. S \subseteq B
    <2>1. 0 \in 0 .. LastId
      BY <1>2
    <2> QED BY <1>4, <2>1
  <1>7. ASSUME NEW x \in DOMAIN s, s[x].parent \in B PROVE x \in B
    <2>1. PICK j \in 0 .. LastId : Dom!Climb(s, s[x].parent)[j] \in S
      BY <1>7
    <2>2. j # LastId
      BY <1>3, <1>7, <2>1
    <2>3. j \in Nat /\ j + 1 \in 0 .. LastId /\ j + 1 <= Far
      BY <1>2, <2>2
    <2>4. Dom!Climb(s, x)[j + 1] \in S
      BY <1>5, <2>1, <2>3
    <2> QED BY <2>3, <2>4
  <1>8. ASSUME NEW x \in B, x \notin S PROVE s[x].parent \in B
    <2>1. PICK j \in 0 .. LastId : Dom!Climb(s, x)[j] \in S
      BY <1>8
    <2>2. j # 0
      BY <1>4, <1>8, <2>1
    <2>3. j - 1 \in Nat /\ j - 1 \in 0 .. LastId /\ (j - 1) + 1 = j /\ j <= Far /\ j - 1 <= Far
      BY <1>2, <2>2
    <2>4. Dom!Climb(s, s[x].parent)[j - 1] \in S
      BY <1>5, <1>8, <2>1, <2>3
    <2>5. s[x].parent \in DOMAIN s \cup {NoNode}
      BY <1>3, <1>8 DEF Linked
    <2>6. s[x].parent # NoNode
      <3> SUFFICES ASSUME s[x].parent = NoNode PROVE FALSE
        OBVIOUS
      <3>1. 0 \in Nat /\ 0 <= j - 1 /\ Dom!Climb(s, NoNode)[0] = NoNode
        BY <1>4, <2>3
      <3>2. Dom!Climb(s, NoNode)[j - 1] = NoNode
        BY <1>3, <2>3, <3>1, ClimbEnds
      <3> QED BY <1>3, <2>4, <3>2
    <2> QED BY <2>3, <2>4, <2>5, <2>6
  <1> HIDE DEF B
  <1>9. B \subseteq DOMAIN s
    BY DEF B
  <1> QED BY <1>1, <1>6, <1>7, <1>8, <1>9

-----------------------------------------------------------------------------
(* Edits.  A child list and a parent are changed together.                 *)
Relinked(t, s, p, list, c, q) ==
  /\ DOMAIN t = DOMAIN s /\ t \in [DOMAIN t -> NodeRecord]
  /\ t[p].children = list /\ t[c].parent = q
  /\ \A x \in DOMAIN s : /\ x # c => t[x].parent = s[x].parent
                         /\ x # p => t[x].children = s[x].children
                         /\ t[x].tag = s[x].tag /\ t[x].named = s[x].named

Edit(s, p, list, c, q) == [s EXCEPT ![p].children = list, ![c].parent = q]

LEMMA Edited ==
  ASSUME NEW s, s \in [DOMAIN s -> NodeRecord], NEW p \in DOMAIN s, NEW c \in DOMAIN s, p # c,
         NEW list \in Seq(Nat), NEW q \in Nat
  PROVE  Relinked(Edit(s, p, list, c, q), s, p, list, c, q)
  <1> DEFINE t == Edit(s, p, list, c, q)
  <1>1. \A x \in DOMAIN s : s[x] \in NodeRecord
    OBVIOUS
  <1>2. t = [x \in DOMAIN s |-> IF x = c THEN [s[c] EXCEPT !.parent = q]
                                ELSE IF x = p THEN [s[p] EXCEPT !.children = list] ELSE s[x]]
    BY DEF Edit
  <1>3. DOMAIN t = DOMAIN s
    BY <1>2
  <1>4. ASSUME NEW x \in DOMAIN s
        PROVE  /\ t[x] \in NodeRecord
               /\ t[x].parent = IF x = c THEN q ELSE s[x].parent
               /\ t[x].children = IF x = p THEN list ELSE s[x].children
               /\ t[x].tag = s[x].tag /\ t[x].named = s[x].named
    <2>1. CASE x = c
      <3>1. t[x] = [s[c] EXCEPT !.parent = q]
        BY <1>2, <2>1
      <3> QED BY <1>1, <2>1, <3>1 DEF NodeRecord
    <2>2. CASE x = p
      <3>1. t[x] = [s[p] EXCEPT !.children = list]
        BY <1>2, <2>2
      <3> QED BY <1>1, <2>2, <3>1 DEF NodeRecord
    <2>3. CASE x # c /\ x # p
      <3>1. t[x] = s[x]
        BY <1>2, <2>3
      <3> QED BY <1>1, <2>3, <3>1
    <2> QED BY <2>1, <2>2, <2>3
  <1>5. t = [x \in DOMAIN s |-> t[x]]
    BY <1>2
  <1> HIDE DEF t
  <1>6. Relinked(t, s, p, list, c, q)
    BY <1>3, <1>4, <1>5 DEF Relinked
  <1> QED BY <1>6 DEF t

LEMMA WithoutList ==
  ASSUME NEW list \in Seq(Nat), NEW n
  PROVE  /\ Dom!Without(list, n) \in Seq(Nat)
         /\ Range(Dom!Without(list, n)) = Range(list) \ {n}
         /\ IsInjective(list) => IsInjective(Dom!Without(list, n))
  <1> DEFINE S == Range(list) \ {n}
  <1>1. Dom!Without(list, n) = Filtered(list, S)
    BY DEF Dom!Without, Dom!Filtered, Filtered, Dom!Range, Range
  <1>2. Range(list) \cap S = S
    OBVIOUS
  <1> HIDE DEF S
  <1>3. /\ Filtered(list, S) \in Seq(Nat)
        /\ Range(Filtered(list, S)) = Range(list) \cap S
        /\ IsInjective(list) => IsInjective(Filtered(list, S))
    BY FilteredRange
  <1> QED BY <1>1, <1>2, <1>3 DEF S

LEMMA NotOwnParent ==
  ASSUME NEW s, NEW next, Sound(s, next), NEW n \in DOMAIN s
  PROVE  s[n].parent # n
  <1>1. PICK d : Ranked(s, d)
    BY DEF Sound
  <1> QED BY <1>1 DEF Ranked

LEMMA CutSound ==
  ASSUME NEW s, NEW next, Sound(s, next), NEW c \in DOMAIN s, NEW p \in DOMAIN s, s[c].parent = p,
         NEW t, t = [s EXCEPT ![p].children = Dom!Without(@, c), ![c].parent = Dom!NoNode]
  PROVE  /\ Sound(t, next)
         /\ Relinked(t, s, p, Dom!Without(s[p].children, c), c, NoNode)
  <1> DEFINE list == Dom!Without(s[p].children, c)
  <1>1. p # c
    BY NotOwnParent
  <1>2. s \in [DOMAIN s -> NodeRecord] /\ Linked(s)
    BY DEF Sound, IsStore
  <1>3. s[p].children \in Seq(Nat) /\ IsInjective(s[p].children)
    BY <1>2 DEF NodeRecord, Linked
  <1>4. list \in Seq(Nat) /\ Range(list) = Range(s[p].children) \ {c} /\ IsInjective(list)
    BY <1>3, WithoutList
  <1>5. t = Edit(s, p, list, c, NoNode)
    BY DEF Edit, NoNode
  <1>6. NoNode \in Nat /\ NoNode \notin DOMAIN s
    BY SoundIsTree DEF NoNode, Dom!NoNode
  <1> HIDE DEF list, NoNode
  <1>11. Relinked(t, s, p, list, c, NoNode)
    <2>1. NoNode \in Nat /\ list \in Seq(Nat) /\ s \in [DOMAIN s -> NodeRecord]
      BY <1>2, <1>4, <1>6
    <2>2. Relinked(Edit(s, p, list, c, NoNode), s, p, list, c, NoNode)
      BY <1>1, <2>1, Edited
    <2> QED BY <1>5, <2>2
  <1>7. /\ DOMAIN t = DOMAIN s /\ t \in [DOMAIN t -> NodeRecord]
        /\ t[p].children = list /\ t[c].parent = NoNode
        /\ \A x \in DOMAIN s : /\ x # c => t[x].parent = s[x].parent
                               /\ x # p => t[x].children = s[x].children
    BY <1>11 DEF Relinked
  <1>8. IsStore(t, next)
    BY <1>7 DEF Sound, IsStore
  <1>9. Linked(t)
    <2> SUFFICES ASSUME NEW n \in DOMAIN s
                 PROVE  /\ IsInjective(t[n].children)
                        /\ t[n].parent \in DOMAIN s \cup {NoNode}
                        /\ \A x \in Range(t[n].children) : x \in DOMAIN s /\ t[x].parent = n
                        /\ t[n].parent # NoNode => n \in Range(t[t[n].parent].children)
      BY <1>7 DEF Linked
    <2>1. /\ IsInjective(s[n].children)
          /\ s[n].parent \in DOMAIN s \cup {NoNode}
          /\ \A x \in Range(s[n].children) : x \in DOMAIN s /\ s[x].parent = n
          /\ s[n].parent # NoNode => n \in Range(s[s[n].parent].children)
      BY <1>2 DEF Linked
    <2>2. IsInjective(t[n].children)
      BY <1>4, <1>7, <2>1
    <2>3. t[n].parent \in DOMAIN s \cup {NoNode}
      BY <1>7, <2>1
    <2>4. ASSUME NEW x \in Range(t[n].children) PROVE x \in DOMAIN s /\ t[x].parent = n
      <3>1. x \in Range(s[n].children) /\ (n = p => x # c)
        BY <1>4, <1>7, <2>4
      <3>2. x # c
        BY <2>1, <3>1
      <3> QED BY <1>7, <2>1, <3>1, <3>2
    <2>5. ASSUME t[n].parent # NoNode PROVE n \in Range(t[t[n].parent].children)
      <3>1. n # c /\ t[n].parent = s[n].parent /\ s[n].parent \in DOMAIN s
        BY <1>7, <2>1, <2>5
      <3>2. n \in Range(s[s[n].parent].children)
        BY <2>1, <2>5, <3>1
      <3>3. CASE s[n].parent = p
        <4>1. t[t[n].parent].children = list
          BY <1>7, <3>1, <3>3
        <4> QED BY <1>4, <3>1, <3>2, <3>3, <4>1
      <3>4. CASE s[n].parent # p
        <4>1. t[t[n].parent].children = s[s[n].parent].children
          BY <1>7, <3>1, <3>4
        <4> QED BY <3>2, <4>1
      <3> QED BY <3>3, <3>4
    <2> QED BY <2>2, <2>3, <2>4, <2>5
  <1>10. \E d : Ranked(t, d)
    <2>1. PICK d : Ranked(s, d)
      BY DEF Sound
    <2>2. Ranked(t, d)
      BY <1>6, <1>7, <2>1 DEF Ranked
    <2> QED BY <2>2
  <1> QED BY <1>8, <1>9, <1>10, <1>11 DEF Sound, list

(* A node that hangs from nothing is hung up outside the nodes it carries. *)
LEMMA LinkSound ==
  ASSUME NEW s, NEW next, Sound(s, next), NEW p \in DOMAIN s, NEW c \in DOMAIN s,
         s[c].parent = NoNode, NEW T, c \in T, p \notin T,
         \A x \in DOMAIN s \ T : s[x].parent \notin T,
         NEW t, t = Dom!Link(s, p, c)
  PROVE  /\ Sound(t, next)
         /\ Relinked(t, s, p, Append(s[p].children, c), c, p)
  <1> DEFINE list == Append(s[p].children, c)
  <1>1. p # c /\ NoNode \notin DOMAIN s /\ DOMAIN s \subseteq Nat
    BY SoundIsTree DEF Sound, IsStore
  <1>2. s \in [DOMAIN s -> NodeRecord] /\ Linked(s)
    BY DEF Sound, IsStore
  <1>3. s[p].children \in Seq(Nat) /\ IsInjective(s[p].children)
    BY <1>2 DEF NodeRecord, Linked
  <1>4. c \notin Range(s[p].children)
    BY <1>1, <1>2 DEF Linked
  <1>5. list \in Seq(Nat) /\ Range(list) = Range(s[p].children) \cup {c} /\ IsInjective(list)
    <2> DEFINE o == s[p].children
    <2>1. o \in Seq(Nat) /\ IsInjective(o) /\ c \in Nat /\ c \notin ToSet(o)
      BY <1>1, <1>3, <1>4 DEF ToSet, Range
    <2> HIDE DEF o
    <2>2. Append(o, c) \in Seq(Nat) /\ ToSet(Append(o, c)) = ToSet(o) \cup {c} /\ IsInjective(Append(o, c))
      BY <2>1, QueueAppend
    <2> QED BY <2>2 DEF o, ToSet, Range
  <1>6. t = Edit(s, p, list, c, p)
    BY DEF Dom!Link, Edit
  <1> HIDE DEF list
  <1>11. Relinked(t, s, p, list, c, p)
    <2>1. p \in Nat
      BY <1>1
    <2> QED BY <1>1, <1>2, <1>5, <1>6, <2>1, Edited
  <1>7. /\ DOMAIN t = DOMAIN s /\ t \in [DOMAIN t -> NodeRecord]
        /\ t[p].children = list /\ t[c].parent = p
        /\ \A x \in DOMAIN s : /\ x # c => t[x].parent = s[x].parent
                               /\ x # p => t[x].children = s[x].children
    BY <1>11 DEF Relinked
  <1>8. IsStore(t, next)
    BY <1>7 DEF Sound, IsStore
  <1>9. Linked(t)
    <2> SUFFICES ASSUME NEW n \in DOMAIN s
                 PROVE  /\ IsInjective(t[n].children)
                        /\ t[n].parent \in DOMAIN s \cup {NoNode}
                        /\ \A x \in Range(t[n].children) : x \in DOMAIN s /\ t[x].parent = n
                        /\ t[n].parent # NoNode => n \in Range(t[t[n].parent].children)
      BY <1>7 DEF Linked
    <2>1. /\ IsInjective(s[n].children)
          /\ s[n].parent \in DOMAIN s \cup {NoNode}
          /\ \A x \in Range(s[n].children) : x \in DOMAIN s /\ s[x].parent = n
          /\ s[n].parent # NoNode => n \in Range(s[s[n].parent].children)
      BY <1>2 DEF Linked
    <2>2. IsInjective(t[n].children)
      BY <1>5, <1>7, <2>1
    <2>3. t[n].parent \in DOMAIN s \cup {NoNode}
      BY <1>7, <2>1
    <2>4. ASSUME NEW x \in Range(t[n].children) PROVE x \in DOMAIN s /\ t[x].parent = n
      <3>1. CASE x \in Range(s[n].children)
        <4>1. x # c
          BY <1>1, <2>1, <3>1
        <4> QED BY <1>7, <2>1, <3>1, <4>1
      <3>2. CASE x \notin Range(s[n].children)
        <4>1. n = p /\ x = c
          BY <1>5, <1>7, <2>4, <3>2
        <4> QED BY <1>7, <4>1
      <3> QED BY <3>1, <3>2
    <2>5. ASSUME t[n].parent # NoNode PROVE n \in Range(t[t[n].parent].children)
      <3>1. CASE n = c
        BY <1>5, <1>7, <3>1
      <3>2. CASE n # c
        <4>1. t[n].parent = s[n].parent /\ s[n].parent \in DOMAIN s
          BY <1>7, <2>1, <2>5, <3>2
        <4>2. n \in Range(s[s[n].parent].children)
          BY <2>1, <2>5, <4>1
        <4> QED BY <1>5, <1>7, <4>1, <4>2
      <3> QED BY <3>1, <3>2
    <2> QED BY <2>2, <2>3, <2>4, <2>5
  <1>10. \E d : Ranked(t, d)
    <2>1. PICK d : Ranked(s, d)
      BY DEF Sound
    <2> DEFINE e == [x \in DOMAIN s |-> IF x \in T THEN d[x] + d[p] + 1 ELSE d[x]]
    <2>2. d \in [DOMAIN s -> Nat] /\ e \in [DOMAIN s -> Nat]
      BY <2>1 DEF Ranked
    <2>3. ASSUME NEW n \in DOMAIN s, t[n].parent \in DOMAIN s PROVE e[t[n].parent] < e[n]
      <3>1. CASE n = c
        BY <1>7, <2>2, <3>1
      <3>2. CASE n # c
        <4>1. t[n].parent = s[n].parent
          BY <1>7, <3>2
        <4>2. d[s[n].parent] < d[n]
          BY <2>1, <2>3, <4>1 DEF Ranked
        <4>3. s[n].parent \in T => n \in T
          OBVIOUS
        <4> QED BY <2>2, <2>3, <4>1, <4>2, <4>3
      <3> QED BY <3>1, <3>2
    <2> HIDE DEF e
    <2>4. Ranked(t, e)
      BY <1>7, <2>2, <2>3 DEF Ranked
    <2> QED BY <2>4
  <1> QED BY <1>8, <1>9, <1>10, <1>11 DEF Sound, list

(* Everything below a node is taken out of the store.                      *)
Emptying(t, s, n) ==
  /\ DOMAIN t = DOMAIN s \ Dom!Below(s, Range(s[n].children)) /\ n \in DOMAIN t
  /\ \A x \in DOMAIN t : x # n => t[x] = s[x]

LEMMA EmptySound ==
  ASSUME NEW s, NEW next, Sound(s, next), NEW n \in DOMAIN s,
         NEW t, t = [Dom!Free(s, Range(s[n].children)) EXCEPT ![n].children = <<>>]
  PROVE  Sound(t, next) /\ Emptying(t, s, n)
  <1> DEFINE C == Range(s[n].children)
             B == Dom!Below(s, C)
  <1>1. s \in [DOMAIN s -> NodeRecord] /\ Linked(s) /\ NoNode \notin DOMAIN s
    BY SoundIsTree DEF Sound, IsStore
  <1>2. PICK d : Ranked(s, d)
    BY DEF Sound
  <1>3. C \subseteq DOMAIN s /\ \A c \in DOMAIN s : c \in C <=> s[c].parent = n
    BY <1>1 DEF Linked
  <1> HIDE DEF C
  <1>4. /\ C \subseteq B /\ B \subseteq DOMAIN s
        /\ \A x \in DOMAIN s : s[x].parent \in B => x \in B
    BY <1>3, BelowClosed
  <1>5. n \notin B
    <2> SUFFICES ASSUME n \in B PROVE FALSE
      OBVIOUS
    <2>1. PICK j \in 0 .. LastId : Dom!Climb(s, n)[j] \in C
      BY <1>3, BelowIsClimb
    <2>2. j \in Nat /\ j <= Far
      BY Limits DEF Far
    <2> DEFINE c == Dom!Climb(s, n)[j]
    <2>3. c \in DOMAIN s /\ s[c].parent = n /\ c # NoNode
      BY <1>1, <1>3, <2>1
    <2>4. d[n] < d[c] /\ d[n] \in Nat /\ d[c] \in Nat
      BY <1>2, <2>3 DEF Ranked
    <2>5. Dom!Climb(s, n)[0] = n
      BY ClimbStep
    <2>6. j # 0
      BY <2>4, <2>5
    <2>7. 0 \in 0 .. j - 1
      BY <2>2, <2>6
    <2>8. d[c] < d[n]
      BY <1>1, <1>2, <2>2, <2>3, <2>5, <2>7, ClimbFalls
    <2> QED BY <2>4, <2>8
  <1> HIDE DEF B
  <1>6. t = [x \in DOMAIN s \ B |-> IF x = n THEN [s[n] EXCEPT !.children = <<>>] ELSE s[x]]
    BY <1>5 DEF Dom!Free, B, C
  <1>7. DOMAIN t = DOMAIN s \ B /\ n \in DOMAIN t /\ \A x \in DOMAIN t : x # n => t[x] = s[x]
    BY <1>5, <1>6
  <1>8. t[n] = [s[n] EXCEPT !.children = <<>>]
    BY <1>6, <1>7
  <1>9. /\ t[n] \in NodeRecord /\ t[n].parent = s[n].parent /\ t[n].children = <<>>
        /\ \A x \in DOMAIN t : t[x] \in NodeRecord /\ t[x].parent = s[x].parent
    <2>1. s[n] \in NodeRecord
      BY <1>1
    <2> DEFINE e == <<>>
    <2>2. e \in Seq(Nat)
      OBVIOUS
    <2> HIDE DEF e
    <2>3. [s[n] EXCEPT !.children = e] \in NodeRecord
      BY <2>1, <2>2 DEF NodeRecord
    <2>4. /\ [s[n] EXCEPT !.children = e].parent = s[n].parent
          /\ [s[n] EXCEPT !.children = e].children = e
      BY <2>1 DEF NodeRecord
    <2>5. t[n] = [s[n] EXCEPT !.children = e]
      BY <1>8 DEF e
    <2>6. t[n] \in NodeRecord /\ t[n].parent = s[n].parent /\ t[n].children = <<>>
      BY <2>3, <2>4, <2>5 DEF e
    <2> QED BY <1>1, <1>7, <2>6
  <1>10. IsStore(t, next)
    <2>1. t = [x \in DOMAIN t |-> t[x]]
      BY <1>6
    <2> QED BY <1>7, <1>9, <2>1 DEF Sound, IsStore
  <1>11. Linked(t)
    <2> SUFFICES ASSUME NEW x \in DOMAIN t
                 PROVE  /\ IsInjective(t[x].children)
                        /\ t[x].parent \in DOMAIN t \cup {NoNode}
                        /\ \A c \in Range(t[x].children) : c \in DOMAIN t /\ t[c].parent = x
                        /\ t[x].parent # NoNode => x \in Range(t[t[x].parent].children)
      BY DEF Linked
    <2>1. /\ IsInjective(s[x].children)
          /\ s[x].parent \in DOMAIN s \cup {NoNode}
          /\ \A c \in Range(s[x].children) : c \in DOMAIN s /\ s[c].parent = x
          /\ s[x].parent # NoNode => x \in Range(s[s[x].parent].children)
      BY <1>1, <1>7 DEF Linked
    <2>2. IsInjective(t[x].children) /\ \A c \in Range(t[x].children) : c \in DOMAIN t /\ t[c].parent = x
      <3>1. CASE x = n
        <4>1. t[x].children = <<>>
          BY <1>9, <3>1
        <4>2. DOMAIN t[x].children = {}
          BY <4>1
        <4> QED BY <4>2 DEF IsInjective, Range
      <3>2. CASE x # n
        <4>1. t[x].children = s[x].children
          BY <1>7, <3>2
        <4>2. ASSUME NEW c \in Range(t[x].children) PROVE c \in DOMAIN t /\ t[c].parent = x
          <5>1. c \in DOMAIN s /\ s[c].parent = x
            BY <2>1, <4>1, <4>2
          <5>2. c \notin B
            <6> SUFFICES ASSUME c \in B PROVE FALSE
              OBVIOUS
            <6>1. c \in C \/ s[c].parent \in B
              BY <1>3, BelowClosed DEF B
            <6> QED BY <1>3, <1>7, <3>2, <5>1, <6>1
          <5> QED BY <1>7, <1>9, <5>1, <5>2
        <4> QED BY <2>1, <4>1, <4>2
      <3> QED BY <3>1, <3>2
    <2>3. t[x].parent = s[x].parent /\ s[x].parent \notin B /\ s[x].parent # n
      BY <1>3, <1>4, <1>7, <1>9
    <2>4. t[x].parent # NoNode => x \in Range(t[t[x].parent].children)
      <3> SUFFICES ASSUME s[x].parent # NoNode PROVE x \in Range(t[s[x].parent].children)
        BY <2>3
      <3>1. s[x].parent \in DOMAIN t
        BY <1>7, <2>1, <2>3
      <3>2. t[s[x].parent] = s[s[x].parent]
        BY <1>7, <2>3, <3>1
      <3> QED BY <2>1, <3>2
    <2> QED BY <1>7, <2>1, <2>2, <2>3, <2>4
  <1>12. \E e : Ranked(t, e)
    <2> DEFINE e == [x \in DOMAIN t |-> d[x]]
    <2>1. Ranked(t, e)
      BY <1>2, <1>7, <1>9 DEF Ranked
    <2> QED BY <2>1
  <1> QED BY <1>7, <1>10, <1>11, <1>12 DEF Sound, Emptying, B, C

-----------------------------------------------------------------------------
(* Building.                                                               *)
IsWork(w) ==
  /\ DOMAIN w = {"node", "next", "ok", "made", "marked"}
  /\ w.ok \in BOOLEAN /\ w.made \in Seq(Nat)
  /\ Sound(w.node, w.next)

NewNode(tag) == [parent |-> NoNode, children |-> <<>>, tag |-> tag, named |-> FALSE]

(* One node more, or nothing.                                              *)
Allocated(v, w, tag) ==
  IF v.ok
    THEN /\ w.ok /\ v.next = w.next + 1 /\ v.made = Append(w.made, w.next)
         /\ DOMAIN v.node = DOMAIN w.node \cup {w.next} /\ w.next \notin DOMAIN w.node
         /\ v.node[w.next] = NewNode(tag)
         /\ \A x \in DOMAIN w.node : v.node[x] = w.node[x]
    ELSE v.node = w.node /\ v.next = w.next /\ v.made = w.made

LEMMA FreshSound ==
  ASSUME NEW s, NEW next, Sound(s, next), next <= LastId, NEW tag \in Dom!Tags,
         NEW t, t = [n \in DOMAIN s \cup {next} |-> IF n = next THEN NewNode(tag) ELSE s[n]]
  PROVE  Sound(t, next + 1) /\ next \notin DOMAIN s
  <1>1. /\ s \in [DOMAIN s -> NodeRecord] /\ Linked(s) /\ NoNode \notin DOMAIN s
        /\ DOMAIN s \subseteq 1 .. next - 1 /\ next \in Nat \ {0}
    BY SoundIsTree DEF Sound, IsStore
  <1>2. next \notin DOMAIN s
    BY <1>1
  <1>3. /\ DOMAIN t = DOMAIN s \cup {next} /\ t[next] = NewNode(tag)
        /\ \A x \in DOMAIN s : t[x] = s[x]
    BY <1>2
  <1>4. NewNode(tag) \in NodeRecord /\ NewNode(tag).parent = NoNode /\ NewNode(tag).children = <<>>
    BY DEF NewNode, NodeRecord, NoNode, Dom!NoNode
  <1>5. IsStore(t, next + 1)
    <2>1. t \in [DOMAIN t -> NodeRecord]
      BY <1>1, <1>3, <1>4
    <2>2. LastId \in Nat
      BY Limits
    <2> QED BY <1>1, <1>3, <2>1, <2>2 DEF IsStore
  <1>6. Linked(t)
    <2> SUFFICES ASSUME NEW x \in DOMAIN t
                 PROVE  /\ IsInjective(t[x].children)
                        /\ t[x].parent \in DOMAIN t \cup {NoNode}
                        /\ \A c \in Range(t[x].children) : c \in DOMAIN t /\ t[c].parent = x
                        /\ t[x].parent # NoNode => x \in Range(t[t[x].parent].children)
      BY DEF Linked
    <2>1. CASE x = next
      BY <1>3, <1>4, <2>1 DEF IsInjective, Range
    <2>2. CASE x # next
      <3>1. x \in DOMAIN s /\ t[x] = s[x]
        BY <1>3, <2>2
      <3>2. /\ IsInjective(s[x].children)
            /\ s[x].parent \in DOMAIN s \cup {NoNode}
            /\ \A c \in Range(s[x].children) : c \in DOMAIN s /\ s[c].parent = x
            /\ s[x].parent # NoNode => x \in Range(s[s[x].parent].children)
        BY <1>1, <3>1 DEF Linked
      <3>3. \A c \in DOMAIN s : c \in DOMAIN t /\ t[c] = s[c]
        BY <1>3
      <3> QED BY <3>1, <3>2, <3>3
    <2> QED BY <2>1, <2>2
  <1>7. \E e : Ranked(t, e)
    <2>1. PICK d : Ranked(s, d)
      BY DEF Sound
    <2> DEFINE e == [x \in DOMAIN t |-> IF x = next THEN 0 ELSE d[x]]
    <2>2. \A x \in DOMAIN s : t[x].parent # next
      BY <1>1, <1>2, <1>3 DEF Linked, NoNode, Dom!NoNode
    <2>3. t[next].parent \notin DOMAIN t
      BY <1>1, <1>3, <1>4 DEF NoNode, Dom!NoNode
    <2>4. Ranked(t, e)
      BY <1>3, <2>1, <2>2, <2>3 DEF Ranked
    <2> QED BY <2>4
  <1> QED BY <1>2, <1>5, <1>6, <1>7 DEF Sound

LEMMA AllocateSound ==
  ASSUME NEW w, IsWork(w), w.next <= LastId, NEW tag \in Dom!Tags,
         NEW v, v = Dom!Allocate(w, tag)
  PROVE  IsWork(v) /\ Allocated(v, w, tag)
  <1>1. CASE ~w.ok \/ Dom!Cardinality(DOMAIN w.node) >= MaxNodes
    <2>1. v = [w EXCEPT !.ok = FALSE]
      BY <1>1 DEF Dom!Allocate
    <2>2. /\ v.node = w.node /\ v.next = w.next /\ v.made = w.made /\ v.ok = FALSE
          /\ DOMAIN v = DOMAIN w
      BY <2>1 DEF IsWork
    <2> QED BY <2>2 DEF IsWork, Allocated
  <1>2. CASE ~(~w.ok \/ Dom!Cardinality(DOMAIN w.node) >= MaxNodes)
    <2> DEFINE t == [n \in DOMAIN w.node \cup {w.next} |-> IF n = w.next THEN NewNode(tag) ELSE w.node[n]]
    <2>1. v = [w EXCEPT !.node = t, !.next = w.next + 1, !.made = Append(w.made, w.next)]
      BY <1>2 DEF Dom!Allocate, NewNode, NoNode
    <2>2. Sound(t, w.next + 1) /\ w.next \notin DOMAIN w.node
      BY FreshSound DEF IsWork
    <2>3. /\ DOMAIN t = DOMAIN w.node \cup {w.next} /\ t[w.next] = NewNode(tag)
          /\ \A x \in DOMAIN w.node : t[x] = w.node[x]
      BY <2>2
    <2> HIDE DEF t
    <2>4. /\ v.node = t /\ v.next = w.next + 1 /\ v.made = Append(w.made, w.next)
          /\ v.ok = w.ok /\ DOMAIN v = DOMAIN w
      BY <2>1 DEF IsWork
    <2>5. w.next \in Nat /\ w.made \in Seq(Nat)
      BY DEF IsWork, Sound, IsStore
    <2>6. v.made \in Seq(Nat)
      BY <2>4, <2>5
    <2> QED BY <1>2, <2>2, <2>3, <2>4, <2>6 DEF IsWork, Allocated
  <1> QED BY <1>1, <1>2

(* One node hung up, or nothing.                                           *)
Attached(v, w, p, c) ==
  /\ v.next = w.next /\ v.made = w.made
  /\ IF v.ok THEN w.ok /\ Relinked(v.node, w.node, p, Append(w.node[p].children, c), c, p)
             ELSE v.node = w.node

Loose(s, p, c, T) ==
  /\ p \in DOMAIN s /\ c \in DOMAIN s /\ s[c].parent = NoNode
  /\ c \in T /\ p \notin T /\ \A x \in DOMAIN s \ T : s[x].parent \notin T

LEMMA AttachSound ==
  ASSUME NEW w, IsWork(w), NEW p, NEW c, NEW T, w.ok => Loose(w.node, p, c, T),
         NEW v, v = Dom!Attach(w, p, c)
  PROVE  IsWork(v) /\ Attached(v, w, p, c)
  <1> DEFINE stop == ~w.ok \/ w.node[p].tag = "text" \/ ~Dom!DepthOk(w.node, p)
  <1>1. CASE stop
    <2>1. v = [w EXCEPT !.ok = FALSE]
      BY <1>1 DEF Dom!Attach
    <2>2. /\ v.node = w.node /\ v.next = w.next /\ v.made = w.made /\ v.ok = FALSE
          /\ DOMAIN v = DOMAIN w
      BY <2>1 DEF IsWork
    <2> QED BY <2>2 DEF IsWork, Attached
  <1>2. CASE ~stop
    <2> DEFINE t == Dom!Link(w.node, p, c)
    <2>1. v = [w EXCEPT !.node = t] /\ w.ok
      BY <1>2 DEF Dom!Attach
    <2>2. Loose(w.node, p, c, T) /\ Sound(w.node, w.next)
      BY <2>1 DEF IsWork
    <2>3. Sound(t, w.next) /\ Relinked(t, w.node, p, Append(w.node[p].children, c), c, p)
      BY <2>2, LinkSound DEF Loose
    <2> HIDE DEF t
    <2>4. /\ v.node = t /\ v.next = w.next /\ v.made = w.made /\ v.ok = w.ok
          /\ DOMAIN v = DOMAIN w
      BY <2>1 DEF IsWork
    <2> QED BY <2>1, <2>3, <2>4 DEF IsWork, Attached
  <1> QED BY <1>1, <1>2

(* What a call builds, it builds of new nodes: none that was there before  *)
(* is moved.                                                               *)
Grown(t, s, base) ==
  /\ DOMAIN s \subseteq DOMAIN t
  /\ \A x \in DOMAIN t \ DOMAIN s : x >= base
  /\ \A x \in DOMAIN s : t[x].parent = s[x].parent

Imported(v, w, k) ==
  /\ IsWork(v)
  /\ w.next <= v.next /\ v.next <= w.next + k
  /\ Grown(v.node, w.node, w.next)
  /\ \A i \in 1 .. Len(v.made) :
       v.made[i] \in DOMAIN v.node /\ w.next <= v.made[i] /\ v.made[i] < v.next
  /\ v.ok => w.ok /\ Len(v.made) = k
  /\ Len(v.made) # 0 => v.node[v.made[1]].parent = NoNode

LEMMA StoreIds ==
  ASSUME NEW s, NEW next, Sound(s, next)
  PROVE  /\ next \in Nat \ {0} /\ \A x \in DOMAIN s : x \in Nat \ {0} /\ x < next
         /\ \A x \in DOMAIN s : s[x].parent \in Nat /\ s[x].parent < next
  <1>1. Linked(s) /\ next \in Nat \ {0} /\ DOMAIN s \subseteq 1 .. next - 1
    BY DEF Sound, IsStore
  <1>2. \A x \in DOMAIN s : s[x].parent \in DOMAIN s \cup {NoNode}
    BY <1>1 DEF Linked
  <1> QED BY <1>1, <1>2 DEF NoNode, Dom!NoNode

LEMMA ItemSound ==
  ASSUME NEW w, IsWork(w), NEW k \in Nat, NEW v, Imported(v, w, k), w.next + k <= LastId,
         NEW item \in Dom!Item, item.up <= k,
         NEW a, a = Dom!Allocate(v, item.tag),
         NEW u, u = IF item.up = 0 THEN a ELSE Dom!Attach(a, a.made[item.up], Dom!Last(a.made))
  PROVE  Imported(u, w, k + 1)
  <1>1. item.tag \in Dom!Tags /\ item.up \in Nat
    BY DEF Dom!Item
  <1>2. /\ w.next \in Nat /\ v.next \in Nat /\ v.next <= LastId /\ LastId \in Nat
        /\ w.next <= v.next /\ v.next <= w.next + k
        /\ IsWork(v) /\ v.made \in Seq(Nat)
    <2>1. IsWork(v) /\ Sound(v.node, v.next) /\ Sound(w.node, w.next) /\ v.made \in Seq(Nat)
      BY DEF Imported, IsWork
    <2>2. w.next <= v.next /\ v.next <= w.next + k
      BY DEF Imported
    <2>3. w.next \in Nat /\ v.next \in Nat /\ LastId \in Nat
      BY <2>1, StoreIds, Limits
    <2> QED BY <2>1, <2>2, <2>3
  <1>3. IsWork(a) /\ Allocated(a, v, item.tag)
    BY <1>1, <1>2, AllocateSound
  <1>4. /\ Grown(v.node, w.node, w.next)
        /\ \A i \in 1 .. Len(v.made) :
             v.made[i] \in DOMAIN v.node /\ w.next <= v.made[i] /\ v.made[i] < v.next
        /\ v.ok => w.ok /\ Len(v.made) = k
        /\ Len(v.made) # 0 => v.node[v.made[1]].parent = NoNode
    BY DEF Imported
  <1>5. CASE ~a.ok
    <2>1. a.node = v.node /\ a.next = v.next /\ a.made = v.made
      BY <1>3, <1>5 DEF Allocated
    <2>2. u.node = v.node /\ u.next = v.next /\ u.made = v.made /\ ~u.ok /\ IsWork(u)
      <3>1. CASE item.up = 0
        BY <1>3, <1>5, <2>1, <3>1
      <3>2. CASE item.up # 0
        <4>1. u = Dom!Attach(a, a.made[item.up], Dom!Last(a.made))
          BY <3>2
        <4>2. IsWork(u) /\ Attached(u, a, a.made[item.up], Dom!Last(a.made))
          BY <1>3, <1>5, <4>1, AttachSound
        <4> QED BY <1>5, <2>1, <4>2 DEF Attached
      <3> QED BY <3>1, <3>2
    <2>3. v.next <= w.next + (k + 1)
      BY <1>2
    <2> QED BY <1>2, <1>4, <2>2, <2>3 DEF Imported
  <1>6. CASE a.ok
    <2> DEFINE c == v.next
               last == Dom!Last(a.made)
    <2>1. /\ v.ok /\ a.next = v.next + 1 /\ a.made = Append(v.made, c)
          /\ DOMAIN a.node = DOMAIN v.node \cup {c} /\ c \notin DOMAIN v.node
          /\ a.node[c] = NewNode(item.tag)
          /\ \A x \in DOMAIN v.node : a.node[x] = v.node[x]
      BY <1>3, <1>6 DEF Allocated
    <2>2. w.ok /\ Len(v.made) = k
      BY <1>4, <2>1
    <2>3. /\ Len(a.made) = k + 1 /\ last = c /\ a.made[k + 1] = c
          /\ \A i \in 1 .. k : a.made[i] = v.made[i]
      BY <1>2, <2>1, <2>2 DEF Dom!Last
    <2>4. a.node[c].parent = NoNode /\ a.node[c].children = <<>>
      BY <2>1 DEF NewNode
    <2> HIDE DEF last
    <2>5. Imported(a, w, k + 1)
      <3>1. Grown(a.node, w.node, w.next)
        <4>1. DOMAIN w.node \subseteq DOMAIN a.node
          BY <1>4, <2>1 DEF Grown
        <4>2. \A x \in DOMAIN a.node \ DOMAIN w.node : x >= w.next
          BY <1>2, <1>4, <2>1 DEF Grown
        <4>3. \A x \in DOMAIN w.node : a.node[x].parent = w.node[x].parent
          BY <1>4, <2>1 DEF Grown
        <4> QED BY <4>1, <4>2, <4>3 DEF Grown
      <3>2. ASSUME NEW i \in 1 .. Len(a.made)
            PROVE  a.made[i] \in DOMAIN a.node /\ w.next <= a.made[i] /\ a.made[i] < a.next
        <4>1. CASE i = k + 1
          BY <1>2, <2>1, <2>3, <4>1
        <4>2. CASE i # k + 1
          <5>1. i \in 1 .. k /\ i \in 1 .. Len(v.made)
            BY <2>2, <2>3, <4>2
          <5>2. a.made[i] = v.made[i] /\ v.made[i] \in Nat
            BY <1>2, <2>3, <5>1
          <5> QED BY <1>2, <1>4, <2>1, <5>1, <5>2
        <4> QED BY <4>1, <4>2
      <3>3. a.node[a.made[1]].parent = NoNode
        <4>1. CASE k = 0
          BY <2>3, <2>4, <4>1
        <4>2. CASE k # 0
          <5>1. 1 \in 1 .. k /\ 1 \in 1 .. Len(v.made)
            BY <2>2, <4>2
          <5> QED BY <1>4, <2>1, <2>2, <2>3, <4>2, <5>1
        <4> QED BY <4>1, <4>2
      <3>4. w.next <= a.next /\ a.next <= w.next + (k + 1)
        BY <1>2, <2>1
      <3> QED BY <1>3, <2>2, <2>3, <3>1, <3>2, <3>3, <3>4 DEF Imported
    <2>6. CASE item.up = 0
      BY <2>5, <2>6
    <2>7. CASE item.up # 0
      <3> DEFINE p == a.made[item.up]
      <3>1. u = Dom!Attach(a, p, last)
        BY <2>7 DEF last
      <3>2. item.up \in 1 .. k /\ item.up \in 1 .. Len(v.made)
        BY <1>1, <2>2, <2>7
      <3>3. p \in DOMAIN v.node /\ p \in DOMAIN a.node /\ p # c
        BY <1>4, <2>1, <2>3, <3>2
      <3>4. \A x \in DOMAIN a.node : a.node[x].parent # c
        <4>1. Linked(a.node) /\ c # NoNode
          <5>1. Sound(a.node, a.next) /\ Sound(v.node, v.next)
            BY <1>2, <1>3 DEF IsWork
          <5> QED BY <5>1, StoreIds DEF Sound, NoNode, Dom!NoNode
        <4>2. Range(a.node[c].children) = {}
          BY <2>4 DEF Range
        <4> QED BY <4>1, <4>2 DEF Linked
      <3>5. Loose(a.node, p, last, {c})
        BY <2>1, <2>3, <2>4, <3>3, <3>4 DEF Loose
      <3> HIDE DEF p
      <3>6. IsWork(u) /\ Attached(u, a, p, last)
        BY <1>3, <3>1, <3>5, AttachSound
      <3>7. CASE ~u.ok
        <4>1. u.node = a.node /\ u.next = a.next /\ u.made = a.made
          BY <3>6, <3>7 DEF Attached
        <4> QED BY <2>5, <3>6, <3>7, <4>1 DEF Imported
      <3>8. CASE u.ok
        <4>1. /\ u.next = a.next /\ u.made = a.made /\ DOMAIN u.node = DOMAIN a.node
              /\ \A x \in DOMAIN a.node : x # c => u.node[x].parent = a.node[x].parent
          BY <2>3, <3>6, <3>8 DEF Attached, Relinked
        <4>2. c \notin DOMAIN w.node
          BY <1>4, <2>1 DEF Grown
        <4>3. Grown(u.node, w.node, w.next)
          BY <2>5, <4>1, <4>2 DEF Imported, Grown
        <4>4. u.node[u.made[1]].parent = NoNode
          <5>1. k # 0 /\ 1 \in 1 .. Len(v.made) /\ 1 \in 1 .. k
            BY <2>2, <3>2
          <5>2. u.made[1] = v.made[1] /\ v.made[1] \in DOMAIN v.node
            BY <1>4, <2>3, <4>1, <5>1
          <5>3. a.node[u.made[1]].parent = NoNode
            BY <1>4, <2>1, <2>2, <5>1, <5>2
          <5>4. v.made[1] \in DOMAIN a.node /\ v.made[1] # c
            BY <2>1, <5>2
          <5>5. u.node[v.made[1]].parent = a.node[v.made[1]].parent
            BY <4>1, <5>4
          <5> QED BY <5>2, <5>3, <5>5
        <4>5. /\ w.next <= a.next /\ a.next <= w.next + (k + 1) /\ Len(a.made) = k + 1
              /\ \A i \in 1 .. Len(a.made) :
                   a.made[i] \in DOMAIN a.node /\ w.next <= a.made[i] /\ a.made[i] < a.next
          BY <2>3, <2>5 DEF Imported
        <4>6. /\ w.next <= u.next /\ u.next <= w.next + (k + 1) /\ Len(u.made) = k + 1
              /\ \A i \in 1 .. Len(u.made) :
                   u.made[i] \in DOMAIN u.node /\ w.next <= u.made[i] /\ u.made[i] < u.next
          BY <4>1, <4>5
        <4> QED BY <2>2, <3>6, <4>3, <4>4, <4>6 DEF Imported
      <3> QED BY <3>7, <3>8
    <2> QED BY <2>6, <2>7
  <1> QED BY <1>5, <1>6

(* A subtree that markup may hold.                                         *)
Markable(sub) ==
  sub \in Seq(Dom!Item) /\ sub # <<>> /\ \A j \in 1 .. Len(sub) : sub[j].up < j

LEMMA ImportSound ==
  ASSUME NEW w, IsWork(w), NEW sub, Markable(sub), w.next + Len(sub) <= LastId + 1
  PROVE  Imported(Dom!ImportElement(w, sub), w, Len(sub))
  <1> DEFINE N == Len(sub)
             item(v, i) == LET a == Dom!Allocate(v, i.tag)
                           IN  IF i.up = 0 THEN a ELSE Dom!Attach(a, a.made[i.up], Dom!Last(a.made))
             w0 == [w EXCEPT !.made = <<>>]
             Builds(g, n) == /\ g = [k \in 0 .. n |-> g[k]] /\ g[0] = w0
                             /\ \A k \in 1 .. n : g[k] = item(g[k - 1], sub[k])
             R == {n \in Nat : \E g : Builds(g, n)}
             body(g) == [k \in 0 .. N |-> IF k = 0 THEN w0 ELSE item(g[k - 1], sub[k])]
             it == CHOOSE g : g = body(g)
  <1>1. N \in Nat /\ LastId \in Nat /\ w.next \in Nat
    BY Limits, StoreIds DEF Markable, IsWork
  <1>2. Dom!ImportElement(w, sub) = it[N]
    BY DEF Dom!ImportElement
  <1>3. \A v, i : item(v, i) = LET a == Dom!Allocate(v, i.tag)
                               IN  IF i.up = 0 THEN a ELSE Dom!Attach(a, a.made[i.up], Dom!Last(a.made))
    OBVIOUS
  <1>4. /\ IsWork(w0) /\ w0.node = w.node /\ w0.next = w.next /\ w0.ok = w.ok /\ w0.made = <<>>
    <2> DEFINE e == <<>>
    <2>1. e \in Seq(Nat)
      OBVIOUS
    <2> HIDE DEF e
    <2>2. w0 = [w EXCEPT !.made = e]
      BY DEF e
    <2>3. w0.node = w.node /\ w0.next = w.next /\ w0.ok = w.ok /\ w0.made = e /\ DOMAIN w0 = DOMAIN w
      BY <2>2 DEF IsWork
    <2> HIDE DEF w0
    <2> QED BY <2>1, <2>3 DEF IsWork, e
  <1> HIDE DEF item, w0
  <1>5. N \in R
    <2>1. 0 \in R
      <3> DEFINE g == [k \in 0 .. 0 |-> w0]
      <3>1. Builds(g, 0)
        OBVIOUS
      <3> HIDE DEF g, Builds
      <3> QED BY <3>1
    <2>2. ASSUME NEW n \in R PROVE n + 1 \in R
      <3>1. PICK g : Builds(g, n)
        BY <2>2
      <3> DEFINE h == [k \in 0 .. n + 1 |-> IF k = n + 1 THEN item(g[n], sub[n + 1]) ELSE g[k]]
      <3>2. n \in Nat
        BY <2>2
      <3>3. /\ h = [k \in 0 .. n + 1 |-> h[k]] /\ h[0] = g[0]
            /\ h[n + 1] = item(g[n], sub[n + 1]) /\ \A k \in 0 .. n : h[k] = g[k]
        BY <3>2
      <3> HIDE DEF h
      <3>4. ASSUME NEW k \in 1 .. n + 1 PROVE h[k] = item(h[k - 1], sub[k])
        <4>1. CASE k = n + 1
          <5>1. k - 1 = n /\ n \in 0 .. n
            BY <3>2, <4>1
          <5> QED BY <3>3, <4>1, <5>1
        <4>2. CASE k # n + 1
          <5>1. k \in 1 .. n /\ k \in 0 .. n /\ k - 1 \in 0 .. n
            BY <3>2, <4>2
          <5> QED BY <3>1, <3>3, <5>1
        <4> QED BY <4>1, <4>2
      <3>5. Builds(h, n + 1)
        BY <3>1, <3>3, <3>4
      <3> HIDE DEF Builds
      <3> QED BY <3>2, <3>5
    <2>3. R \subseteq Nat
      OBVIOUS
    <2> HIDE DEF R
    <2> QED BY <1>1, <2>1, <2>2, <2>3, Counting
  <1>6. it[0] = w0 /\ \A k \in 1 .. N : it[k] = item(it[k - 1], sub[k])
    <2>1. PICK g : Builds(g, N)
      BY <1>5
    <2> HIDE DEF N
    <2>6. g[0] = w0 /\ \A k \in 1 .. N : g[k] = item(g[k - 1], sub[k])
      BY <2>1
    <2>7. \A k \in 0 .. N : k = 0 \/ k \in 1 .. N
      BY <1>1
    <2>2. \A k \in 0 .. N : g[k] = IF k = 0 THEN w0 ELSE item(g[k - 1], sub[k])
      BY <2>6, <2>7
    <2>3. g = body(g)
      BY <2>1, <2>2
    <2> HIDE DEF body
    <2>4. it = body(it)
      BY <2>3
    <2> HIDE DEF it
    <2>5. \A k \in 0 .. N : it[k] = IF k = 0 THEN w0 ELSE item(it[k - 1], sub[k])
      BY <2>4 DEF body
    <2> QED BY <1>1, <2>5
  <1> HIDE DEF it
  <1> DEFINE T == {k \in Nat : k <= N => Imported(it[k], w, k)}
  <1>7. 0 \in T
    <2>1. Grown(w0.node, w.node, w.next)
      BY <1>4 DEF Grown
    <2>2. Len(w0.made) = 0
      BY <1>4
    <2>3. Imported(w0, w, 0)
      BY <1>1, <1>4, <2>1, <2>2 DEF Imported
    <2> QED BY <1>6, <2>3
  <1>8. ASSUME NEW k \in T PROVE k + 1 \in T
    <2>1. k \in Nat /\ (k <= N => Imported(it[k], w, k))
      OBVIOUS
    <2> SUFFICES ASSUME k + 1 <= N PROVE Imported(it[k + 1], w, k + 1)
      BY <2>1
    <2> HIDE DEF T
    <2>2. k <= N /\ k + 1 \in 1 .. N /\ (k + 1) - 1 = k /\ w.next + k <= LastId
      BY <1>1, <2>1
    <2>3. Imported(it[k], w, k)
      BY <2>1, <2>2
    <2>4. it[k + 1] = item(it[k], sub[k + 1])
      BY <1>6, <2>2
    <2>5. sub[k + 1] \in Dom!Item /\ sub[k + 1].up < k + 1
      BY <2>2 DEF Markable
    <2>6. sub[k + 1].up <= k
      <3>1. sub[k + 1].up \in Nat
        BY <2>5 DEF Dom!Item
      <3> QED BY <2>1, <2>5, <3>1
    <2> DEFINE i == sub[k + 1]
               a == Dom!Allocate(it[k], i.tag)
               u == IF i.up = 0 THEN a ELSE Dom!Attach(a, a.made[i.up], Dom!Last(a.made))
    <2>7. it[k + 1] = u
      BY <1>3, <2>4
    <2>8. Imported(u, w, k + 1)
      BY <2>1, <2>2, <2>3, <2>5, <2>6, ItemSound
    <2> HIDE DEF u
    <2> QED BY <2>7, <2>8
  <1>9. N \in T
    <2>1. T \subseteq Nat
      OBVIOUS
    <2> HIDE DEF T
    <2> QED BY <1>1, <1>7, <1>8, <2>1, Counting
  <1>10. Imported(it[N], w, N)
    <2> HIDE DEF N
    <2> QED BY <1>1, <1>9
  <1> QED BY <1>2, <1>10

LEMMA SubtreeSound ==
  ASSUME NEW w, IsWork(w), NEW sub, Markable(sub), w.next + Len(sub) <= LastId + 1
  PROVE  Imported(Dom!ImportSubtree(w, sub), w, Len(sub))
  <1> DEFINE i == Dom!ImportElement(w, sub)
  <1>1. Imported(i, w, Len(sub))
    BY ImportSound
  <1>2. Dom!ImportSubtree(w, sub) = IF w.ok /\ i.ok THEN [i EXCEPT !.marked = TRUE] ELSE i
    BY DEF Dom!ImportSubtree
  <1> HIDE DEF i
  <1> DEFINE m == [i EXCEPT !.marked = TRUE]
  <1>3. IsWork(i)
    BY <1>1 DEF Imported
  <1>4. m.node = i.node /\ m.next = i.next /\ m.ok = i.ok /\ m.made = i.made /\ DOMAIN m = DOMAIN i
    BY <1>3 DEF IsWork
  <1> HIDE DEF m
  <1>5. IsWork(m)
    BY <1>3, <1>4 DEF IsWork
  <1>6. Imported(m, w, Len(sub))
    BY <1>1, <1>4, <1>5 DEF Imported
  <1> QED BY <1>1, <1>2, <1>6 DEF m

Filled(v, w, m) ==
  /\ IsWork(v) /\ w.next <= v.next /\ v.next <= w.next + m
  /\ Grown(v.node, w.node, w.next)

LEMMA GrownOn ==
  ASSUME NEW s, NEW t, NEW u, NEW a \in Nat, NEW b \in Nat, a <= b,
         Grown(t, s, a), Grown(u, t, b), \A x \in DOMAIN u : x \in Nat
  PROVE  Grown(u, s, a)
  BY DEF Grown

LEMMA LeafSound ==
  ASSUME NEW w, IsWork(w), NEW m \in Nat, NEW v, Filled(v, w, m), w.next + m <= LastId,
         NEW tag \in Dom!Tags, NEW p \in DOMAIN w.node
  PROVE  LET a == Dom!Allocate(v, tag)
             u == Dom!Attach(a, p, v.next)
         IN  /\ Filled(a, w, m + 1) /\ Filled(u, w, m + 1)
             /\ Allocated(a, v, tag) /\ Attached(u, a, p, v.next)
             /\ a.ok => Dom!Last(a.made) = v.next
  <1> DEFINE a == Dom!Allocate(v, tag)
             c == v.next
             u == Dom!Attach(a, p, c)
  <1>1. /\ IsWork(v) /\ Sound(v.node, c) /\ v.made \in Seq(Nat)
        /\ w.next \in Nat /\ c \in Nat /\ w.next <= c /\ c <= w.next + m /\ c <= LastId
        /\ Grown(v.node, w.node, w.next)
    <2>1. /\ IsWork(v) /\ w.next <= c /\ c <= w.next + m /\ Grown(v.node, w.node, w.next)
      BY DEF Filled
    <2>2. Sound(v.node, c) /\ Sound(w.node, w.next) /\ v.made \in Seq(Nat)
      BY <2>1 DEF IsWork
    <2>3. w.next \in Nat /\ c \in Nat /\ LastId \in Nat
      BY <2>2, StoreIds, Limits
    <2> QED BY <2>1, <2>2, <2>3
  <1>2. IsWork(a) /\ Allocated(a, v, tag)
    BY <1>1, AllocateSound
  <1> HIDE DEF a
  <1>3. CASE ~a.ok
    <2>1. a.node = v.node /\ a.next = v.next
      BY <1>2, <1>3 DEF Allocated
    <2>2. IsWork(u) /\ Attached(u, a, p, c)
      BY <1>2, <1>3, AttachSound
    <2> HIDE DEF u
    <2>3. u.node = a.node /\ u.next = a.next
      BY <1>3, <2>2 DEF Attached
    <2>4. c <= w.next + (m + 1)
      BY <1>1
    <2>5. Filled(a, w, m + 1) /\ Filled(u, w, m + 1)
      BY <1>1, <1>2, <2>1, <2>2, <2>3, <2>4 DEF Filled
    <2> QED BY <1>2, <1>3, <2>2, <2>5 DEF a, u
  <1>4. CASE a.ok
    <2>1. /\ a.next = c + 1 /\ a.made = Append(v.made, c)
          /\ DOMAIN a.node = DOMAIN v.node \cup {c} /\ c \notin DOMAIN v.node
          /\ a.node[c] = NewNode(tag)
          /\ \A x \in DOMAIN v.node : a.node[x] = v.node[x]
      BY <1>2, <1>4 DEF Allocated
    <2>2. a.node[c].parent = NoNode /\ a.node[c].children = <<>>
      BY <2>1 DEF NewNode
    <2>3. Dom!Last(a.made) = c
      BY <1>1, <2>1 DEF Dom!Last
    <2>4. p \in DOMAIN v.node /\ p \in DOMAIN a.node /\ p # c
      BY <1>1, <2>1 DEF Grown
    <2>5. \A x \in DOMAIN a.node : a.node[x].parent # c
      <3>1. Linked(a.node) /\ c # NoNode
        <4>1. Sound(a.node, a.next)
          BY <1>2 DEF IsWork
        <4> QED BY <1>1, <4>1, StoreIds DEF Sound, NoNode, Dom!NoNode
      <3>2. Range(a.node[c].children) = {}
        BY <2>2 DEF Range
      <3> QED BY <2>1, <3>1, <3>2 DEF Linked
    <2>6. Loose(a.node, p, c, {c})
      BY <2>1, <2>2, <2>4, <2>5 DEF Loose
    <2>7. IsWork(u) /\ Attached(u, a, p, c)
      BY <1>2, <2>6, AttachSound
    <2> HIDE DEF u
    <2>8. u.next = a.next /\ DOMAIN u.node = DOMAIN a.node
      BY <2>7 DEF Attached, Relinked
    <2>9. \A x \in DOMAIN v.node : u.node[x].parent = v.node[x].parent
      <3>1. \A x \in DOMAIN v.node : x # c /\ x \in DOMAIN a.node /\ a.node[x].parent = v.node[x].parent
        BY <2>1
      <3>2. \A x \in DOMAIN a.node : x # c => u.node[x].parent = a.node[x].parent
        BY <2>7 DEF Attached, Relinked
      <3> QED BY <3>1, <3>2
    <2>10. Grown(a.node, v.node, c) /\ Grown(u.node, v.node, c)
      <3>1. \A x \in DOMAIN a.node \ DOMAIN v.node : x >= c
        BY <1>1, <2>1
      <3> QED BY <2>1, <2>8, <2>9, <3>1 DEF Grown
    <2>11. \A x \in DOMAIN a.node : x \in Nat
      <3>1. Sound(a.node, a.next)
        BY <1>2 DEF IsWork
      <3> QED BY <3>1, StoreIds
    <2>12. Grown(a.node, w.node, w.next) /\ Grown(u.node, w.node, w.next)
      BY <1>1, <2>8, <2>10, <2>11, GrownOn
    <2>13. w.next <= a.next /\ a.next <= w.next + (m + 1)
      BY <1>1, <2>1
    <2>14. Filled(a, w, m + 1) /\ Filled(u, w, m + 1)
      BY <1>2, <2>7, <2>8, <2>12, <2>13 DEF Filled
    <2> QED BY <1>2, <2>3, <2>7, <2>14 DEF a, u
  <1> QED BY <1>3, <1>4

LEMMA GraftSound ==
  ASSUME NEW w, IsWork(w), NEW m \in Nat, NEW v, Filled(v, w, m), NEW p \in DOMAIN w.node,
         NEW sub, Markable(sub), (w.next + m) + Len(sub) <= LastId + 1,
         NEW i, i = Dom!ImportSubtree(v, sub),
         NEW u, u = IF v.ok /\ i.ok THEN Dom!Attach(i, p, Dom!Head(i.made)) ELSE i
  PROVE  Filled(u, w, m + Len(sub))
  <1>1. /\ IsWork(v) /\ Sound(v.node, v.next)
        /\ w.next \in Nat /\ v.next \in Nat /\ w.next <= v.next /\ v.next <= w.next + m
        /\ Grown(v.node, w.node, w.next) /\ Len(sub) \in Nat /\ Len(sub) # 0
        /\ v.next + Len(sub) <= LastId + 1
    <2>1. /\ IsWork(v) /\ w.next <= v.next /\ v.next <= w.next + m /\ Grown(v.node, w.node, w.next)
      BY DEF Filled
    <2>2. Sound(v.node, v.next) /\ Sound(w.node, w.next)
      BY <2>1 DEF IsWork
    <2>3. w.next \in Nat /\ v.next \in Nat /\ LastId \in Nat
      BY <2>2, StoreIds, Limits
    <2>4. Len(sub) \in Nat /\ Len(sub) # 0
      BY DEF Markable
    <2> QED BY <2>1, <2>2, <2>3, <2>4
  <1>2. Imported(i, v, Len(sub))
    BY <1>1, SubtreeSound
  <1>3. /\ IsWork(i) /\ v.next <= i.next /\ i.next <= v.next + Len(sub)
        /\ Grown(i.node, v.node, v.next) /\ i.made \in Seq(Nat)
        /\ i.next \in Nat /\ \A x \in DOMAIN i.node : x \in Nat
    <2>1. IsWork(i) /\ Sound(i.node, i.next)
      BY <1>2 DEF Imported, IsWork
    <2>2. i.next \in Nat /\ \A x \in DOMAIN i.node : x \in Nat
      BY <2>1, StoreIds
    <2> QED BY <1>2, <2>1, <2>2 DEF Imported, IsWork
  <1>4. Grown(i.node, w.node, w.next)
    BY <1>1, <1>3, GrownOn
  <1>5. w.next <= i.next /\ i.next <= w.next + (m + Len(sub))
    BY <1>1, <1>3
  <1>6. Filled(i, w, m + Len(sub))
    BY <1>3, <1>4, <1>5 DEF Filled
  <1>7. CASE v.ok /\ i.ok
    <2> DEFINE c == Dom!Head(i.made)
               T == {x \in Nat : x >= v.next}
    <2>1. Len(i.made) = Len(sub)
      BY <1>2, <1>7 DEF Imported
    <2>2. c = i.made[1] /\ 1 \in 1 .. Len(i.made) /\ Len(i.made) # 0
      BY <1>1, <1>3, <2>1
    <2> HIDE DEF c
    <2>3. c \in DOMAIN i.node /\ v.next <= c /\ i.node[c].parent = NoNode
      BY <1>2, <2>2 DEF Imported
    <2>4. p \in DOMAIN v.node /\ p \in DOMAIN i.node /\ p < v.next
      BY <1>1, <1>3, StoreIds DEF Grown
    <2>5. ASSUME NEW x \in DOMAIN i.node \ T PROVE i.node[x].parent \notin T
      <3>1. x \in DOMAIN v.node
        BY <1>3, <2>5 DEF Grown
      <3>2. i.node[x].parent = v.node[x].parent
        BY <1>3, <3>1 DEF Grown
      <3>3. v.node[x].parent \in Nat /\ v.node[x].parent < v.next
        BY <1>1, <3>1, StoreIds
      <3> QED BY <1>1, <3>2, <3>3
    <2>6. c \in T /\ p \notin T
      BY <1>1, <1>3, <2>3, <2>4
    <2> HIDE DEF T
    <2>7. Loose(i.node, p, c, T)
      BY <2>3, <2>4, <2>5, <2>6 DEF Loose
    <2>8. u = Dom!Attach(i, p, c)
      BY <1>7 DEF c
    <2>9. IsWork(u) /\ Attached(u, i, p, c)
      BY <1>3, <2>7, <2>8, AttachSound
    <2>10. CASE ~u.ok
      <3>1. u.node = i.node /\ u.next = i.next
        BY <2>9, <2>10 DEF Attached
      <3> QED BY <1>6, <2>9, <3>1 DEF Filled
    <2>11. CASE u.ok
      <3>1. /\ u.next = i.next /\ DOMAIN u.node = DOMAIN i.node
            /\ \A x \in DOMAIN i.node : x # c => u.node[x].parent = i.node[x].parent
        BY <2>9, <2>11 DEF Attached, Relinked
      <3>2. c \notin DOMAIN v.node
        BY <1>1, <2>3, StoreIds
      <3>3. c \notin DOMAIN w.node
        BY <1>1, <3>2 DEF Grown
      <3>4. Grown(u.node, w.node, w.next)
        BY <1>4, <3>1, <3>3 DEF Grown
      <3> QED BY <1>5, <2>9, <3>1, <3>4 DEF Filled
    <2> QED BY <2>10, <2>11
  <1> QED BY <1>6, <1>7

Growing(f) ==
  /\ f.subs \in Seq(Seq(Dom!Item))
  /\ \A k \in 1 .. Len(f.subs) : Markable(f.subs[k])

LEMMA MarkupGrows ==
  ASSUME NEW f \in Markup
  PROVE  Growing(f) /\ f.text \in BOOLEAN
  <1>1. /\ f.subs \in Seq(Seq(Dom!Item)) /\ f.text \in BOOLEAN
        /\ \A k \in DOMAIN f.subs :
             f.subs[k] # <<>> /\ \A j \in DOMAIN f.subs[k] : f.subs[k][j].up < j
    BY DocumentAssumption DEF Dom!DocumentAssumption
  <1> DEFINE Q == Seq(Dom!Item)
  <1>2. \A q \in Q : q \in Seq(Dom!Item) /\ DOMAIN q = 1 .. Len(q)
    OBVIOUS
  <1> HIDE DEF Q
  <1>3. f.subs \in Seq(Q)
    BY <1>1 DEF Q
  <1>4. ASSUME NEW k \in 1 .. Len(f.subs) PROVE Markable(f.subs[k])
    <2>1. f.subs[k] \in Q /\ k \in DOMAIN f.subs
      BY <1>3
    <2> QED BY <1>1, <1>2, <2>1 DEF Markable
  <1> QED BY <1>1, <1>4 DEF Growing

(* How long the subtrees of a fragment are together, up to each of them.   *)
Sizes(long, f) ==
  /\ \A k \in 0 .. Len(f.subs) : long[k] \in Nat /\ long[k] <= long[Len(f.subs)]
  /\ long[0] = 0
  /\ \A k \in 0 .. Len(f.subs) :
       k + 1 <= Len(f.subs) => long[k + 1] = long[k] + Len(f.subs[k + 1])
  /\ Dom!Size(f) = long[Len(f.subs)] + 1

LEMMA FragmentSizes ==
  ASSUME NEW f, Growing(f)
  PROVE  \E long : Sizes(long, f)
  <1> DEFINE N == Len(f.subs)
  <1>1. N \in Nat
    BY DEF Growing
  <1>4. PICK flat \in [0 .. N -> Seq(Dom!Item)] : FlattensTo(flat, f.subs)
    BY FlattenStep DEF Growing
  <1> DEFINE long(k) == Len(flat[k])
  <1>7. /\ \A k \in 0 .. N : long(k) \in Nat
        /\ long(0) = 0 /\ \A k \in 0 .. N : k + 1 <= N => long(k + 1) = long(k) + Len(f.subs[k + 1])
    <2>1. \A k \in 0 .. N : flat[k] \in Seq(Dom!Item)
      BY <1>4
    <2>2. flat[0] = <<>> /\ \A k \in 1 .. N : flat[k] = flat[k - 1] \o f.subs[k]
      BY <1>4 DEF FlattensTo
    <2>3. \A k \in 1 .. N : f.subs[k] \in Seq(Dom!Item)
      BY DEF Growing, Markable
    <2>4. ASSUME NEW k \in 0 .. N, k + 1 <= N PROVE long(k + 1) = long(k) + Len(f.subs[k + 1])
      <3>1. k + 1 \in 1 .. N /\ (k + 1) - 1 = k
        BY <1>1, <2>4
      <3>2. flat[k + 1] = flat[k] \o f.subs[k + 1]
        BY <2>2, <3>1
      <3>3. flat[k] \in Seq(Dom!Item) /\ f.subs[k + 1] \in Seq(Dom!Item)
        BY <2>1, <2>3, <3>1
      <3> QED BY <3>2, <3>3
    <2>5. long(0) = 0
      BY <2>2
    <2>6. \A k \in 0 .. N : long(k) \in Nat
      BY <2>1
    <2> HIDE DEF long
    <2> QED BY <2>4, <2>5, <2>6
  <1>8. Dom!Size(f) = long(N) + 1
    <2>1. FlattenSeq(f.subs) = flat[N]
      BY <1>4 DEF FlattensTo
    <2>2. Dom!FlattenSeq(f.subs) = FlattenSeq(f.subs)
      BY DEF Dom!FlattenSeq, FlattenSeq
    <2> QED BY <2>1, <2>2 DEF Dom!Size
  <1>9. \A k \in 1 .. N : Len(f.subs[k]) \in Nat
    BY DEF Growing, Markable
  <1> HIDE DEF N, long
  <1>10. \A k \in 0 .. N : long(k) <= long(N)
    <2> DEFINE T == {i \in Nat : i <= N => long(N - i) <= long(N)}
    <2>1. 0 \in T
      BY <1>1, <1>7
    <2>2. ASSUME NEW i \in T PROVE i + 1 \in T
      <3>1. i \in Nat /\ (i <= N => long(N - i) <= long(N))
        OBVIOUS
      <3> SUFFICES ASSUME i + 1 <= N PROVE long(N - (i + 1)) <= long(N)
        BY <3>1
      <3> HIDE DEF T
      <3> DEFINE k == N - (i + 1)
      <3>2. k \in 0 .. N /\ k + 1 <= N /\ N - i = k + 1 /\ k + 1 \in 1 .. N /\ k + 1 \in 0 .. N /\ N \in 0 .. N
        BY <1>1, <3>1
      <3> HIDE DEF k
      <3>3. long(k + 1) = long(k) + Len(f.subs[k + 1]) /\ Len(f.subs[k + 1]) \in Nat
        BY <1>7, <1>9, <3>2
      <3>4. long(k) \in Nat /\ long(k + 1) \in Nat /\ long(N) \in Nat
        BY <1>7, <3>2
      <3>5. long(k + 1) <= long(N)
        BY <1>1, <3>1, <3>2
      <3>6. long(k) <= long(N)
        BY <3>3, <3>4, <3>5
      <3> QED BY <3>6 DEF k
    <2>3. T \subseteq Nat
      OBVIOUS
    <2> HIDE DEF T
    <2>4. \A i \in Nat : i \in T
      BY <2>1, <2>2, <2>3, Counting
    <2> SUFFICES ASSUME NEW k \in 0 .. N PROVE long(k) <= long(N)
      OBVIOUS
    <2>5. N - k \in Nat /\ N - k <= N /\ N - (N - k) = k
      BY <1>1
    <2>6. N - k \in T
      BY <2>4, <2>5
    <2>7. long(N - (N - k)) <= long(N)
      BY <2>5, <2>6 DEF T
    <2> QED BY <2>5, <2>7
  <1> DEFINE all == [k \in 0 .. N |-> long(k)]
  <1>11. /\ \A k \in 0 .. N : all[k] = long(k)
         /\ \A k \in 0 .. N : k + 1 <= N => k + 1 \in 0 .. N
         /\ 0 \in 0 .. N /\ N \in 0 .. N
    BY <1>1
  <1> HIDE DEF all
  <1>12. /\ \A k \in 0 .. N : all[k] \in Nat /\ all[k] <= all[N]
         /\ all[0] = 0 /\ Dom!Size(f) = all[N] + 1
    BY <1>7, <1>8, <1>10, <1>11
  <1>13. \A k \in 0 .. N : k + 1 <= N => all[k + 1] = all[k] + Len(f.subs[k + 1])
    BY <1>7, <1>11
  <1>14. Sizes(all, f)
    BY <1>12, <1>13 DEF Sizes, N
  <1> QED BY <1>14

LEMMA FragmentSound ==
  ASSUME NEW w, IsWork(w), NEW p \in DOMAIN w.node, NEW f, Growing(f), f.text \in BOOLEAN,
         w.next + Dom!Size(f) <= LastId + 1
  PROVE  Filled(Dom!AppendParsedFragment(w, f, p), w, Dom!Size(f))
  <1> DEFINE N == Len(f.subs)
             one(v, sub) == LET i == Dom!ImportSubtree(v, sub)
                            IN  IF v.ok /\ i.ok THEN Dom!Attach(i, p, Dom!Head(i.made)) ELSE i
             Builds(g, n) == /\ g = [k \in 0 .. n |-> g[k]] /\ g[0] = w
                             /\ \A k \in 1 .. n : g[k] = one(g[k - 1], f.subs[k])
             R == {n \in Nat : \E g : Builds(g, n)}
             body(g) == [k \in 0 .. N |-> IF k = 0 THEN w ELSE one(g[k - 1], f.subs[k])]
             it == CHOOSE g : g = body(g)
             leaf == Dom!Allocate(it[N], "text")
             all == it[N]
             done == IF ~all.ok \/ ~f.text THEN all
                     ELSE IF leaf.ok THEN Dom!Attach(leaf, p, Dom!Last(leaf.made)) ELSE leaf
  <1>1. N \in Nat /\ LastId \in Nat /\ w.next \in Nat
    BY Limits, StoreIds DEF Growing, IsWork
  <1>2. Dom!AppendParsedFragment(w, f, p) = done
    BY DEF Dom!AppendParsedFragment
  <1>3. \A v, sub : one(v, sub) = LET i == Dom!ImportSubtree(v, sub)
                                  IN  IF v.ok /\ i.ok THEN Dom!Attach(i, p, Dom!Head(i.made)) ELSE i
    OBVIOUS
  <1> HIDE DEF one, done
  <1>5. N \in R
    <2>1. 0 \in R
      <3> DEFINE g == [k \in 0 .. 0 |-> w]
      <3>1. Builds(g, 0)
        OBVIOUS
      <3> HIDE DEF g, Builds
      <3> QED BY <3>1
    <2>2. ASSUME NEW n \in R PROVE n + 1 \in R
      <3>1. PICK g : Builds(g, n)
        BY <2>2
      <3> DEFINE h == [k \in 0 .. n + 1 |-> IF k = n + 1 THEN one(g[n], f.subs[n + 1]) ELSE g[k]]
      <3>2. n \in Nat
        BY <2>2
      <3>3. /\ h = [k \in 0 .. n + 1 |-> h[k]] /\ h[0] = g[0]
            /\ h[n + 1] = one(g[n], f.subs[n + 1]) /\ \A k \in 0 .. n : h[k] = g[k]
        BY <3>2
      <3> HIDE DEF h
      <3>4. ASSUME NEW k \in 1 .. n + 1 PROVE h[k] = one(h[k - 1], f.subs[k])
        <4>1. CASE k = n + 1
          <5>1. k - 1 = n /\ n \in 0 .. n
            BY <3>2, <4>1
          <5> QED BY <3>3, <4>1, <5>1
        <4>2. CASE k # n + 1
          <5>1. k \in 1 .. n /\ k \in 0 .. n /\ k - 1 \in 0 .. n
            BY <3>2, <4>2
          <5> QED BY <3>1, <3>3, <5>1
        <4> QED BY <4>1, <4>2
      <3>5. Builds(h, n + 1)
        BY <3>1, <3>3, <3>4
      <3> HIDE DEF Builds
      <3> QED BY <3>2, <3>5
    <2>3. R \subseteq Nat
      OBVIOUS
    <2> HIDE DEF R
    <2> QED BY <1>1, <2>1, <2>2, <2>3, Counting
  <1>6. it[0] = w /\ \A k \in 1 .. N : it[k] = one(it[k - 1], f.subs[k])
    <2>1. PICK g : Builds(g, N)
      BY <1>5
    <2> HIDE DEF N
    <2>2. g[0] = w /\ \A k \in 1 .. N : g[k] = one(g[k - 1], f.subs[k])
      BY <2>1
    <2>3. \A k \in 0 .. N : k = 0 \/ k \in 1 .. N
      BY <1>1
    <2>4. \A k \in 0 .. N : g[k] = IF k = 0 THEN w ELSE one(g[k - 1], f.subs[k])
      BY <2>2, <2>3
    <2>5. g = body(g)
      BY <2>1, <2>4
    <2> HIDE DEF body
    <2>6. it = body(it)
      BY <2>5
    <2> HIDE DEF it
    <2>7. \A k \in 0 .. N : it[k] = IF k = 0 THEN w ELSE one(it[k - 1], f.subs[k])
      BY <2>6 DEF body
    <2> QED BY <1>1, <2>7
  <1> HIDE DEF it
  <1>4. PICK long : Sizes(long, f)
    BY FragmentSizes
  <1>7. /\ \A k \in 0 .. N : long[k] \in Nat
        /\ long[0] = 0 /\ \A k \in 0 .. N : k + 1 <= N => long[k + 1] = long[k] + Len(f.subs[k + 1])
    BY <1>4 DEF Sizes
  <1>8. Dom!Size(f) = long[N] + 1
    BY <1>4 DEF Sizes
  <1>9. \A k \in 1 .. N : Len(f.subs[k]) \in Nat
    BY DEF Growing, Markable
  <1>10. \A k \in 0 .. N : long[k] <= long[N]
    BY <1>4 DEF Sizes
  <1> HIDE DEF N
  <1> DEFINE T == {k \in Nat : k <= N => Filled(it[k], w, long[k])}
  <1>11. 0 \in T
    <2>1. Grown(w.node, w.node, w.next)
      BY DEF Grown
    <2>2. Filled(w, w, 0)
      BY <1>1, <2>1 DEF Filled
    <2> QED BY <1>6, <1>7, <2>2
  <1>12. ASSUME NEW k \in T PROVE k + 1 \in T
    <2>1. k \in Nat /\ (k <= N => Filled(it[k], w, long[k]))
      OBVIOUS
    <2> SUFFICES ASSUME k + 1 <= N PROVE Filled(it[k + 1], w, long[k + 1])
      BY <2>1
    <2> HIDE DEF T
    <2>2. k <= N /\ k + 1 \in 1 .. N /\ (k + 1) - 1 = k /\ k \in 0 .. N /\ k + 1 \in 0 .. N /\ N \in 0 .. N
      BY <1>1, <2>1
    <2> DEFINE m == long[k]
               sub == f.subs[k + 1]
               v == it[k]
               i == Dom!ImportSubtree(v, sub)
               u == IF v.ok /\ i.ok THEN Dom!Attach(i, p, Dom!Head(i.made)) ELSE i
    <2>3. Filled(v, w, m)
      BY <2>1, <2>2
    <2>4. it[k + 1] = one(v, sub)
      BY <1>6, <2>2
    <2>5. one(v, sub) = u
      BY <1>3
    <2>6. Markable(sub)
      BY <2>2 DEF Growing, N
    <2>7. long[k + 1] = m + Len(sub) /\ m \in Nat /\ long[k + 1] \in Nat /\ long[N] \in Nat /\ Len(sub) \in Nat
      BY <1>7, <1>9, <2>2
    <2>8. long[k + 1] <= long[N]
      BY <1>10, <2>2
    <2> HIDE DEF m, sub, v, u
    <2>9. (w.next + m) + Len(sub) <= LastId + 1
      BY <1>1, <1>8, <2>7, <2>8
    <2>10. Filled(u, w, m + Len(sub))
      BY <2>3, <2>6, <2>7, <2>9, GraftSound DEF u
    <2> QED BY <2>4, <2>5, <2>7, <2>10
  <1>13. Filled(it[N], w, long[N])
    <2>1. T \subseteq Nat
      OBVIOUS
    <2> HIDE DEF T
    <2>2. N \in T
      BY <1>1, <1>11, <1>12, <2>1, Counting
    <2> QED BY <1>1, <2>2 DEF T
  <1> DEFINE m == long[N]
             v == it[N]
  <1>14. m \in Nat /\ w.next + m <= LastId
    BY <1>1, <1>7, <1>8
  <1> HIDE DEF m
  <1>15. Filled(done, w, m + 1)
    <2> DEFINE a == Dom!Allocate(v, "text")
               u == Dom!Attach(a, p, v.next)
    <2>1. "text" \in Dom!Tags /\ Filled(v, w, m)
      BY <1>13 DEF Dom!Tags, m
    <2> HIDE DEF v
    <2>2. /\ Filled(a, w, m + 1) /\ Filled(u, w, m + 1)
          /\ a.ok => Dom!Last(a.made) = v.next
      BY <1>14, <2>1, LeafSound
    <2>3. Filled(v, w, m + 1)
      <3>1. v.next \in Nat /\ v.next <= w.next + m
        BY <2>1, StoreIds DEF Filled, IsWork
      <3>2. v.next <= w.next + (m + 1)
        BY <1>1, <1>14, <3>1
      <3> QED BY <2>1, <3>2 DEF Filled
    <2>4. done \in {v, a, u}
      BY <2>2 DEF done, v
    <2> HIDE DEF a, u, done
    <2> QED BY <2>2, <2>3, <2>4
  <1> QED BY <1>2, <1>8, <1>15 DEF m

-----------------------------------------------------------------------------
(* Copying.  A tree in preorder: every node after one it hangs from.       *)
Branch(q, s, m, d) ==
  /\ q \in Seq(DOMAIN s) /\ Len(q) >= 1 /\ q[1] = m
  /\ \A i \in 1 .. Len(q) :
       /\ d[m] <= d[q[i]]
       /\ i # 1 => \E j \in 1 .. i - 1 : q[j] = s[q[i]].parent

LEMMA BranchJoin ==
  ASSUME NEW s, Linked(s), NEW d, Ranked(s, d), NEW m \in DOMAIN s, NEW ss \in Seq(Seq(DOMAIN s)),
         \A k \in 1 .. Len(ss) : \E c \in Range(s[m].children) : Branch(ss[k], s, c, d)
  PROVE  Branch(<<m>> \o FlattenSeq(ss), s, m, d)
  <1> DEFINE f == FlattenSeq(ss)
             q == <<m>> \o f
  <1>1. f \in Seq(DOMAIN s) /\ \A i \in 1 .. Len(f) : LiesIn(i, f, ss)
    BY FlattenPlaces
  <1> HIDE DEF f
  <1>2. /\ q \in Seq(DOMAIN s) /\ Len(q) = Len(f) + 1 /\ Len(f) \in Nat /\ q[1] = m
        /\ \A i \in 1 .. Len(f) : q[i + 1] = f[i] /\ f[i] \in DOMAIN s
    BY <1>1
  <1> HIDE DEF q
  <1>3. d[m] \in Nat
    BY DEF Ranked
  <1>4. ASSUME NEW i \in 1 .. Len(q), i # 1
        PROVE  d[m] <= d[q[i]] /\ \E j \in 1 .. i - 1 : q[j] = s[q[i]].parent
    <2> DEFINE l == i - 1
    <2>1. l \in 1 .. Len(f) /\ i = l + 1 /\ q[i] = f[l] /\ f[l] \in DOMAIN s
      BY <1>2, <1>4
    <2> HIDE DEF l
    <2>2. PICK k \in 1 .. Len(ss), o \in Nat :
            /\ l \in o + 1 .. o + Len(ss[k])
            /\ o + Len(ss[k]) <= Len(f)
            /\ \A e \in 1 .. Len(ss[k]) : f[o + e] = ss[k][e]
      BY <1>1, <2>1 DEF LiesIn
    <2>3. PICK c \in Range(s[m].children) : Branch(ss[k], s, c, d)
      OBVIOUS
    <2>4. c \in DOMAIN s /\ s[c].parent = m
      BY DEF Linked
    <2>5. d[m] < d[c] /\ d[c] \in Nat /\ d[f[l]] \in Nat
      BY <2>1, <2>4 DEF Ranked
    <2> DEFINE e == l - o
    <2>6. Len(ss[k]) \in Nat
      BY <2>3 DEF Branch
    <2>7. e \in 1 .. Len(ss[k]) /\ l = o + e
      BY <2>1, <2>2, <2>6
    <2> HIDE DEF e
    <2>8. f[l] = ss[k][e]
      BY <2>2, <2>7
    <2>9. d[c] <= d[ss[k][e]] /\ (e # 1 => \E j \in 1 .. e - 1 : ss[k][j] = s[ss[k][e]].parent)
      BY <2>3, <2>7 DEF Branch
    <2>10. d[m] <= d[q[i]]
      BY <1>3, <2>1, <2>5, <2>8, <2>9
    <2>11. \E j \in 1 .. i - 1 : q[j] = s[q[i]].parent
      <3>1. CASE e = 1
        <4>1. f[l] = c
          BY <2>3, <2>8, <3>1 DEF Branch
        <4>2. 1 \in 1 .. i - 1
          BY <1>4
        <4> QED BY <1>2, <2>1, <2>4, <4>1, <4>2
      <3>2. CASE e # 1
        <4>1. PICK j \in 1 .. e - 1 : ss[k][j] = s[ss[k][e]].parent
          BY <2>9, <3>2
        <4>2. j \in 1 .. Len(ss[k]) /\ o + j \in 1 .. Len(f) /\ (o + j) + 1 \in 1 .. i - 1
          BY <1>2, <2>1, <2>2, <2>6, <2>7
        <4>3. q[(o + j) + 1] = f[o + j] /\ f[o + j] = ss[k][j]
          BY <1>2, <2>2, <4>2
        <4> QED BY <2>1, <2>8, <4>1, <4>2, <4>3
      <3> QED BY <3>1, <3>2
    <2> QED BY <2>10, <2>11
  <1>5. \A i \in 1 .. Len(q) : d[m] <= d[q[i]]
    BY <1>2, <1>3, <1>4
  <1>6. Len(q) >= 1
    BY <1>2
  <1>7. Branch(q, s, m, d)
    BY <1>2, <1>4, <1>5, <1>6 DEF Branch
  <1> QED BY <1>7 DEF f, q

LEMMA PreOrderIs ==
  ASSUME Sound(nodes, nextId), NEW d, Ranked(nodes, d), NEW n \in DOMAIN nodes
  PROVE  Branch(Dom!PreOrder(n), nodes, n, d)
  <1> DEFINE L == DOMAIN nodes
             S == [L -> Seq(L)]
             kids(v, m) == [i \in DOMAIN nodes[m].children |-> v[nodes[m].children[i]]]
             next(v) == [m \in L |-> <<m>> \o Dom!FlattenSeq(kids(v, m))]
             x == [m \in L |-> <<m>>]
             f == [k \in 1 .. LastId |-> [v \in S |-> next(v)]]
             body(g) == [k \in 0 .. LastId |->
                           [m \in L |-> IF k = 0 THEN <<m>>
                                        ELSE <<m>> \o Dom!FlattenSeq(kids(g[k - 1], m))]]
             it == CHOOSE g : g = body(g)
             N == Dom!Cardinality(L)
  <1>1. /\ Linked(nodes) /\ nodes \in [L -> NodeRecord] /\ LastId \in Nat
        /\ \A m \in L : /\ nodes[m].children \in Seq(Nat) /\ DOMAIN nodes[m].children = 1 .. Len(nodes[m].children)
                        /\ \A i \in 1 .. Len(nodes[m].children) :
                             /\ nodes[m].children[i] \in Range(nodes[m].children)
                             /\ nodes[m].children[i] \in L
    <2>1. Linked(nodes) /\ nodes \in [L -> NodeRecord] /\ LastId \in Nat
      BY Limits DEF Sound, IsStore
    <2> SUFFICES ASSUME NEW m \in L
                 PROVE  /\ nodes[m].children \in Seq(Nat) /\ DOMAIN nodes[m].children = 1 .. Len(nodes[m].children)
                        /\ \A i \in 1 .. Len(nodes[m].children) :
                             /\ nodes[m].children[i] \in Range(nodes[m].children)
                             /\ nodes[m].children[i] \in L
      BY <2>1
    <2>2. nodes[m].children \in Seq(Nat) /\ \A c \in Range(nodes[m].children) : c \in L
      BY <2>1 DEF Linked, NodeRecord
    <2>3. DOMAIN nodes[m].children = 1 .. Len(nodes[m].children)
      BY <2>2
    <2> QED BY <2>2, <2>3 DEF Range
  <1>2. Dom!PreOrder(n) = it[N][n]
    BY DEF Dom!PreOrder, Dom!Live
  <1>3. N \in 0 .. LastId
    <2>1. L \subseteq 1 .. LastId
      BY SoundIsTree
    <2>2. IsFiniteSet(1 .. LastId) /\ Cardinality(1 .. LastId) = LastId
      <3>1. 1 \in Int /\ LastId \in Int /\ LastId \in Nat
        BY Limits
      <3>2. IsFiniteSet(1 .. LastId)
        BY <3>1, FS_Interval
      <3>3. Cardinality(1 .. LastId) = IF 1 > LastId THEN 0 ELSE LastId - 1 + 1
        BY <3>1, FS_Interval
      <3>4. Cardinality(1 .. LastId) = LastId
        BY <3>1, <3>3
      <3> QED BY <3>2, <3>4
    <2>3. Cardinality(L) \in Nat /\ Cardinality(L) <= LastId
      <3>1. IsFiniteSet(L) /\ Cardinality(L) <= Cardinality(1 .. LastId)
        BY <2>1, <2>2, FS_Subset
      <3> QED BY <2>2, <3>1, FS_CardinalityType
    <2>4. N = Cardinality(L)
      BY DEF Dom!Cardinality, Cardinality
    <2> QED BY <1>1, <2>3, <2>4
  <1>4. \A ss : Dom!FlattenSeq(ss) = FlattenSeq(ss)
    BY DEF Dom!FlattenSeq, FlattenSeq
  <1> HIDE DEF N, it, body
  <1>5. ASSUME NEW v \in S, NEW m \in L PROVE kids(v, m) \in Seq(Seq(L))
    <2> DEFINE Q == Seq(L)
    <2>1. \A c \in L : v[c] \in Q
      OBVIOUS
    <2> HIDE DEF Q
    <2>2. kids(v, m) = [i \in 1 .. Len(nodes[m].children) |-> v[nodes[m].children[i]]]
      BY <1>1
    <2>3. \A i \in 1 .. Len(nodes[m].children) : v[nodes[m].children[i]] \in Q
      BY <1>1, <2>1
    <2>4. Len(nodes[m].children) \in Nat
      BY <1>1
    <2> HIDE DEF kids
    <2>5. kids(v, m) \in Seq(Q)
      BY <2>2, <2>3, <2>4
    <2> QED BY <2>5 DEF Q
  <1>6. \A v \in S : next(v) \in S
    <2> SUFFICES ASSUME NEW v \in S, NEW m \in L PROVE <<m>> \o Dom!FlattenSeq(kids(v, m)) \in Seq(L)
      OBVIOUS
    <2> DEFINE ss == kids(v, m)
    <2>1. ss \in Seq(Seq(L))
      BY <1>5
    <2> HIDE DEF ss
    <2>2. FlattenSeq(ss) \in Seq(L)
      BY <2>1, FlattenPlaces
    <2> QED BY <1>4, <2>2 DEF ss
  <1>7. x \in S
    OBVIOUS
  <1> HIDE DEF next, S, x
  <1>8. f \in [1 .. LastId -> [S -> S]]
    BY <1>6
  <1> HIDE DEF f
  <1>9. PICK g \in [0 .. LastId -> S] : Follows(g, f, x, LastId)
    BY <1>1, <1>7, <1>8, Recursion
  <1>10. g[0] = x /\ \A k \in 1 .. LastId : g[k] = next(g[k - 1])
    <2> SUFFICES ASSUME NEW k \in 1 .. LastId PROVE g[k] = next(g[k - 1])
      BY <1>9 DEF Follows
    <2>1. k - 1 \in 0 .. LastId
      BY <1>1
    <2>2. g[k] = f[k][g[k - 1]] /\ g[k - 1] \in S
      BY <1>9, <2>1 DEF Follows
    <2> QED BY <2>2 DEF f
  <1>11. g = body(g)
    <2>1. g = [k \in 0 .. LastId |-> g[k]]
      BY <1>9
    <2>2. ASSUME NEW k \in 0 .. LastId
          PROVE  g[k] = [m \in L |-> IF k = 0 THEN <<m>> ELSE <<m>> \o Dom!FlattenSeq(kids(g[k - 1], m))]
      <3>1. CASE k = 0
        BY <1>10, <3>1 DEF x
      <3>2. CASE k # 0
        <4>1. k \in 1 .. LastId
          BY <1>1, <3>2
        <4>2. g[k] = next(g[k - 1])
          BY <1>10, <4>1
        <4> HIDE DEF kids
        <4> QED BY <3>2, <4>2 DEF next
      <3> QED BY <3>1, <3>2
    <2> HIDE DEF kids
    <2> QED BY <2>1, <2>2 DEF body
  <1>12. it = body(it)
    BY <1>11 DEF it
  <1> DEFINE T == {k \in Nat : k <= LastId => /\ it[k] \in S
                                              /\ \A m \in L : Branch(it[k][m], nodes, m, d)}
  <1>13. /\ it[0] = x
         /\ \A k \in 1 .. LastId : it[k] = [m \in L |-> <<m>> \o Dom!FlattenSeq(kids(it[k - 1], m))]
    <2> HIDE DEF kids
    <2>1. \A k \in 0 .. LastId :
            it[k] = [m \in L |-> IF k = 0 THEN <<m>> ELSE <<m>> \o Dom!FlattenSeq(kids(it[k - 1], m))]
      BY <1>12 DEF body
    <2>2. 0 \in 0 .. LastId
      BY <1>1
    <2>3. it[0] = x
      BY <2>1, <2>2 DEF x
    <2>4. ASSUME NEW k \in 1 .. LastId
          PROVE  it[k] = [m \in L |-> <<m>> \o Dom!FlattenSeq(kids(it[k - 1], m))]
      <3>1. k \in 0 .. LastId /\ k # 0
        BY <1>1
      <3> QED BY <2>1, <3>1
    <2> QED BY <2>3, <2>4
  <1>14. 0 \in T
    <2>1. ASSUME NEW m \in L PROVE Branch(x[m], nodes, m, d)
      <3>1. x[m] = <<m>> /\ d[m] \in Nat
        BY DEF x, Ranked
      <3>2. \A i \in 1 .. 1 : i = 1
        OBVIOUS
      <3>3. Branch(<<m>>, nodes, m, d)
        BY <3>1, <3>2 DEF Branch
      <3> QED BY <3>1, <3>3
    <2> QED BY <1>7, <1>13, <2>1
  <1>15. ASSUME NEW k \in T PROVE k + 1 \in T
    <2>1. k \in Nat /\ (k <= LastId => it[k] \in S /\ \A m \in L : Branch(it[k][m], nodes, m, d))
      OBVIOUS
    <2> SUFFICES ASSUME k + 1 <= LastId
                 PROVE  it[k + 1] \in S /\ \A m \in L : Branch(it[k + 1][m], nodes, m, d)
      BY <2>1
    <2> HIDE DEF T
    <2>2. k <= LastId /\ k + 1 \in 1 .. LastId /\ (k + 1) - 1 = k
      <3>1. k \in Nat /\ LastId \in Nat
        BY <2>1, Limits
      <3> QED BY <3>1
    <2> DEFINE v == it[k]
    <2>3. v \in S /\ \A m \in L : Branch(v[m], nodes, m, d)
      BY <2>1, <2>2
    <2> HIDE DEF v
    <2>4. it[k + 1] = [m \in L |-> <<m>> \o Dom!FlattenSeq(kids(v, m))]
      <3> HIDE DEF kids
      <3> QED BY <1>13, <2>2 DEF v
    <2>5. it[k + 1] = next(v)
      <3> HIDE DEF kids
      <3> QED BY <2>4 DEF next
    <2>6. ASSUME NEW m \in L PROVE Branch(it[k + 1][m], nodes, m, d)
      <3> DEFINE ss == kids(v, m)
      <3>1. ss \in Seq(Seq(L))
        BY <1>5, <2>3 DEF S
      <3>2. ASSUME NEW e \in 1 .. Len(ss)
            PROVE  \E c \in Range(nodes[m].children) : Branch(ss[e], nodes, c, d)
        <4>1. Len(ss) = Len(nodes[m].children)
          BY <1>1
        <4>2. e \in 1 .. Len(nodes[m].children)
          BY <4>1
        <4>3. ss[e] = v[nodes[m].children[e]]
          BY <1>1, <4>2
        <4> HIDE DEF ss
        <4> QED BY <1>1, <2>3, <4>2, <4>3
      <3>3. it[k + 1][m] = <<m>> \o FlattenSeq(ss)
        <4> HIDE DEF kids
        <4> QED BY <1>4, <2>4
      <3> HIDE DEF ss
      <3>4. Branch(<<m>> \o FlattenSeq(ss), nodes, m, d)
        BY <1>1, <3>1, <3>2, BranchJoin
      <3> QED BY <3>3, <3>4
    <2> QED BY <1>6, <2>3, <2>5, <2>6
  <1>16. N \in T
    <2>1. T \subseteq Nat
      OBVIOUS
    <2>2. N \in Nat
      BY <1>3
    <2> HIDE DEF T
    <2> QED BY <1>14, <1>15, <2>1, <2>2, Counting
  <1>17. Branch(it[N][n], nodes, n, d)
    BY <1>3, <1>16
  <1> QED BY <1>2, <1>17

(* What a copy is made from: the nodes `made`, copied to cp[m], those in D *)
(* hung up at the copy of their parent.                                    *)
Copying(s, next, d, n, deep, M, cp, D, kids) ==
  /\ n \in DOMAIN s /\ M \subseteq DOMAIN s
  /\ \A m \in M : d[n] <= d[m] /\ (m # n => deep /\ s[m].parent \in M)
  /\ \A m \in M : cp[m] \in Nat /\ cp[m] >= next
  /\ \A a \in M, b \in M : cp[a] = cp[b] => a = b
  /\ \A m \in M : /\ kids[m] \in Seq(Nat) /\ IsInjective(kids[m])
                  /\ Range(kids[m]) = {cp[c] : c \in {c \in M \cap D : deep /\ c \in Range(s[m].children)}}

CopyOf(s, n, m, cp, D, kids) ==
  [parent |-> IF m = n \/ m \notin D THEN NoNode ELSE cp[s[m].parent],
   children |-> kids[m], tag |-> s[m].tag, named |-> s[m].named]

Copies(t, s, n, M, cp, D, kids) ==
  /\ t = [x \in DOMAIN t |-> t[x]] /\ DOMAIN t = DOMAIN s \cup {cp[m] : m \in M}
  /\ \A x \in DOMAIN s : t[x] = s[x]
  /\ \A m \in M : t[cp[m]] = CopyOf(s, n, m, cp, D, kids)

LEMMA CopySound ==
  ASSUME NEW s, NEW next, Sound(s, next), NEW d, Ranked(s, d), NEW n, NEW deep \in BOOLEAN,
         NEW M, NEW cp, NEW D, NEW kids, Copying(s, next, d, n, deep, M, cp, D, kids),
         NEW t, Copies(t, s, n, M, cp, D, kids),
         NEW end \in Nat, next <= end, end <= LastId + 1, \A m \in M : cp[m] < end
  PROVE  Sound(t, end)
  <1>1. /\ Linked(s) /\ NoNode \notin DOMAIN s /\ next \in Nat \ {0} /\ DOMAIN s \subseteq 1 .. next - 1
        /\ \A x \in DOMAIN s : s[x] \in NodeRecord
        /\ NoNode \in Nat /\ NoNode < next /\ NoNode = 0
    BY SoundIsTree DEF Sound, IsStore, NoNode, Dom!NoNode
  <1>2. /\ n \in DOMAIN s /\ M \subseteq DOMAIN s
        /\ \A m \in M : d[n] <= d[m] /\ (m # n => deep /\ s[m].parent \in M)
        /\ \A m \in M : cp[m] \in Nat /\ cp[m] >= next
        /\ \A a \in M, b \in M : cp[a] = cp[b] => a = b
    BY DEF Copying
  <1>3. \A m \in M : /\ kids[m] \in Seq(Nat) /\ IsInjective(kids[m])
                     /\ Range(kids[m]) = {cp[c] : c \in {c \in M \cap D : deep /\ c \in Range(s[m].children)}}
    BY DEF Copying
  <1>4. /\ t = [x \in DOMAIN t |-> t[x]] /\ DOMAIN t = DOMAIN s \cup {cp[m] : m \in M}
        /\ \A x \in DOMAIN s : t[x] = s[x]
    BY DEF Copies
  <1>5. \A m \in M : /\ t[cp[m]].parent = IF m = n \/ m \notin D THEN NoNode ELSE cp[s[m].parent]
                     /\ t[cp[m]].children = kids[m]
                     /\ t[cp[m]].tag = s[m].tag /\ t[cp[m]].named = s[m].named
    <2>1. \A m \in M : t[cp[m]] = CopyOf(s, n, m, cp, D, kids)
      BY DEF Copies
    <2>2. \A m : /\ CopyOf(s, n, m, cp, D, kids).parent = IF m = n \/ m \notin D THEN NoNode ELSE cp[s[m].parent]
                 /\ CopyOf(s, n, m, cp, D, kids).children = kids[m]
                 /\ CopyOf(s, n, m, cp, D, kids).tag = s[m].tag
                 /\ CopyOf(s, n, m, cp, D, kids).named = s[m].named
      BY DEF CopyOf
    <2> QED BY <2>1, <2>2
  <1>6. \A m \in M : cp[m] \notin DOMAIN s /\ cp[m] # NoNode
    BY <1>1, <1>2
  <1>7. \A x \in DOMAIN t : x \in DOMAIN s \/ \E m \in M : x = cp[m]
    BY <1>4
  <1>8. IsStore(t, end)
    <2>1. DOMAIN t \subseteq 1 .. end - 1
      BY <1>1, <1>2, <1>4
    <2>2. ASSUME NEW m \in M PROVE t[cp[m]] \in NodeRecord
      <3>1. t[cp[m]] = CopyOf(s, n, m, cp, D, kids)
        BY DEF Copies
      <3>2. s[m] \in NodeRecord /\ kids[m] \in Seq(Nat)
        BY <1>1, <1>2, <1>3
      <3>3. (IF m = n \/ m \notin D THEN NoNode ELSE cp[s[m].parent]) \in Nat
        BY <1>1, <1>2
      <3> QED BY <3>1, <3>2, <3>3 DEF CopyOf, NodeRecord
    <2>3. \A x \in DOMAIN t : t[x] \in NodeRecord
      BY <1>1, <1>4, <1>7, <2>2
    <2>4. t \in [DOMAIN t -> NodeRecord]
      BY <1>4, <2>3
    <2> QED BY <1>1, <2>1, <2>4 DEF IsStore
  <1>9. Linked(t)
    <2> SUFFICES ASSUME NEW x \in DOMAIN t
                 PROVE  /\ IsInjective(t[x].children)
                        /\ t[x].parent \in DOMAIN t \cup {NoNode}
                        /\ \A c \in Range(t[x].children) : c \in DOMAIN t /\ t[c].parent = x
                        /\ t[x].parent # NoNode => x \in Range(t[t[x].parent].children)
      BY DEF Linked
    <2>1. CASE x \in DOMAIN s
      <3>1. /\ IsInjective(s[x].children)
            /\ s[x].parent \in DOMAIN s \cup {NoNode}
            /\ \A c \in Range(s[x].children) : c \in DOMAIN s /\ s[c].parent = x
            /\ s[x].parent # NoNode => x \in Range(s[s[x].parent].children)
        BY <1>1, <2>1 DEF Linked
      <3> QED BY <1>4, <2>1, <3>1
    <2>2. ASSUME NEW m \in M, x = cp[m]
          PROVE  /\ IsInjective(t[x].children)
                 /\ t[x].parent \in DOMAIN t \cup {NoNode}
                 /\ \A c \in Range(t[x].children) : c \in DOMAIN t /\ t[c].parent = x
                 /\ t[x].parent # NoNode => x \in Range(t[t[x].parent].children)
      <3>1. IsInjective(t[x].children)
        BY <1>3, <1>5, <2>2
      <3>2. ASSUME NEW c \in Range(t[x].children) PROVE c \in DOMAIN t /\ t[c].parent = x
        <4>1. t[x].children = kids[m]
          BY <1>5, <2>2
        <4>2. PICK a \in M \cap D : c = cp[a] /\ a \in Range(s[m].children)
          BY <1>3, <3>2, <4>1
        <4>3. s[a].parent = m /\ m \in DOMAIN s /\ a \in DOMAIN s
          BY <1>1, <1>2, <4>2 DEF Linked
        <4>4. a # n
          <5>1. d[m] < d[a] /\ d[n] <= d[m] /\ d[a] \in Nat /\ d[m] \in Nat /\ d[n] \in Nat
            BY <1>2, <4>3 DEF Ranked
          <5> QED BY <5>1
        <4>5. t[cp[a]].parent = cp[m]
          BY <1>5, <4>3, <4>4
        <4> QED BY <1>4, <2>2, <4>2, <4>5
      <3>3. CASE m = n \/ m \notin D
        <4>1. t[x].parent = NoNode
          BY <1>5, <2>2, <3>3
        <4> QED BY <3>1, <3>2, <4>1
      <3>4. CASE ~(m = n \/ m \notin D)
        <4> DEFINE p == s[m].parent
        <4>1. t[x].parent = cp[p] /\ p \in M /\ deep
          BY <1>2, <1>5, <2>2, <3>4
        <4>2. m \in Range(s[p].children)
          <5>1. p # NoNode /\ m \in DOMAIN s
            BY <1>1, <1>2, <4>1
          <5> QED BY <1>1, <5>1 DEF Linked
        <4> HIDE DEF p
        <4>3. Range(t[cp[p]].children) = {cp[c] : c \in {c \in M \cap D : deep /\ c \in Range(s[p].children)}}
          BY <1>3, <1>5, <4>1
        <4>4. cp[m] \in Range(t[cp[p]].children)
          BY <3>4, <4>1, <4>2, <4>3
        <4>5. cp[p] \in DOMAIN t
          BY <1>4, <4>1
        <4> QED BY <2>2, <3>1, <3>2, <4>1, <4>4, <4>5
      <3> QED BY <3>3, <3>4
    <2> QED BY <1>7, <2>1, <2>2
  <1>10. \E e : Ranked(t, e)
    <2> DEFINE src(x) == CHOOSE m \in M : cp[m] = x
               e == [x \in DOMAIN t |-> IF x \in DOMAIN s THEN d[x] ELSE d[src(x)]]
    <2>1. \A m \in M : src(cp[m]) = m
      BY <1>2
    <2> HIDE DEF src
    <2>2. \A m \in M : cp[m] \in DOMAIN t /\ e[cp[m]] = d[m]
      BY <1>4, <1>6, <2>1
    <2>3. \A x \in DOMAIN s : x \in DOMAIN t /\ e[x] = d[x]
      BY <1>4
    <2>4. \A x \in DOMAIN s : d[x] \in Nat /\ (s[x].parent \in DOMAIN s => d[s[x].parent] < d[x])
      BY DEF Ranked
    <2> HIDE DEF e
    <2>5. ASSUME NEW x \in DOMAIN t PROVE e[x] \in Nat /\ (t[x].parent \in DOMAIN t => e[t[x].parent] < e[x])
      <3>1. CASE x \in DOMAIN s
        <4>1. t[x].parent = s[x].parent /\ s[x].parent \in DOMAIN s \cup {NoNode}
          BY <1>1, <1>4, <3>1 DEF Linked
        <4>2. NoNode \notin DOMAIN t
          BY <1>1, <1>4, <1>6
        <4> QED BY <2>3, <2>4, <3>1, <4>1, <4>2
      <3>2. ASSUME NEW m \in M, x = cp[m]
            PROVE  e[x] \in Nat /\ (t[x].parent \in DOMAIN t => e[t[x].parent] < e[x])
        <4>1. e[x] = d[m] /\ d[m] \in Nat /\ m \in DOMAIN s
          BY <1>2, <2>2, <2>4, <3>2
        <4>2. NoNode \notin DOMAIN t
          BY <1>1, <1>4, <1>6
        <4>3. ASSUME t[x].parent # NoNode PROVE e[t[x].parent] < d[m]
          <5>1. t[x].parent = cp[s[m].parent] /\ s[m].parent \in M
            BY <1>2, <1>5, <3>2, <4>3
          <5>2. e[t[x].parent] = d[s[m].parent]
            BY <2>2, <5>1
          <5>3. s[m].parent \in DOMAIN s
            BY <1>2, <5>1
          <5> QED BY <2>4, <4>1, <5>2, <5>3
        <4> QED BY <4>1, <4>2, <4>3
      <3> QED BY <1>7, <3>1, <3>2
    <2>6. e = [x \in DOMAIN t |-> e[x]]
      BY DEF e
    <2>7. Ranked(t, e)
      <3>1. e \in [DOMAIN t -> Nat]
        BY <2>5, <2>6
      <3> QED BY <2>5, <3>1 DEF Ranked
    <2> QED BY <2>7
  <1> QED BY <1>8, <1>9, <1>10 DEF Sound

(* What a call adds is new, and what was there it leaves alone.            *)
Extended(t, s, next) ==
  /\ DOMAIN s \subseteq DOMAIN t /\ \A x \in DOMAIN t \ DOMAIN s : x >= next
  /\ \A x \in DOMAIN s : t[x] = s[x]

LEMMA CloneSound ==
  ASSUME Sound(nodes, nextId), NEW n \in DOMAIN nodes, NEW deep \in BOOLEAN, Dom!CloneNode(n, deep)
  PROVE  Sound(nodes', nextId') /\ Extended(nodes', nodes, nextId) /\ nextId <= nextId'
  <1> DEFINE L == DOMAIN nodes
             order == IF deep THEN Dom!PreOrder(n) ELSE <<n>>
             room == MaxNodes - Dom!Cardinality(L)
             made == SubSeq(order, 1, IF Len(order) < room THEN Len(order) ELSE room)
             place(m) == CHOOSE i \in DOMAIN made : made[i] = m
             copy(m) == nextId - 1 + place(m)
             ok == Len(made) = Len(order)
             done(m) == ok \/ \A c \in Dom!Below(nodes, {m}) : c \in Dom!Range(made)
             stay(m) == Dom!Filtered(nodes[m].children, {c \in Dom!Range(made) : done(c)})
             copied == [i \in {copy(m) : m \in Dom!Range(made)} |->
                         LET m == made[i - nextId + 1]
                         IN  [parent |-> IF m = n \/ ~done(m) THEN Dom!NoNode ELSE copy(nodes[m].parent),
                              children |-> IF deep THEN [j \in DOMAIN stay(m) |-> copy(stay(m)[j])]
                                                   ELSE <<>>,
                              tag |-> nodes[m].tag,
                              named |-> nodes[m].named]]
  <1>1. /\ nextId + Len(order) <= LastId + 1
        /\ made # <<>>
        /\ nodes' = [i \in L \cup DOMAIN copied |-> IF i \in L THEN nodes[i] ELSE copied[i]]
        /\ nextId' = nextId + Len(made)
    BY DEF Dom!CloneNode, Dom!Room, Dom!Live
  <1>2. PICK d : Ranked(nodes, d)
    BY DEF Sound
  <1>3. /\ Linked(nodes) /\ nextId \in Nat \ {0} /\ LastId \in Nat
        /\ \A m \in L : m \in Nat /\ m < nextId /\ d[m] \in Nat
        /\ \A m \in L : nodes[m].children \in Seq(Nat) /\ IsInjective(nodes[m].children)
        /\ \A m \in L : nodes[m].parent \in L \cup {NoNode}
    <2>1. Linked(nodes) /\ \A m \in L : nodes[m] \in NodeRecord
      BY DEF Sound, IsStore
    <2>2. nextId \in Nat \ {0} /\ LastId \in Nat /\ \A m \in L : m \in Nat /\ m < nextId
      BY StoreIds, Limits
    <2>3. \A m \in L : d[m] \in Nat
      BY <1>2 DEF Ranked
    <2> QED BY <2>1, <2>2, <2>3 DEF Linked, NodeRecord
  <1>4. /\ order \in Seq(L) /\ Len(order) \in Nat /\ Len(order) >= 1 /\ order[1] = n
        /\ \A i \in 1 .. Len(order) :
             /\ d[n] <= d[order[i]]
             /\ i # 1 => deep /\ \E j \in 1 .. i - 1 : order[j] = nodes[order[i]].parent
    <2>1. CASE deep
      <3> DEFINE q == Dom!PreOrder(n)
      <3>1. Branch(q, nodes, n, d)
        BY <1>2, PreOrderIs
      <3>2. order = q
        BY <2>1
      <3> HIDE DEF q, order
      <3> QED BY <2>1, <3>1, <3>2 DEF Branch
    <2>2. CASE ~deep
      <3>1. order = <<n>>
        BY <2>2
      <3> HIDE DEF order
      <3>2. order \in Seq(L) /\ Len(order) = 1 /\ order[1] = n
        BY <3>1
      <3>3. \A i \in 1 .. 1 : i = 1
        OBVIOUS
      <3> QED BY <1>3, <3>2, <3>3
    <2> QED BY <2>1, <2>2
  <1> HIDE DEF order
  <1> DEFINE N == Len(made)
  <1>5. /\ made \in Seq(L) /\ N \in Nat /\ 1 <= N /\ N <= Len(order) /\ DOMAIN made = 1 .. N
        /\ \A i \in 1 .. N : made[i] = order[i]
    <2> DEFINE e == IF Len(order) < room THEN Len(order) ELSE room
    <2>1. e \in Int /\ e <= Len(order)
      <3>1. MaxNodes \in Nat /\ LastId \in Nat /\ L \subseteq 1 .. LastId
        BY Limits, SoundIsTree
      <3>2. Dom!Cardinality(L) = Cardinality(L)
        BY DEF Dom!Cardinality, Cardinality
      <3>3. IsFiniteSet(1 .. LastId)
        BY <3>1, FS_Interval
      <3>4. Cardinality(L) \in Nat
        BY <3>1, <3>3, FS_Subset, FS_CardinalityType
      <3>5. room \in Int
        BY <3>1, <3>2, <3>4
      <3> HIDE DEF room
      <3> QED BY <1>4, <3>5
    <2> HIDE DEF e
    <2>2. made = SubSeq(order, 1, e)
      BY DEF e
    <2> HIDE DEF made
    <2>3. CASE e < 1
      <3>1. made = <<>>
        <4>1. made \in Seq(L) /\ Len(made) = 0
          BY <1>4, <2>1, <2>2, <2>3
        <4> QED BY <4>1
      <3> QED BY <1>1, <3>1
    <2>4. CASE ~(e < 1)
      <3>1. 1 \in 1 .. Len(order) /\ e \in 1 .. Len(order)
        BY <1>4, <2>1, <2>4
      <3>2. made \in Seq(L) /\ Len(made) = e /\ \A i \in 1 .. e : made[i] = order[i]
        BY <1>4, <2>1, <2>2, <2>4, <3>1
      <3> QED BY <2>1, <2>4, <3>1, <3>2
    <2> QED BY <2>1, <2>3, <2>4
  <1> HIDE DEF made
  <1> DEFINE M == Dom!Range(made)
  <1>6. /\ M \subseteq L
        /\ \A m \in M : /\ place(m) \in 1 .. N /\ made[place(m)] = m
                        /\ copy(m) \in Nat /\ copy(m) >= nextId /\ copy(m) < nextId + N
                        /\ copy(m) - nextId + 1 = place(m)
    <2>1. M \subseteq L
      BY <1>5 DEF Dom!Range
    <2>2. ASSUME NEW m \in M PROVE place(m) \in 1 .. N /\ made[place(m)] = m
      <3>1. \E i \in DOMAIN made : made[i] = m
        BY <2>2 DEF Dom!Range
      <3>2. place(m) \in DOMAIN made /\ made[place(m)] = m
        BY <3>1
      <3> QED BY <1>5, <3>2
    <2> HIDE DEF place, M, N
    <2>3. N \in Nat
      BY <1>5
    <2>4. ASSUME NEW m \in M
          PROVE  /\ copy(m) \in Nat /\ copy(m) >= nextId /\ copy(m) < nextId + N
                 /\ copy(m) - nextId + 1 = place(m)
      BY <1>3, <2>2, <2>3
    <2> QED BY <2>1, <2>2, <2>4
  <1> HIDE DEF place
  <1>7. \A a \in M, b \in M : copy(a) = copy(b) => a = b
    <2> SUFFICES ASSUME NEW a \in M, NEW b \in M, copy(a) = copy(b) PROVE a = b
      OBVIOUS
    <2>1. place(a) = place(b)
      BY <1>6
    <2> QED BY <1>6, <2>1
  <1> HIDE DEF copy
  <1> DEFINE D == {m \in M : done(m)}
             kids == [m \in M |-> IF deep THEN [j \in DOMAIN stay(m) |-> copy(stay(m)[j])] ELSE <<>>]
             cp == [m \in M |-> copy(m)]
  <1>8. ASSUME NEW m \in M
        PROVE  /\ stay(m) \in Seq(Nat) /\ IsInjective(stay(m))
               /\ Range(stay(m)) = {c \in M \cap D : c \in Range(nodes[m].children)}
    <2> DEFINE ch == nodes[m].children
    <2>1. ch \in Seq(Nat) /\ IsInjective(ch)
      BY <1>3, <1>6
    <2>2. stay(m) = Filtered(ch, D)
      BY DEF Dom!Filtered, Filtered
    <2> HIDE DEF ch, stay, D
    <2>3. /\ Filtered(ch, D) \in Seq(Nat)
          /\ Range(Filtered(ch, D)) = Range(ch) \cap D
          /\ IsInjective(Filtered(ch, D))
      BY <2>1, FilteredRange
    <2>4. D \subseteq M
      BY DEF D
    <2> QED BY <2>2, <2>3, <2>4 DEF ch
  <1> HIDE DEF stay
  <1>9. Copying(nodes, nextId, d, n, deep, M, cp, D, kids)
    <2> HIDE DEF D
    <2>1. ASSUME NEW m \in M PROVE d[n] <= d[m] /\ (m # n => deep /\ nodes[m].parent \in M)
      <3> DEFINE i == place(m)
      <3>1. i \in 1 .. N /\ m = order[i] /\ i \in 1 .. Len(order)
        BY <1>4, <1>5, <1>6
      <3> HIDE DEF i
      <3>2. d[n] <= d[m]
        BY <1>4, <3>1
      <3>3. ASSUME m # n PROVE deep /\ nodes[m].parent \in M
        <4>1. i # 1
          BY <1>4, <3>1, <3>3
        <4>2. deep /\ \E j \in 1 .. i - 1 : order[j] = nodes[m].parent
          BY <1>4, <3>1, <4>1
        <4>3. PICK j \in 1 .. i - 1 : order[j] = nodes[m].parent
          BY <4>2
        <4>4. j \in 1 .. N
          BY <1>5, <3>1
        <4>5. made[j] = nodes[m].parent /\ j \in DOMAIN made
          BY <1>5, <4>3, <4>4
        <4> QED BY <4>2, <4>5 DEF Dom!Range
      <3> QED BY <3>2, <3>3
    <2> HIDE DEF M
    <2>2. ASSUME NEW m \in M
          PROVE  /\ kids[m] \in Seq(Nat) /\ IsInjective(kids[m])
                 /\ Range(kids[m]) = {cp[c] : c \in {c \in M \cap D : deep /\ c \in Range(nodes[m].children)}}
      <3>1. CASE deep
        <4> DEFINE k == stay(m)
                   K == {c \in M \cap D : c \in Range(nodes[m].children)}
        <4>1. k \in Seq(Nat) /\ IsInjective(k) /\ Range(k) = K /\ K \subseteq M
          BY <1>8
        <4>2. kids[m] = [j \in DOMAIN k |-> copy(k[j])]
          BY <3>1
        <4> HIDE DEF k, K, kids
        <4>3. \A j \in DOMAIN k : k[j] \in K
          BY <4>1 DEF Range
        <4>4. \A j \in DOMAIN k : k[j] \in M /\ copy(k[j]) \in Nat
          BY <1>6, <4>1, <4>3
        <4>5. kids[m] \in Seq(Nat)
          <5>1. DOMAIN k = 1 .. Len(k) /\ Len(k) \in Nat
            BY <4>1
          <5> QED BY <4>2, <4>4, <5>1
        <4>6. IsInjective(kids[m])
          <5> SUFFICES ASSUME NEW a \in DOMAIN kids[m], NEW b \in DOMAIN kids[m], kids[m][a] = kids[m][b]
                       PROVE  a = b
            BY DEF IsInjective
          <5>1. a \in DOMAIN k /\ b \in DOMAIN k /\ copy(k[a]) = copy(k[b])
            BY <4>2
          <5>2. k[a] = k[b]
            BY <1>7, <4>4, <5>1
          <5> QED BY <4>1, <5>1, <5>2 DEF IsInjective
        <4>7. Range(kids[m]) = {copy(c) : c \in K}
          <5>1. DOMAIN kids[m] = DOMAIN k /\ \A j \in DOMAIN k : kids[m][j] = copy(k[j])
            BY <4>2
          <5>2. ASSUME NEW c \in K PROVE copy(c) \in Range(kids[m])
            <6>1. PICK j \in DOMAIN k : k[j] = c
              BY <4>1 DEF Range
            <6> QED BY <5>1, <6>1 DEF Range
          <5>3. ASSUME NEW y \in Range(kids[m]) PROVE y \in {copy(c) : c \in K}
            <6>1. PICK j \in DOMAIN kids[m] : kids[m][j] = y
              BY <5>3 DEF Range
            <6> QED BY <4>3, <5>1, <6>1
          <5> QED BY <5>2, <5>3
        <4>8. {cp[c] : c \in {c \in M \cap D : deep /\ c \in Range(nodes[m].children)}} = {copy(c) : c \in K}
          <5>1. {c \in M \cap D : deep /\ c \in Range(nodes[m].children)} = K
            BY <3>1 DEF K
          <5>2. \A c \in K : cp[c] = copy(c)
            BY <4>1
          <5> HIDE DEF cp
          <5> QED BY <5>1, <5>2
        <4> QED BY <4>5, <4>6, <4>7, <4>8
      <3>2. CASE ~deep
        <4>1. kids[m] = <<>>
          BY <3>2
        <4> HIDE DEF kids
        <4>2. kids[m] \in Seq(Nat)
          BY <4>1
        <4>3. DOMAIN kids[m] = {}
          BY <4>1
        <4>4. IsInjective(kids[m]) /\ Range(kids[m]) = {}
          BY <4>3 DEF IsInjective, Range
        <4>5. {cp[c] : c \in {c \in M \cap D : deep /\ c \in Range(nodes[m].children)}} = {}
          BY <3>2
        <4> QED BY <4>2, <4>4, <4>5
      <3> QED BY <3>1, <3>2
    <2>3. /\ \A m \in M : cp[m] \in Nat /\ cp[m] >= nextId
          /\ \A a \in M, b \in M : cp[a] = cp[b] => a = b
      BY <1>6, <1>7
    <2>4. n \in L /\ M \subseteq L
      BY <1>6
    <2> HIDE DEF kids, cp
    <2> QED BY <2>1, <2>2, <2>3, <2>4 DEF Copying
  <1>10. Copies(nodes', nodes, n, M, cp, D, kids)
    <2>1. DOMAIN copied = {copy(m) : m \in M}
      OBVIOUS
    <2>2. ASSUME NEW m \in M PROVE copied[copy(m)] = CopyOf(nodes, n, m, cp, D, kids)
      <3>1. copied[copy(m)] =
              [parent |-> IF m = n \/ ~done(m) THEN Dom!NoNode ELSE copy(nodes[m].parent),
               children |-> IF deep THEN [j \in DOMAIN stay(m) |-> copy(stay(m)[j])] ELSE <<>>,
               tag |-> nodes[m].tag, named |-> nodes[m].named]
        <4>1. made[copy(m) - nextId + 1] = m
          BY <1>6
        <4> HIDE DEF done, M
        <4> QED BY <4>1 DEF M
      <3>2. kids[m] = IF deep THEN [j \in DOMAIN stay(m) |-> copy(stay(m)[j])] ELSE <<>>
        OBVIOUS
      <3>3. m \in D <=> done(m)
        OBVIOUS
      <3>4. ~(m = n \/ m \notin D) => cp[nodes[m].parent] = copy(nodes[m].parent)
        <4>1. m # n => nodes[m].parent \in M
          BY <1>9 DEF Copying
        <4> QED BY <4>1
      <3> HIDE DEF kids, D, done, cp, copied, M
      <3> QED BY <3>1, <3>2, <3>3, <3>4 DEF CopyOf, NoNode
    <2>3. \A m \in M : copy(m) \notin L /\ cp[m] = copy(m)
      BY <1>3, <1>6
    <2> HIDE DEF copied, M, cp, kids, D
    <2>4. DOMAIN nodes' = L \cup {copy(m) : m \in M}
      BY <1>1, <2>1
    <2>5. nodes' = [x \in DOMAIN nodes' |-> nodes'[x]]
      BY <1>1
    <2>6. \A x \in L : nodes'[x] = nodes[x]
      BY <1>1
    <2>7. \A m \in M : nodes'[cp[m]] = CopyOf(nodes, n, m, cp, D, kids)
      BY <1>1, <2>1, <2>2, <2>3
    <2>8. {copy(m) : m \in M} = {cp[m] : m \in M}
      BY <2>3
    <2> QED BY <2>4, <2>5, <2>6, <2>7, <2>8 DEF Copies
  <1> DEFINE end == nextId + N
  <1>11. /\ end \in Nat /\ nextId <= end /\ end <= LastId + 1
         /\ \A m \in M : cp[m] < end /\ cp[m] >= nextId
    BY <1>1, <1>3, <1>4, <1>5, <1>6
  <1> HIDE DEF cp, D, kids, M, end
  <1> DEFINE t == nodes'
  <1>12. Copies(t, nodes, n, M, cp, D, kids)
    BY <1>10
  <1> HIDE DEF t
  <1>13. Sound(t, end)
    BY <1>2, <1>9, <1>11, <1>12, CopySound
  <1>14. Extended(t, nodes, nextId)
    BY <1>11, <1>12 DEF Copies, Extended
  <1> QED BY <1>1, <1>11, <1>13, <1>14 DEF t, end

-----------------------------------------------------------------------------
(* Every call keeps the store a forest.                                    *)
LEMMA AppendSound ==
  ASSUME Sound(nodes, nextId), NEW p \in DOMAIN nodes, NEW c \in DOMAIN nodes, Dom!AppendChild(p, c)
  PROVE  Sound(nodes', nextId')
  <1> DEFINE s == Dom!Unlink(nodes, c)
             B == Dom!Below(nodes, {c})
  <1>1. /\ nodes' = Dom!Link(s, p, c) /\ nextId' = nextId
        /\ Dom!DepthOk(nodes, p) /\ ~Dom!IsAncestor(nodes, c, p)
    BY DEF Dom!AppendChild
  <1>2. Linked(nodes) /\ NoNode \notin DOMAIN nodes
    BY SoundIsTree DEF Sound
  <1>3. /\ Sound(s, nextId) /\ DOMAIN s = DOMAIN nodes /\ s[c].parent = NoNode
        /\ \A x \in DOMAIN nodes : x # c => s[x].parent = nodes[x].parent
    <2> DEFINE q == nodes[c].parent
    <2>1. Dom!Parent(nodes, c) = q /\ q \in DOMAIN nodes \cup {NoNode}
      BY <1>2 DEF Dom!Parent, Linked
    <2>2. CASE q \notin DOMAIN nodes
      <3>1. s = nodes /\ q = NoNode
        BY <2>1, <2>2 DEF Dom!Unlink
      <3> HIDE DEF s
      <3> QED BY <3>1
    <2>3. CASE q \in DOMAIN nodes
      <3> DEFINE t == [nodes EXCEPT ![q].children = Dom!Without(@, c), ![c].parent = Dom!NoNode]
      <3>1. s = t
        BY <2>1, <2>3 DEF Dom!Unlink
      <3>2. /\ Sound(t, nextId)
            /\ Relinked(t, nodes, q, Dom!Without(nodes[q].children, c), c, NoNode)
        BY <2>3, CutSound
      <3> HIDE DEF t, s
      <3> QED BY <3>1, <3>2 DEF Relinked
    <2> QED BY <2>2, <2>3
  <1> HIDE DEF s
  <1>4. /\ c \in B /\ \A x \in DOMAIN nodes : nodes[x].parent \in B => x \in B
    BY BelowClosed
  <1>5. p \notin B
    <2> SUFFICES ASSUME p \in B PROVE FALSE
      OBVIOUS
    <2>1. PICK j \in 0 .. LastId : Dom!Climb(nodes, p)[j] = c
      BY BelowIsClimb
    <2>2. /\ MaxDepth \in Nat \ {0} /\ MaxPath \in Nat /\ MaxDepth <= MaxPath
          /\ LastId \in Nat /\ Far \in Nat /\ LastId <= Far
      BY Limits DEF Far
    <2>3. Dom!Climb(nodes, p)[MaxDepth - 1] = NoNode
      BY <1>1 DEF Dom!DepthOk, NoNode
    <2>4. CASE j <= MaxPath - 1
      <3>1. j \in 0 .. MaxPath - 1
        BY <2>2, <2>4
      <3> QED BY <1>1, <2>1, <3>1 DEF Dom!IsAncestor
    <2>5. CASE ~(j <= MaxPath - 1)
      <3>1. MaxDepth - 1 \in Nat /\ j \in Nat /\ MaxDepth - 1 <= j /\ j <= Far
        BY <2>2, <2>5
      <3>2. Dom!Climb(nodes, p)[j] = NoNode
        BY <1>2, <2>3, <3>1, ClimbEnds
      <3> QED BY <1>2, <2>1, <3>2
    <2> QED BY <2>4, <2>5
  <1> HIDE DEF B
  <1>6. \A x \in DOMAIN s \ B : s[x].parent \notin B
    BY <1>3, <1>4
  <1> DEFINE t == nodes'
  <1>7. t = Dom!Link(s, p, c)
    BY <1>1
  <1> HIDE DEF t
  <1>8. Sound(t, nextId)
    BY <1>3, <1>4, <1>5, <1>6, <1>7, LinkSound
  <1> QED BY <1>1, <1>8 DEF t

LEMMA RemoveSound ==
  ASSUME Sound(nodes, nextId), NEW p \in DOMAIN nodes, NEW c \in DOMAIN nodes, Dom!RemoveChild(p, c)
  PROVE  Sound(nodes', nextId')
  <1>1. /\ nodes' = [nodes EXCEPT ![p].children = Dom!Without(@, c), ![c].parent = Dom!NoNode]
        /\ nextId' = nextId /\ c \in Range(nodes[p].children)
    BY DEF Dom!RemoveChild, Dom!Range, Range
  <1>2. nodes[c].parent = p
    BY <1>1 DEF Sound, Linked
  <1> DEFINE t == nodes'
  <1>3. t = [nodes EXCEPT ![p].children = Dom!Without(@, c), ![c].parent = Dom!NoNode]
    BY <1>1
  <1> HIDE DEF t
  <1>4. Sound(t, nextId)
    BY <1>2, <1>3, CutSound
  <1> QED BY <1>1, <1>4 DEF t

LEMMA WorkIs ==
  ASSUME Sound(nodes, nextId)
  PROVE  /\ IsWork(Dom!Work) /\ Dom!Work.node = nodes /\ Dom!Work.next = nextId
         /\ Dom!Work.ok /\ Filled(Dom!Work, Dom!Work, 0)
  <1> DEFINE e == <<>>
             w == Dom!Work
  <1>1. e \in Seq(Nat)
    OBVIOUS
  <1> HIDE DEF e
  <1>2. w = [node |-> nodes, next |-> nextId, ok |-> TRUE, made |-> e, marked |-> FALSE]
    BY DEF Dom!Work, e
  <1> HIDE DEF w
  <1>3. w.node = nodes /\ w.next = nextId /\ w.ok = TRUE /\ w.made = e
    BY <1>2
  <1>4. DOMAIN w = {"node", "next", "ok", "made", "marked"}
    BY <1>2
  <1>5. IsWork(w)
    BY <1>1, <1>3, <1>4 DEF IsWork
  <1>6. nextId \in Nat
    BY StoreIds
  <1>7. Filled(w, w, 0)
    BY <1>3, <1>5, <1>6 DEF Filled, Grown
  <1> QED BY <1>3, <1>5, <1>7 DEF w

LEMMA EmptiedIs ==
  ASSUME Sound(nodes, nextId), NEW n \in DOMAIN nodes
  PROVE  /\ IsWork(Dom!Emptied(n)) /\ Dom!Emptied(n).next = nextId
         /\ Emptying(Dom!Emptied(n).node, nodes, n) /\ Filled(Dom!Emptied(n), Dom!Emptied(n), 0)
  <1> DEFINE w == Dom!Work
             t == [Dom!Free(nodes, Range(nodes[n].children)) EXCEPT ![n].children = <<>>]
             e == Dom!Emptied(n)
  <1>1. Sound(t, nextId) /\ Emptying(t, nodes, n)
    BY EmptySound
  <1>2. e = [w EXCEPT !.node = t]
    BY DEF Dom!Emptied, Dom!Range, Range
  <1>3. IsWork(w) /\ w.next = nextId
    BY WorkIs
  <1> HIDE DEF w, t, e
  <1>4. /\ e.node = t /\ e.next = w.next /\ e.ok = w.ok /\ e.made = w.made /\ DOMAIN e = DOMAIN w
    BY <1>2, <1>3 DEF IsWork
  <1>5. IsWork(e)
    BY <1>1, <1>3, <1>4 DEF IsWork
  <1>6. nextId \in Nat
    BY StoreIds
  <1>7. Filled(e, e, 0)
    BY <1>3, <1>4, <1>5, <1>6 DEF Filled, Grown
  <1> QED BY <1>1, <1>3, <1>4, <1>5, <1>7 DEF e

(* How a call leaves the store and what it says of it: everything is to be *)
(* redone, or nothing was said, and then the calls that are not owned up   *)
(* to as torn added new nodes only.                                        *)
Redone == dirty' = Dom!Stages
Unsaid ==
  /\ dirty' = dirty /\ shadows' = shadows
  /\ ~torn' => ~torn /\ Extended(nodes', nodes, nextId)
Told == Redone \/ Unsaid

LEMMA SettleSound ==
  ASSUME NEW w, IsWork(w), \A x \in DOMAIN w.node \ DOMAIN nodes : x >= nextId,
         nextId <= w.next, Dom!Settle(w)
  PROVE  /\ Sound(nodes', nextId') /\ (shadows' = shadows => Told)
         /\ nextId <= nextId'
         /\ w.ok => Redone
  <1>1. nodes' = w.node /\ nextId' = w.next
    BY DEF Dom!Settle
  <1>2. Sound(nodes', nextId')
    BY <1>1 DEF IsWork
  <1>3. CASE w.ok \/ w.marked
    <2>1. Redone
      BY <1>3 DEF Dom!Settle, Dom!Marked, Redone
    <2> QED BY <1>1, <1>2, <2>1 DEF Told
  <1>4. CASE ~(w.ok \/ w.marked)
    <2>1. /\ dirty' = dirty
          /\ torn' = (torn \/ \E n \in DOMAIN nodes : n \notin DOMAIN w.node \/ w.node[n] # nodes[n])
      BY <1>4 DEF Dom!Settle, Dom!Live
    <2>2. ASSUME ~torn' PROVE ~torn /\ Extended(nodes', nodes, nextId)
      <3>1. ~torn /\ \A n \in DOMAIN nodes : n \in DOMAIN w.node /\ w.node[n] = nodes[n]
        BY <2>1, <2>2
      <3> DEFINE t == nodes'
      <3>2. t = w.node
        BY <1>1
      <3> HIDE DEF t
      <3>3. Extended(t, nodes, nextId)
        BY <3>1, <3>2 DEF Extended
      <3> QED BY <3>1, <3>3 DEF t
    <2>3. shadows' = shadows => Unsaid
      BY <2>1, <2>2 DEF Unsaid
    <2> QED BY <1>1, <1>2, <1>4, <2>3 DEF Told
  <1> QED BY <1>3, <1>4

LEMMA CreateSound ==
  ASSUME Sound(nodes, nextId), NEW tag \in Dom!Tags, Dom!Create(tag)
  PROVE  Sound(nodes', nextId') /\ Unsaid /\ nextId <= nextId'
  <1> DEFINE w == Dom!Allocate(Dom!Work, tag)
  <1>1. /\ w.ok /\ nodes' = w.node /\ nextId' = w.next /\ nextId + 1 <= LastId + 1
        /\ dirty' = dirty /\ shadows' = shadows /\ torn' = torn
    BY DEF Dom!Create, Dom!Room
  <1>2. IsWork(Dom!Work) /\ Dom!Work.node = nodes /\ Dom!Work.next = nextId
    BY WorkIs
  <1>3. nextId \in Nat /\ LastId \in Nat
    BY StoreIds, Limits
  <1>4. IsWork(w) /\ Allocated(w, Dom!Work, tag)
    <2>1. Dom!Work.next <= LastId
      BY <1>1, <1>2, <1>3
    <2> QED BY <1>2, <2>1, AllocateSound
  <1> HIDE DEF w
  <1>5. /\ DOMAIN w.node = DOMAIN nodes \cup {nextId} /\ \A x \in DOMAIN nodes : w.node[x] = nodes[x]
    BY <1>1, <1>2, <1>4 DEF Allocated
  <1> DEFINE t == nodes'
  <1>6. t = w.node
    BY <1>1
  <1> HIDE DEF t
  <1>7. Extended(t, nodes, nextId)
    BY <1>3, <1>5, <1>6 DEF Extended
  <1>8. Sound(nodes', nextId')
    BY <1>1, <1>4 DEF IsWork
  <1>9. nextId <= nextId'
    BY <1>1, <1>2, <1>3, <1>4 DEF Allocated
  <1> QED BY <1>1, <1>7, <1>8, <1>9 DEF Unsaid, t

LEMMA ImportTemplateSound ==
  ASSUME Sound(nodes, nextId), NEW f \in Markup, Dom!ImportTemplate(f)
  PROVE  Sound(nodes', nextId') /\ Told /\ nextId <= nextId'
  <1> DEFINE sub == Head(f.subs)
             w == Dom!ImportSubtree(Dom!Work, sub)
  <1>1. /\ f.subs # <<>> /\ nextId + Dom!Size(f) <= LastId + 1
        /\ Dom!Settle(w) /\ shadows' = shadows
    BY DEF Dom!ImportTemplate, Dom!Room
  <1>2. Growing(f)
    BY MarkupGrows
  <1>3. PICK long : Sizes(long, f)
    BY <1>2, FragmentSizes
  <1>4. IsWork(Dom!Work) /\ Dom!Work.node = nodes /\ Dom!Work.next = nextId
    BY WorkIs
  <1>5. nextId \in Nat /\ LastId \in Nat
    BY StoreIds, Limits
  <1>6. Markable(sub) /\ Len(sub) <= Dom!Size(f)
    <2> DEFINE N == Len(f.subs)
    <2>1. N \in Nat /\ N # 0 /\ sub = f.subs[1] /\ 1 \in 1 .. N
      BY <1>1, <1>2 DEF Growing
    <2>2. Markable(sub) /\ Len(sub) \in Nat
      BY <1>2, <2>1 DEF Growing, Markable
    <2> HIDE DEF sub, N
    <2>3. 0 \in 0 .. N /\ 1 \in 0 .. N /\ 0 + 1 <= N /\ 0 + 1 = 1
      BY <2>1
    <2>4. /\ \A k \in 0 .. N : long[k] \in Nat /\ long[k] <= long[N]
          /\ long[0] = 0
          /\ \A k \in 0 .. N : k + 1 <= N => long[k + 1] = long[k] + Len(f.subs[k + 1])
          /\ Dom!Size(f) = long[N] + 1
      BY <1>3 DEF Sizes, N
    <2>5. long[1] = long[0] + Len(f.subs[1])
      BY <2>3, <2>4
    <2>6. long[1] \in Nat /\ long[1] <= long[N] /\ long[N] \in Nat
      BY <2>1, <2>3, <2>4
    <2> QED BY <2>1, <2>2, <2>4, <2>5, <2>6
  <1>7. Imported(w, Dom!Work, Len(sub))
    <2>1. Len(sub) \in Nat /\ Dom!Size(f) \in Nat
      <3>1. \A k \in 0 .. Len(f.subs) : long[k] \in Nat
        BY <1>3 DEF Sizes
      <3>2. Len(f.subs) \in Nat /\ Dom!Size(f) = long[Len(f.subs)] + 1
        BY <1>2, <1>3 DEF Growing, Sizes
      <3> QED BY <1>6, <3>1, <3>2 DEF Markable
    <2>2. Dom!Work.next + Len(sub) <= LastId + 1
      BY <1>1, <1>4, <1>5, <1>6, <2>1
    <2> QED BY <1>4, <1>6, <2>2, SubtreeSound
  <1> HIDE DEF w
  <1>8. IsWork(w) /\ nextId <= w.next /\ \A x \in DOMAIN w.node \ DOMAIN nodes : x >= nextId
    BY <1>4, <1>7 DEF Imported, Grown
  <1> QED BY <1>1, <1>8, SettleSound

LEMMA SetTextSound ==
  ASSUME Sound(nodes, nextId), NEW n \in DOMAIN nodes, NEW text \in BOOLEAN, Dom!SetTextContent(n, text)
  PROVE  Sound(nodes', nextId') /\ Told /\ nextId <= nextId'
  <1> DEFINE w == Dom!Emptied(n)
             t == Dom!Allocate(w, "text")
             u == Dom!Attach(t, n, w.next)
             r == IF ~text THEN w ELSE IF t.ok THEN Dom!Attach(t, n, Dom!Last(t.made)) ELSE t
  <1>1. nextId + 1 <= LastId + 1 /\ Dom!Settle(r) /\ shadows' = shadows
    BY DEF Dom!SetTextContent, Dom!Room
  <1>2. IsWork(w) /\ w.next = nextId /\ Emptying(w.node, nodes, n) /\ Filled(w, w, 0)
    BY EmptiedIs
  <1>3. nextId \in Nat /\ LastId \in Nat /\ "text" \in Dom!Tags
    BY StoreIds, Limits DEF Dom!Tags
  <1>4. n \in DOMAIN w.node /\ DOMAIN w.node \subseteq DOMAIN nodes /\ w.next + 0 <= LastId
    BY <1>1, <1>2, <1>3 DEF Emptying
  <1> HIDE DEF w
  <1>5. Filled(t, w, 0 + 1) /\ Filled(u, w, 0 + 1) /\ (t.ok => Dom!Last(t.made) = w.next)
    BY <1>2, <1>3, <1>4, LeafSound
  <1>6. r \in {w, t, u}
    BY <1>5
  <1> HIDE DEF r, t, u
  <1>7. Filled(r, w, 0) \/ Filled(r, w, 0 + 1)
    BY <1>2, <1>5, <1>6
  <1>8. IsWork(r) /\ nextId <= r.next /\ \A x \in DOMAIN r.node \ DOMAIN nodes : x >= nextId
    <2>1. IsWork(r) /\ Grown(r.node, w.node, w.next) /\ w.next <= r.next
      BY <1>7 DEF Filled
    <2> QED BY <1>2, <1>4, <2>1 DEF Grown
  <1> QED BY <1>1, <1>8, SettleSound

LEMMA SetInnerHtmlSound ==
  ASSUME Sound(nodes, nextId), NEW n \in DOMAIN nodes, NEW f \in Markup, Dom!SetInnerHtml(n, f)
  PROVE  Sound(nodes', nextId') /\ Told /\ nextId <= nextId'
  <1> DEFINE w == Dom!Emptied(n)
             r == Dom!AppendParsedFragment(w, f, n)
  <1>1. nextId + Dom!Size(f) <= LastId + 1 /\ Dom!Settle(r) /\ shadows' = shadows
    BY DEF Dom!SetInnerHtml, Dom!Room
  <1>2. IsWork(w) /\ w.next = nextId /\ Emptying(w.node, nodes, n)
    BY EmptiedIs
  <1>3. n \in DOMAIN w.node /\ DOMAIN w.node \subseteq DOMAIN nodes
    BY <1>2 DEF Emptying
  <1>4. Growing(f) /\ f.text \in BOOLEAN
    BY MarkupGrows
  <1> HIDE DEF w
  <1>5. Filled(r, w, Dom!Size(f))
    BY <1>1, <1>2, <1>3, <1>4, FragmentSound
  <1> HIDE DEF r
  <1>6. IsWork(r) /\ nextId <= r.next /\ \A x \in DOMAIN r.node \ DOMAIN nodes : x >= nextId
    BY <1>2, <1>3, <1>5 DEF Filled, Grown
  <1> QED BY <1>1, <1>6, SettleSound

LEMMA AttachShadowSound ==
  ASSUME Sound(nodes, nextId), NEW h \in DOMAIN nodes, Dom!AttachShadow(h)
  PROVE  /\ Sound(nodes', nextId') /\ Told
         /\ shadows' = shadows \/ shadows' = [x \in DOMAIN shadows \cup {h} |->
                                                IF x = h THEN nextId ELSE shadows[x]]
         /\ nextId <= nextId' /\ (shadows' # shadows => nextId < nextId')
  <1> DEFINE w == Dom!Work
             t == Dom!Allocate(w, "shadow-root")
             u == Dom!Attach(t, h, nextId)
  <1>1. /\ nextId + 1 <= LastId + 1 /\ Dom!Settle(u) /\ t.ok
        /\ shadows' = IF u.ok THEN [x \in DOMAIN shadows \cup {h} |-> IF x = h THEN nextId ELSE shadows[x]]
                      ELSE shadows
    BY DEF Dom!AttachShadow, Dom!Room, Dom!Shadowed
  <1>2. IsWork(w) /\ w.node = nodes /\ w.next = nextId /\ Filled(w, w, 0)
    BY WorkIs
  <1>3. nextId \in Nat /\ LastId \in Nat /\ "shadow-root" \in Dom!Tags /\ w.next + 0 <= LastId
    BY <1>1, <1>2, StoreIds, Limits DEF Dom!Tags
  <1> HIDE DEF w
  <1>4. /\ Filled(u, w, 0 + 1) /\ Allocated(t, w, "shadow-root") /\ Attached(u, t, h, w.next)
    BY <1>2, <1>3, LeafSound
  <1> HIDE DEF t, u
  <1>5. IsWork(u) /\ nextId <= u.next /\ \A x \in DOMAIN u.node \ DOMAIN nodes : x >= nextId
    BY <1>2, <1>4 DEF Filled, Grown
  <1>6. u.next = nextId + 1
    BY <1>1, <1>2, <1>4 DEF Allocated, Attached
  <1>7. nextId' = u.next
    BY <1>1 DEF Dom!Settle
  <1>8. Sound(nodes', nextId') /\ (shadows' = shadows => Told) /\ (u.ok => Redone)
    BY <1>1, <1>5, SettleSound
  <1>9. Told
    BY <1>1, <1>8 DEF Told
  <1> QED BY <1>1, <1>3, <1>6, <1>7, <1>8, <1>9

LEMMA SetSlotSound ==
  ASSUME Sound(nodes, nextId), NEW n \in DOMAIN nodes, Dom!SetSlot(n)
  PROVE  Sound(nodes', nextId')
  <1> DEFINE t == nodes'
  <1>1. t = [nodes EXCEPT ![n].named = ~@] /\ nextId' = nextId
    BY DEF Dom!SetSlot
  <1>2. /\ Linked(nodes) /\ nodes \in [DOMAIN nodes -> NodeRecord] /\ IsStore(nodes, nextId)
        /\ \A x \in DOMAIN nodes : nodes[x] \in NodeRecord
    BY DEF Sound, IsStore
  <1> HIDE DEF t
  <1>3. DOMAIN t = DOMAIN nodes /\ t = [x \in DOMAIN t |-> t[x]]
    BY <1>1, <1>2
  <1>4. ASSUME NEW x \in DOMAIN nodes
        PROVE  t[x] \in NodeRecord /\ t[x].parent = nodes[x].parent /\ t[x].children = nodes[x].children
    <2>1. CASE x = n
      <3>1. t[x] = [nodes[x] EXCEPT !.named = ~nodes[x].named]
        BY <1>1, <1>2, <2>1
      <3>2. nodes[x] \in NodeRecord
        BY <1>2
      <3> QED BY <3>1, <3>2 DEF NodeRecord
    <2>2. CASE x # n
      <3>1. t[x] = nodes[x]
        BY <1>1, <1>2, <2>2
      <3> QED BY <1>2, <3>1
    <2> QED BY <2>1, <2>2
  <1>5. IsStore(t, nextId)
    BY <1>2, <1>3, <1>4 DEF IsStore
  <1>6. Linked(t)
    <2> SUFFICES ASSUME NEW x \in DOMAIN nodes
                 PROVE  /\ IsInjective(t[x].children)
                        /\ t[x].parent \in DOMAIN nodes \cup {NoNode}
                        /\ \A c \in Range(t[x].children) : c \in DOMAIN nodes /\ t[c].parent = x
                        /\ t[x].parent # NoNode => x \in Range(t[t[x].parent].children)
      BY <1>3 DEF Linked
    <2>1. /\ IsInjective(nodes[x].children)
          /\ nodes[x].parent \in DOMAIN nodes \cup {NoNode}
          /\ \A c \in Range(nodes[x].children) : c \in DOMAIN nodes /\ nodes[c].parent = x
          /\ nodes[x].parent # NoNode => x \in Range(nodes[nodes[x].parent].children)
      BY <1>2 DEF Linked
    <2> QED BY <1>4, <2>1
  <1>7. \E d : Ranked(t, d)
    <2>1. PICK d : Ranked(nodes, d)
      BY DEF Sound
    <2>2. Ranked(t, d)
      BY <1>3, <1>4, <2>1 DEF Ranked
    <2> QED BY <2>2
  <1> QED BY <1>1, <1>5, <1>6, <1>7 DEF Sound, t

LEMMA NextSound ==
  ASSUME Sound(nodes, nextId), Dom!Next
  PROVE  Sound(nodes', nextId')
  <1>1. CASE Dom!Refresh
    BY <1>1 DEF Dom!Refresh
  <1>2. CASE Dom!Call
    <2>1. Dom!ElementNodes \subseteq DOMAIN nodes /\ Dom!Known \subseteq DOMAIN nodes
      BY DEF Dom!ElementNodes, Dom!Known, Dom!Live
    <2>2. ASSUME NEW tag \in Dom!Tags, Dom!Create(tag) PROVE Sound(nodes', nextId')
      BY <2>2, CreateSound
    <2>3. ASSUME NEW f \in Markup, Dom!ImportTemplate(f) PROVE Sound(nodes', nextId')
      BY <2>3, ImportTemplateSound
    <2>4. ASSUME NEW n \in DOMAIN nodes, NEW deep \in BOOLEAN, Dom!CloneNode(n, deep)
          PROVE  Sound(nodes', nextId')
      BY <2>4, CloneSound
    <2>5. ASSUME NEW p \in DOMAIN nodes, NEW c \in DOMAIN nodes, Dom!AppendChild(p, c)
          PROVE  Sound(nodes', nextId')
      BY <2>5, AppendSound
    <2>6. ASSUME NEW p \in DOMAIN nodes, NEW c \in DOMAIN nodes, Dom!RemoveChild(p, c)
          PROVE  Sound(nodes', nextId')
      BY <2>6, RemoveSound
    <2>7. ASSUME NEW n \in DOMAIN nodes, NEW text \in BOOLEAN, Dom!SetTextContent(n, text)
          PROVE  Sound(nodes', nextId')
      BY <2>7, SetTextSound
    <2>8. ASSUME NEW n \in DOMAIN nodes, NEW f \in Markup, Dom!SetInnerHtml(n, f)
          PROVE  Sound(nodes', nextId')
      BY <2>8, SetInnerHtmlSound
    <2>9. ASSUME NEW n \in DOMAIN nodes, Dom!SetSlot(n) PROVE Sound(nodes', nextId')
      BY <2>9, SetSlotSound
    <2>10. ASSUME NEW n \in DOMAIN nodes, NEW stages, Dom!SetAttribute(n, stages)
           PROVE  Sound(nodes', nextId')
      BY <2>10 DEF Dom!SetAttribute
    <2>11. ASSUME NEW h \in DOMAIN nodes, Dom!AttachShadow(h) PROVE Sound(nodes', nextId')
      BY <2>11, AttachShadowSound
    <2> QED BY <1>2, <2>1, <2>2, <2>3, <2>4, <2>5, <2>6, <2>7, <2>8, <2>9, <2>10, <2>11 DEF Dom!Call
  <1> QED BY <1>1, <1>2 DEF Dom!Next

LEMMA InitSound ==
  ASSUME Dom!Init
  PROVE  Sound(nodes, nextId)
  <1> DEFINE n == NewNode("div")
  <1>1. nodes = [x \in {1} |-> n] /\ nextId = 2
    BY DEF Dom!Init, Dom!Root, NewNode, NoNode
  <1>2. n \in NodeRecord /\ n.parent = 0 /\ n.children = <<>>
    BY DEF NewNode, NodeRecord, NoNode, Dom!NoNode, Dom!Tags
  <1> HIDE DEF n
  <1>3. DOMAIN nodes = {1} /\ nodes[1] = n /\ NoNode = 0
    BY <1>1 DEF NoNode, Dom!NoNode
  <1>4. IsStore(nodes, nextId)
    <2>1. LastId \in Nat \ {0}
      BY Limits
    <2>2. nodes \in [DOMAIN nodes -> NodeRecord]
      BY <1>1, <1>2
    <2> QED BY <1>1, <1>3, <2>1, <2>2 DEF IsStore
  <1>5. Linked(nodes)
    <2>1. DOMAIN n.children = {}
      BY <1>2
    <2> QED BY <1>2, <1>3, <2>1 DEF Linked, IsInjective, Range
  <1>6. \E d : Ranked(nodes, d)
    <2> DEFINE d == [x \in {1} |-> 0]
    <2>1. Ranked(nodes, d)
      BY <1>2, <1>3 DEF Ranked
    <2> QED BY <2>1
  <1> QED BY <1>4, <1>5, <1>6 DEF Sound

LEMMA SoundAlways == Dom!Spec => []Sound(nodes, nextId)
  <1>1. Dom!Init => Sound(nodes, nextId)
    BY InitSound
  <1>2. Sound(nodes, nextId) /\ [Dom!Next]_(Dom!vars) => Sound(nodes, nextId)'
    <2>1. ASSUME Sound(nodes, nextId), Dom!Next PROVE Sound(nodes, nextId)'
      BY <2>1, NextSound DEF Sound, IsStore, Linked, Ranked
    <2>2. ASSUME Sound(nodes, nextId), UNCHANGED Dom!vars PROVE Sound(nodes, nextId)'
      BY <2>2 DEF Dom!vars, Sound, IsStore, Linked, Ranked
    <2> QED BY <2>1, <2>2
  <1> QED BY <1>1, <1>2, PTL DEF Dom!Spec

LEMMA SoundTree ==
  ASSUME Sound(nodes, nextId)
  PROVE  TreeSound
  <1>1. Linked(nodes) /\ \A n \in DOMAIN nodes : Dom!Climb(nodes, n)[LastId] = NoNode
    BY SoundIsTree DEF Sound
  <1> SUFFICES ASSUME NEW n \in DOMAIN nodes
               PROVE  /\ Dom!IsInjective(nodes[n].children)
                      /\ nodes[n].parent \in DOMAIN nodes \cup {Dom!NoNode}
                      /\ \A c \in Dom!Range(nodes[n].children) : c \in DOMAIN nodes /\ nodes[c].parent = n
                      /\ nodes[n].parent # Dom!NoNode => n \in Dom!Range(nodes[nodes[n].parent].children)
                      /\ Dom!Climb(nodes, n)[LastId] = Dom!NoNode
    BY DEF TreeSound, Dom!TreeSound, Dom!Live
  <1>2. /\ IsInjective(nodes[n].children)
        /\ nodes[n].parent \in DOMAIN nodes \cup {NoNode}
        /\ \A c \in Range(nodes[n].children) : c \in DOMAIN nodes /\ nodes[c].parent = n
        /\ nodes[n].parent # NoNode => n \in Range(nodes[nodes[n].parent].children)
    BY <1>1 DEF Linked
  <1>3. \A q : Dom!Range(q) = Range(q) /\ (Dom!IsInjective(q) <=> IsInjective(q))
    BY DEF Dom!Range, Range, Dom!IsInjective, IsInjective
  <1> QED BY <1>1, <1>2, <1>3 DEF NoNode

(* Whatever calls a page makes, in whatever order and however they fail:   *)
(* parents and children agree, no node has two places, and no chain of     *)
(* parents closes on itself (append_child checks a bounded way up only).   *)
THEOREM DocumentIsForest == Dom!Spec => []TreeSound
  <1>1. Sound(nodes, nextId) => TreeSound
    BY SoundTree
  <1> QED BY <1>1, SoundAlways, PTL

-----------------------------------------------------------------------------
(* What a boundary hides.                                                  *)
LEMMA BelowNothing ==
  ASSUME NEW s, NEW r, r \notin DOMAIN s
  PROVE  Dom!Below(s, {r}) = {r}
  <1>1. PICK g : Descends(g, s, {r})
    BY BelowStep
  <1>2. LastId \in Nat
    BY Limits
  <1> DEFINE T == {k \in Nat : k <= LastId => g[k] = {r}}
  <1>3. 0 \in T
    BY <1>1 DEF Descends
  <1>4. ASSUME NEW k \in T PROVE k + 1 \in T
    <2>1. k \in Nat /\ (k <= LastId => g[k] = {r})
      OBVIOUS
    <2> SUFFICES ASSUME k + 1 <= LastId PROVE g[k + 1] = {r}
      BY <2>1
    <2> HIDE DEF T
    <2>2. k <= LastId /\ k + 1 \in 1 .. LastId /\ (k + 1) - 1 = k
      BY <1>2, <2>1
    <2>3. g[k + 1] = Deeper(s, g[k])
      BY <1>1, <2>2 DEF Descends
    <2>4. Deeper(s, {r}) = {r}
      BY DEF Deeper
    <2> QED BY <2>1, <2>2, <2>3, <2>4
  <1>5. LastId \in T
    <2>1. T \subseteq Nat
      OBVIOUS
    <2> HIDE DEF T
    <2> QED BY <1>2, <1>3, <1>4, <2>1, Counting
  <1> QED BY <1>1, <1>2, <1>5 DEF Descends

LEMMA SoundHides ==
  ASSUME Sound(nodes, nextId)
  PROVE  BoundaryHides
  <1> SUFFICES ASSUME NEW h \in DOMAIN shadows,
                      NEW t \in Dom!Below(nodes, {shadows[h]}),
                      NEW c \in DOMAIN nodes \ Dom!Below(nodes, {shadows[h]}),
                      Dom!IsAncestor(nodes, c, t),
                      LET r == Dom!Outermost(t, c) IN nodes[r].parent = Dom!HostOf(r)
               PROVE  Dom!EffectiveTarget(t, c) \notin Dom!Below(nodes, {shadows[h]})
    BY DEF BoundaryHides, Dom!BoundaryHides, Dom!Shadowed, Dom!Live
  <1> DEFINE r == shadows[h]
             B == Dom!Below(nodes, {r})
             a == Dom!Climb(nodes, t)
  <1>1. /\ Linked(nodes) /\ NoNode \notin DOMAIN nodes
        /\ \A n \in DOMAIN nodes : Dom!Climb(nodes, n)[LastId] = NoNode
    BY SoundIsTree DEF Sound
  <1>2. PICK d : Ranked(nodes, d)
    BY DEF Sound
  <1>3. /\ LastId \in Nat /\ MaxPath \in Nat \ {0} /\ Far \in Nat /\ Far = MaxPath + LastId
    BY Limits DEF Far
  <1>4. PICK kc \in 0 .. MaxPath - 1 : a[kc] = c
    BY DEF Dom!IsAncestor
  <1>5. /\ a[0] = t /\ \A k \in 1 .. Far : a[k] = Dom!Parent(nodes, a[k - 1])
    BY ClimbStep
  <1>6. kc \in Nat /\ kc <= Far /\ kc + LastId < Far /\ c # NoNode /\ c \in DOMAIN nodes /\ c \notin B
    BY <1>1, <1>3
  <1>7. r \in DOMAIN nodes
    <2> SUFFICES ASSUME r \notin DOMAIN nodes PROVE FALSE
      OBVIOUS
    <2>1. t = r
      BY BelowNothing
    <2>2. kc # 0
      BY <1>4, <1>5, <1>6, <2>1
    <2>3. 1 \in 1 .. Far /\ 1 \in Nat /\ 1 <= kc /\ 1 - 1 = 0
      BY <1>3, <2>2
    <2>4. a[1] = NoNode
      BY <1>5, <2>1, <2>3 DEF Dom!Parent, NoNode
    <2> HIDE DEF Far
    <2>5. a[kc] = NoNode
      BY <1>1, <1>6, <2>3, <2>4, ClimbEnds
    <2> QED BY <1>4, <1>6, <2>5
  <1> HIDE DEF Far
  <1>8. B = {x \in DOMAIN nodes : \E j \in 0 .. LastId : Dom!Climb(nodes, x)[j] \in {r}}
    BY <1>7, BelowIsClimb
  <1>9. t \in DOMAIN nodes /\ \E j \in 0 .. LastId : a[j] = r
    <2>1. t \in B
      OBVIOUS
    <2> HIDE DEF B
    <2> QED BY <1>8, <2>1
  <1>10. PICK kr \in 0 .. LastId : a[kr] = r
    BY <1>9
  <1> HIDE DEF B
  <1>11. kc < LastId
    <2> SUFFICES ASSUME ~(kc < LastId) PROVE FALSE
      OBVIOUS
    <2>1. LastId <= kc /\ a[LastId] = NoNode
      BY <1>1, <1>3, <1>6, <1>9
    <2>2. a[kc] = NoNode
      BY <1>1, <1>3, <1>6, <2>1, ClimbEnds
    <2> QED BY <1>4, <1>6, <2>2
  <1>12. \A j \in 0 .. kr : a[j] # c
    <2> SUFFICES ASSUME NEW j \in 0 .. kr, a[j] = c PROVE FALSE
      OBVIOUS
    <2>1. j \in Nat /\ kr - j \in Nat /\ j + (kr - j) = kr /\ kr <= Far /\ kr - j \in 0 .. LastId
      BY <1>3
    <2>2. a[j + (kr - j)] = Dom!Climb(nodes, a[j])[kr - j]
      BY <2>1, ClimbOn
    <2>3. Dom!Climb(nodes, c)[kr - j] = r
      BY <1>10, <2>1, <2>2
    <2> QED BY <1>6, <1>8, <2>1, <2>3
  <1> DEFINE way == Dom!WayUp(t, c)
             marks == Dom!CrossedAt(t, c)
             ko == CHOOSE k \in marks : \A j \in marks : j <= k
  <1>13. /\ way = {k \in 0 .. LastId : \A j \in 0 .. k : a[j] # c}
         /\ marks = {k \in way : a[k] \in Dom!ShadowRoots}
         /\ Dom!Outermost(t, c) = a[ko]
         /\ Dom!EffectiveTarget(t, c) = IF marks = {} THEN t ELSE Dom!HostOf(a[ko])
    BY DEF Dom!WayUp, Dom!CrossedAt, Dom!Outermost, Dom!EffectiveTarget
  <1> HIDE DEF way, marks
  <1>14. kr \in marks /\ marks \subseteq 0 .. LastId
    <2>1. r \in Dom!ShadowRoots
      BY DEF Dom!ShadowRoots, Dom!Shadowed
    <2> QED BY <1>10, <1>12, <1>13, <2>1
  <1>15. ko \in marks /\ \A j \in marks : j <= ko
    <2>1. marks \subseteq Nat /\ marks # {} /\ \A j \in marks : j <= LastId
      BY <1>3, <1>14
    <2>2. \E k \in marks : \A j \in marks : j <= k
      BY <1>3, <2>1, Greatest
    <2> QED BY <2>2
  <1> HIDE DEF ko
  <1>16. ko \in 0 .. LastId /\ kr <= ko /\ ko < kc
    <2>1. ko \in 0 .. LastId /\ kr <= ko /\ \A j \in 0 .. ko : a[j] # c
      BY <1>13, <1>14, <1>15
    <2>2. ko < kc
      BY <1>4, <1>6, <2>1
    <2> QED BY <2>1, <2>2
  <1> DEFINE e == a[ko + 1]
  <1>17. a[ko] \in DOMAIN nodes
    <2>1. ko \in 0 .. kc - 1
      BY <1>6, <1>16
    <2>2. a[kc] # NoNode
      BY <1>4, <1>6
    <2> HIDE DEF a
    <2>3. \A i \in 0 .. kc - 1 : a[i] \in DOMAIN nodes
      BY <1>1, <1>2, <1>6, <1>9, <2>2, ClimbFalls DEF a
    <2> QED BY <2>1, <2>3
  <1>18. e = nodes[a[ko]].parent
    <2>1. ko + 1 \in 1 .. Far /\ (ko + 1) - 1 = ko
      BY <1>3, <1>6, <1>16
    <2> QED BY <1>5, <1>17, <2>1 DEF Dom!Parent
  <1>19. Dom!EffectiveTarget(t, c) = e
    <2>1. marks # {} /\ nodes[a[ko]].parent = Dom!HostOf(a[ko])
      BY <1>13, <1>15
    <2> QED BY <1>13, <1>18, <2>1
  <1>20. e \notin B
    <2> SUFFICES ASSUME e \in B PROVE FALSE
      OBVIOUS
    <2>1. PICK i \in 0 .. LastId : Dom!Climb(nodes, e)[i] = r
      BY <1>8
    <2> DEFINE l == ko + 1
               m == l + i
    <2>2. l \in Nat /\ i \in Nat /\ m <= Far /\ m \in Nat /\ kr \in 0 .. m - 1
      BY <1>3, <1>6, <1>16
    <2> HIDE DEF l
    <2>7. l + i <= Far
      BY <2>2
    <2>3. a[m] = Dom!Climb(nodes, a[l])[i]
      BY <2>2, <2>7, ClimbOn
    <2>8. a[l] = e
      BY DEF l
    <2> HIDE DEF m
    <2>4. a[m] = r /\ a[m] # NoNode
      BY <1>1, <1>7, <2>1, <2>3, <2>8
    <2>5. d[a[m]] < d[a[kr]]
      BY <1>1, <1>2, <1>9, <2>2, <2>4, ClimbFalls
    <2>6. d[r] \in Nat
      BY <1>2, <1>7 DEF Ranked
    <2> QED BY <1>10, <2>4, <2>5, <2>6
  <1> QED BY <1>19, <1>20 DEF B

(* A listener outside a shadow tree is never shown a node of it, however   *)
(* the trees are nested, while the outermost root crossed is at its host:  *)
(* effective_target stops at the outermost boundary crossed, and the host  *)
(* of that one is outside every tree the target is in.                     *)
THEOREM BoundariesHold == Dom!Spec => []BoundaryHides
  <1>1. Sound(nodes, nextId) => BoundaryHides
    BY SoundHides
  <1> QED BY <1>1, SoundAlways, PTL

-----------------------------------------------------------------------------
(* What was drawn.  Nodes that hang from nothing are not in the tree that  *)
(* a page exports.                                                         *)
Places(s, next) == {x \in Nat : x < next} \X (DOMAIN s \cup {NoNode})
Onward(s, shadow, P) == P \cup UNION {Range(Dom!Content(s, shadow, q)) : q \in P}
Exported(s, shadow, P) ==
  IF \E q \in P : ~Dom!Exportable(s, shadow, q[1]) THEN Dom!Blank
  ELSE [q \in P |-> Dom!Content(s, shadow, q)]

Reached(g, s, shadow, P) ==
  /\ g \in [0 .. 2 * LastId -> SUBSET P] /\ g[0] = {<<Dom!Root, NoNode>>}
  /\ \A k \in 1 .. 2 * LastId : g[k] = Onward(s, shadow, g[k - 1])
  /\ Dom!Export(s, shadow) = Exported(s, shadow, g[2 * LastId])

LEMMA ExportIs ==
  ASSUME NEW s, NEW shadow, NEW P, <<Dom!Root, NoNode>> \in P,
         \A q \in P : Range(Dom!Content(s, shadow, q)) \subseteq P
  PROVE  \E g : Reached(g, s, shadow, P)
  <1> DEFINE N == 2 * LastId
             Q == SUBSET P
             x == {<<Dom!Root, NoNode>>}
             f == [i \in 1 .. N |-> [T \in Q |-> Onward(s, shadow, T)]]
             body(g) == [k \in 0 .. N |-> IF k = 0 THEN x ELSE Onward(s, shadow, g[k - 1])]
             it == CHOOSE g : g = body(g)
  <1>1. N \in Nat /\ x \in Q /\ \A T \in Q : Onward(s, shadow, T) \in Q
    BY Limits DEF Onward
  <1>2. Dom!Export(s, shadow) = Exported(s, shadow, it[N])
    BY DEF Dom!Export, Exported, Onward, Range, Dom!Range, NoNode
  <1> HIDE DEF N, Q, x, it, body
  <1>3. f \in [1 .. N -> [Q -> Q]]
    BY <1>1
  <1> HIDE DEF f
  <1>4. PICK g \in [0 .. N -> Q] : Follows(g, f, x, N)
    BY <1>1, <1>3, Recursion
  <1>5. \A k \in 0 .. N : g[k] = IF k = 0 THEN x ELSE Onward(s, shadow, g[k - 1])
    <2> SUFFICES ASSUME NEW k \in 0 .. N, k # 0 PROVE g[k] = Onward(s, shadow, g[k - 1])
      BY <1>4 DEF Follows
    <2>1. k \in 1 .. N /\ k - 1 \in 0 .. N
      BY <1>1
    <2>2. g[k] = f[k][g[k - 1]] /\ g[k - 1] \in Q
      BY <1>4, <2>1 DEF Follows
    <2> QED BY <2>1, <2>2 DEF f
  <1>6. g = body(g)
    <2>1. g = [k \in 0 .. N |-> g[k]]
      BY <1>4
    <2> QED BY <1>5, <2>1 DEF body
  <1>7. it = body(it)
    BY <1>6 DEF it
  <1>8. it[0] = x /\ \A k \in 1 .. N : it[k] = Onward(s, shadow, it[k - 1])
    <2>1. \A k \in 0 .. N : it[k] = IF k = 0 THEN x ELSE Onward(s, shadow, it[k - 1])
      BY <1>7 DEF body
    <2> QED BY <1>1, <2>1
  <1>9. it \in [0 .. N -> Q]
    <2> DEFINE T == {k \in Nat : k <= N => it[k] \in Q}
    <2>1. 0 \in T
      BY <1>1, <1>8
    <2>2. ASSUME NEW k \in T PROVE k + 1 \in T
      <3>1. k \in Nat /\ (k <= N => it[k] \in Q)
        OBVIOUS
      <3> SUFFICES ASSUME k + 1 <= N PROVE it[k + 1] \in Q
        BY <3>1
      <3> HIDE DEF T
      <3>2. k <= N /\ k + 1 \in 1 .. N /\ (k + 1) - 1 = k
        BY <1>1, <3>1
      <3> QED BY <1>1, <1>8, <3>1, <3>2
    <2>3. T \subseteq Nat
      OBVIOUS
    <2> HIDE DEF T
    <2>4. \A k \in Nat : k \in T
      BY <2>1, <2>2, <2>3, Counting
    <2>5. \A k \in 0 .. N : it[k] \in Q
      <3> SUFFICES ASSUME NEW k \in 0 .. N PROVE it[k] \in Q
        OBVIOUS
      <3>1. k \in Nat /\ k <= N
        BY <1>1
      <3>2. k \in T
        BY <2>4, <3>1
      <3> QED BY <3>1, <3>2 DEF T
    <2>6. it = [k \in 0 .. N |-> it[k]]
      BY <1>7 DEF body
    <2> QED BY <2>5, <2>6
  <1>10. Reached(it, s, shadow, P)
    BY <1>2, <1>8, <1>9 DEF Reached, N, Q, x
  <1> QED BY <1>10

(* Where two stores agree, the trees they export agree.                    *)
LEMMA ExportAgrees ==
  ASSUME NEW s, NEW t, NEW shadow, NEW P, <<Dom!Root, NoNode>> \in P,
         \A q \in P : /\ Range(Dom!Content(s, shadow, q)) \subseteq P
                      /\ Dom!Content(t, shadow, q) = Dom!Content(s, shadow, q)
                      /\ Dom!Exportable(t, shadow, q[1]) <=> Dom!Exportable(s, shadow, q[1])
  PROVE  Dom!Export(t, shadow) = Dom!Export(s, shadow)
  <1>1. PICK g : Reached(g, s, shadow, P)
    BY ExportIs
  <1>2. PICK h : Reached(h, t, shadow, P)
    <2>1. \A q \in P : Range(Dom!Content(t, shadow, q)) \subseteq P
      OBVIOUS
    <2> QED BY <2>1, ExportIs
  <1> DEFINE N == 2 * LastId
             T == {k \in Nat : k <= N => h[k] = g[k]}
  <1>3. N \in Nat
    BY Limits
  <1>4. 0 \in T
    BY <1>1, <1>2 DEF Reached
  <1>5. ASSUME NEW k \in T PROVE k + 1 \in T
    <2>1. k \in Nat /\ (k <= N => h[k] = g[k])
      OBVIOUS
    <2> SUFFICES ASSUME k + 1 <= N PROVE h[k + 1] = g[k + 1]
      BY <2>1
    <2> HIDE DEF T
    <2>2. k <= N /\ k + 1 \in 1 .. N /\ k \in 0 .. N /\ (k + 1) - 1 = k
      BY <1>3, <2>1
    <2>3. g[k] \subseteq P /\ h[k] = g[k]
      BY <1>1, <2>1, <2>2 DEF Reached
    <2>4. h[k + 1] = Onward(t, shadow, h[k]) /\ g[k + 1] = Onward(s, shadow, g[k])
      BY <1>1, <1>2, <2>2 DEF Reached
    <2>5. Onward(t, shadow, g[k]) = Onward(s, shadow, g[k])
      BY <2>3 DEF Onward
    <2> QED BY <2>3, <2>4, <2>5
  <1>6. N \in T
    <2>1. T \subseteq Nat
      OBVIOUS
    <2> HIDE DEF T
    <2> QED BY <1>3, <1>4, <1>5, <2>1, Counting
  <1>7. h[N] = g[N] /\ g[N] \subseteq P
    <2>1. N \in 0 .. N
      BY <1>3
    <2> QED BY <1>1, <1>3, <1>6, <2>1 DEF Reached
  <1> DEFINE R == g[N]
  <1>8. Exported(t, shadow, R) = Exported(s, shadow, R)
    <2>1. R \subseteq P
      BY <1>7
    <2> HIDE DEF R
    <2> QED BY <2>1 DEF Exported
  <1> QED BY <1>1, <1>2, <1>7, <1>8 DEF Reached

ShadowsKnown(shadow, next) ==
  \A h \in DOMAIN shadow : h \in Nat /\ h < next /\ shadow[h] \in Nat /\ shadow[h] < next

LEMMA ForRange ==
  ASSUME NEW A, NEW B, NEW h \in B, NEW q, DOMAIN q = 1 .. Len(q), Len(q) \in Nat, Range(q) \subseteq A
  PROVE  Dom!For(h, q) \in Seq(A \X B) /\ Range(Dom!For(h, q)) \subseteq A \X B
  <1> DEFINE f == Dom!For(h, q)
  <1>1. f = [i \in 1 .. Len(q) |-> <<q[i], h>>]
    BY DEF Dom!For
  <1>2. \A i \in 1 .. Len(q) : <<q[i], h>> \in A \X B
    BY DEF Range
  <1> DEFINE C == A \X B
  <1>3. f \in [1 .. Len(q) -> C]
    BY <1>1, <1>2
  <1> HIDE DEF f, C
  <1>4. f \in Seq(C) /\ Range(f) \subseteq C
    BY <1>3 DEF Range
  <1> QED BY <1>4 DEF f, C

LEMMA LightSame ==
  ASSUME NEW s, NEW next, Sound(s, next), NEW t, Extended(t, s, next), NEW h \in DOMAIN s
  PROVE  /\ Dom!LightChildren(t, h) = Dom!LightChildren(s, h)
         /\ Dom!LightChildren(s, h) \in Seq(Nat) /\ Range(Dom!LightChildren(s, h)) \subseteq DOMAIN s
  <1> DEFINE ch == s[h].children
             S(u) == {c \in Dom!Range(u[h].children) : u[c].tag # "shadow-root" /\ ~u[c].named}
  <1>1. t[h] = s[h] /\ \A x \in DOMAIN s : t[x] = s[x]
    BY DEF Extended
  <1>2. ch \in Seq(Nat) /\ Range(ch) \subseteq DOMAIN s
    <2>1. s[h] \in NodeRecord /\ Linked(s)
      BY DEF Sound, IsStore
    <2> QED BY <2>1 DEF Linked, NodeRecord
  <1>3. S(t) = S(s)
    BY <1>1, <1>2 DEF Dom!Range, Range
  <1>4. \A u : Dom!LightChildren(u, h) = Filtered(u[h].children, S(u))
    BY DEF Dom!LightChildren, Dom!Filtered, Filtered
  <1> HIDE DEF S
  <1>5. Dom!LightChildren(t, h) = Filtered(ch, S(s)) /\ Dom!LightChildren(s, h) = Filtered(ch, S(s))
    BY <1>1, <1>3, <1>4
  <1> HIDE DEF ch
  <1>6. Filtered(ch, S(s)) \in Seq(Nat) /\ Range(Filtered(ch, S(s))) \subseteq DOMAIN s
    BY <1>2, FilteredRange
  <1> QED BY <1>5, <1>6

LEMMA ShadowSame ==
  ASSUME NEW s, NEW next, Sound(s, next), NEW t, Extended(t, s, next),
         NEW h \in DOMAIN s, NEW r \in DOMAIN s
  PROVE  /\ Dom!ShadowContent(t, h, r) = Dom!ShadowContent(s, h, r)
         /\ Range(Dom!ShadowContent(s, h, r)) \subseteq Places(s, next)
  <1> DEFINE ch == s[r].children
             light(u) == Dom!LightChildren(u, h)
             place(u, c) == IF u[c].tag # "slot" THEN <<<<c, h>>>>
                            ELSE IF light(u) # <<>> THEN Dom!For(Dom!NoNode, light(u))
                            ELSE <<<<c, Dom!NoNode>>>>
             all(u) == [i \in DOMAIN u[r].children |-> place(u, u[r].children[i])]
             A == {x \in Nat : x < next}
             B == DOMAIN s \cup {NoNode}
             P == Places(s, next)
  <1>1. t[r] = s[r] /\ \A x \in DOMAIN s : t[x] = s[x]
    BY DEF Extended
  <1>2. ch \in Seq(Nat) /\ Range(ch) \subseteq DOMAIN s
    <2>1. s[r] \in NodeRecord /\ Linked(s)
      BY DEF Sound, IsStore
    <2> QED BY <2>1 DEF Linked, NodeRecord
  <1>3. \A i \in DOMAIN ch : ch[i] \in DOMAIN s
    BY <1>2 DEF Range
  <1>4. light(t) = light(s) /\ light(s) \in Seq(Nat) /\ Range(light(s)) \subseteq DOMAIN s
    BY LightSame
  <1>5. \A u : Dom!ShadowContent(u, h, r) = FlattenSeq(all(u))
    BY DEF Dom!ShadowContent, Dom!FlattenSeq, FlattenSeq
  <1> HIDE DEF light
  <1>6. \A c \in DOMAIN s : place(t, c) = place(s, c)
    BY <1>1, <1>4
  <1> HIDE DEF place
  <1>7. all(t) = all(s)
    <2>1. \A i \in DOMAIN ch : place(t, ch[i]) = place(s, ch[i])
      BY <1>3, <1>6
    <2>2. t[r].children = ch
      BY <1>1
    <2> HIDE DEF ch
    <2> QED BY <2>1, <2>2 DEF ch
  <1>8. DOMAIN s \subseteq A
    BY StoreIds
  <1>9. ASSUME NEW c \in DOMAIN s PROVE place(s, c) \in Seq(P)
    <2> HIDE DEF P
    <2>1. /\ <<c, h>> \in P /\ <<c, NoNode>> \in P
      BY <1>8, <1>9 DEF P, Places
    <2>2. Dom!For(Dom!NoNode, light(s)) \in Seq(P)
      <3> DEFINE q == light(s)
      <3>1. DOMAIN q = 1 .. Len(q) /\ Len(q) \in Nat /\ Range(q) \subseteq A /\ NoNode \in B
        BY <1>4, <1>8
      <3> HIDE DEF q, A, B
      <3>2. Dom!For(NoNode, q) \in Seq(A \X B)
        BY <3>1, ForRange
      <3> QED BY <3>2 DEF q, A, B, P, Places, NoNode
    <2>3. <<<<c, h>>>> \in Seq(P) /\ <<<<c, NoNode>>>> \in Seq(P)
      BY <2>1
    <2> QED BY <2>2, <2>3 DEF place, NoNode
  <1>10. all(s) \in Seq(Seq(P))
    <2> DEFINE Q == Seq(P)
               f == all(s)
    <2>1. \A c \in DOMAIN s : place(s, c) \in Q
      BY <1>9
    <2> HIDE DEF Q, P
    <2>2. f = [i \in 1 .. Len(ch) |-> place(s, ch[i])] /\ Len(ch) \in Nat
      BY <1>2
    <2>3. \A i \in 1 .. Len(ch) : place(s, ch[i]) \in Q
      BY <1>2, <1>3, <2>1
    <2> HIDE DEF f, ch
    <2>4. f \in Seq(Q)
      BY <2>2, <2>3
    <2> QED BY <2>4 DEF f, Q
  <1> HIDE DEF all, P
  <1>11. /\ FlattenSeq(all(s)) \in Seq(P)
         /\ \A x \in Range(FlattenSeq(all(s))) : \E q \in 1 .. Len(all(s)) : x \in Range(all(s)[q])
    BY <1>10, FlattenRange
  <1>12. Range(FlattenSeq(all(s))) \subseteq P
    BY <1>11 DEF Range
  <1> QED BY <1>5, <1>7, <1>12 DEF P

LEMMA ContentSame ==
  ASSUME NEW s, NEW next, Sound(s, next), NEW t, Extended(t, s, next),
         NEW shadow, ShadowsKnown(shadow, next), NEW q \in Places(s, next)
  PROVE  /\ Range(Dom!Content(s, shadow, q)) \subseteq Places(s, next)
         /\ Dom!Content(t, shadow, q) = Dom!Content(s, shadow, q)
         /\ Dom!Exportable(t, shadow, q[1]) <=> Dom!Exportable(s, shadow, q[1])
  <1> DEFINE n == q[1]
             h == q[2]
             A == {x \in Nat : x < next}
             B == DOMAIN s \cup {NoNode}
  <1>1. n \in A /\ h \in B
    BY DEF Places
  <1>2. next \in Nat \ {0} /\ DOMAIN s \subseteq A /\ \A x \in DOMAIN s : t[x] = s[x]
    BY StoreIds DEF Extended
  <1>3. \A x \in A : x \in DOMAIN t <=> x \in DOMAIN s
    BY <1>2 DEF Extended
  <1>4. Dom!Exportable(t, shadow, n) <=> Dom!Exportable(s, shadow, n)
    <2>1. n \in DOMAIN shadow => shadow[n] \in A
      BY <1>2 DEF ShadowsKnown
    <2>2. n \in DOMAIN s => t[n] = s[n]
      BY <1>2
    <2> HIDE DEF n, A
    <2> QED BY <1>1, <1>3, <2>1, <2>2 DEF Dom!Exportable
  <1>5. CASE ~Dom!Exportable(s, shadow, n)
    <2>1. Dom!Content(s, shadow, q) = <<>> /\ Dom!Content(t, shadow, q) = <<>>
      BY <1>4, <1>5 DEF Dom!Content
    <2> DEFINE e == Dom!Content(s, shadow, q)
    <2>2. DOMAIN e = {}
      BY <2>1
    <2> HIDE DEF e
    <2>3. Range(e) = {}
      BY <2>2 DEF Range
    <2> QED BY <1>4, <2>1, <2>3 DEF e
  <1>6. CASE Dom!Exportable(s, shadow, n)
    <2>1. n \in DOMAIN s /\ n \in DOMAIN t /\ t[n] = s[n] /\ Dom!Exportable(t, shadow, n)
      BY <1>1, <1>2, <1>3, <1>4, <1>6 DEF Dom!Exportable
    <2>2. s[n].children \in Seq(Nat) /\ Range(s[n].children) \subseteq DOMAIN s
      <3>1. s[n] \in NodeRecord /\ Linked(s)
        BY <2>1 DEF Sound, IsStore
      <3> QED BY <2>1, <3>1 DEF Linked, NodeRecord
    <2> DEFINE F(g, c) == Dom!For(g, c)
    <2>3. ASSUME NEW g \in B, NEW c \in Seq(Nat), Range(c) \subseteq DOMAIN s
          PROVE  Range(Dom!For(g, c)) \subseteq Places(s, next)
      <3>1. DOMAIN c = 1 .. Len(c) /\ Len(c) \in Nat /\ Range(c) \subseteq A
        BY <1>2, <2>3
      <3> HIDE DEF A, B
      <3>2. Range(Dom!For(g, c)) \subseteq A \X B
        BY <3>1, ForRange
      <3> QED BY <3>2 DEF A, B, Places
    <2>4. CASE s[n].tag = "slot" /\ h # NoNode
      <3>1. h \in DOMAIN s
        BY <1>1, <2>4
      <3>2. /\ Dom!Content(s, shadow, q) = Dom!For(NoNode, Dom!SlotContent(s, n, h))
            /\ Dom!Content(t, shadow, q) = Dom!For(NoNode, Dom!SlotContent(t, n, h))
        BY <1>6, <2>1, <2>4 DEF Dom!Content, NoNode
      <3>3. /\ Dom!LightChildren(t, h) = Dom!LightChildren(s, h)
            /\ Dom!LightChildren(s, h) \in Seq(Nat) /\ Range(Dom!LightChildren(s, h)) \subseteq DOMAIN s
        BY <3>1, LightSame
      <3> DEFINE c == Dom!SlotContent(s, n, h)
      <3>4. Dom!SlotContent(t, n, h) = c /\ c \in Seq(Nat) /\ Range(c) \subseteq DOMAIN s
        BY <2>1, <2>2, <3>3 DEF Dom!SlotContent
      <3> HIDE DEF c
      <3>5. Range(Dom!For(NoNode, c)) \subseteq Places(s, next)
        BY <2>3, <3>4
      <3> QED BY <1>4, <3>2, <3>4, <3>5 DEF c
    <2>5. CASE ~(s[n].tag = "slot" /\ h # NoNode) /\ n \in DOMAIN shadow
      <3> DEFINE r == shadow[n]
      <3>1. r \in DOMAIN s
        BY <1>6, <2>5 DEF Dom!Exportable
      <3>2. /\ Dom!Content(s, shadow, q) = Dom!ShadowContent(s, n, r)
            /\ Dom!Content(t, shadow, q) = Dom!ShadowContent(t, n, r)
        BY <1>6, <2>1, <2>5 DEF Dom!Content, NoNode
      <3> HIDE DEF r, n
      <3>3. /\ Dom!ShadowContent(t, n, r) = Dom!ShadowContent(s, n, r)
            /\ Range(Dom!ShadowContent(s, n, r)) \subseteq Places(s, next)
        BY <2>1, <3>1, ShadowSame
      <3> QED BY <1>4, <3>2, <3>3 DEF n
    <2>6. CASE ~(s[n].tag = "slot" /\ h # NoNode) /\ n \notin DOMAIN shadow
      <3>1. /\ Dom!Content(s, shadow, q) = Dom!For(h, s[n].children)
            /\ Dom!Content(t, shadow, q) = Dom!For(h, t[n].children)
        BY <1>6, <2>1, <2>6 DEF Dom!Content, NoNode
      <3>2. Range(Dom!For(h, s[n].children)) \subseteq Places(s, next)
        BY <1>1, <2>2, <2>3
      <3> QED BY <1>4, <2>1, <3>1, <3>2
    <2> QED BY <2>4, <2>5, <2>6
  <1> QED BY <1>5, <1>6

LEMMA ExportSame ==
  ASSUME NEW s, NEW next, Sound(s, next), Dom!Root < next, NEW t, Extended(t, s, next),
         NEW shadow, ShadowsKnown(shadow, next)
  PROVE  Dom!Export(t, shadow) = Dom!Export(s, shadow)
  <1> DEFINE P == Places(s, next)
  <1>1. <<Dom!Root, NoNode>> \in P
    BY DEF Places, Dom!Root
  <1>2. \A q \in P : /\ Range(Dom!Content(s, shadow, q)) \subseteq P
                     /\ Dom!Content(t, shadow, q) = Dom!Content(s, shadow, q)
                     /\ Dom!Exportable(t, shadow, q[1]) <=> Dom!Exportable(s, shadow, q[1])
    BY ContentSame
  <1> HIDE DEF P
  <1> QED BY <1>1, <1>2, ExportAgrees

(* The flags are stages, and unless a call failed half-way or gave a child *)
(* to another slot: without a flag, what was drawn is the composed tree;   *)
(* without the flag of the layout, the retained layout is.                 *)
Drawn ==
  /\ Dom!Root < nextId /\ ShadowsKnown(shadows, nextId) /\ dirty \subseteq Dom!Stages
  /\ ~torn /\ dirty = {} => render = Dom!Composed
  /\ ~torn /\ "layout" \notin dirty => layout = Dom!Composed

LEMMA KnownOn ==
  ASSUME NEW shadow, NEW a \in Nat, NEW b \in Nat, a <= b, ShadowsKnown(shadow, a)
  PROVE  ShadowsKnown(shadow, b)
  BY DEF ShadowsKnown

(* A call that says everything is to be redone owes nothing.               *)
LEMMA RedoneDrawn ==
  ASSUME Redone, Dom!Root < nextId', ShadowsKnown(shadows', nextId')
  PROVE  Drawn'
  <1>1. dirty' = {"layout", "paint"}
    BY DEF Redone, Dom!Stages
  <1> QED BY <1>1 DEF Drawn, Dom!Stages

(* Nor does one that says nothing, for what it made hangs from nothing.    *)
LEMMA UnsaidDrawn ==
  ASSUME Sound(nodes, nextId), Drawn, Unsaid, UNCHANGED <<render, layout>>,
         nextId' \in Nat, nextId <= nextId'
  PROVE  Drawn'
  <1>1. nextId \in Nat /\ Dom!Root < nextId'
    BY StoreIds DEF Drawn, Dom!Root
  <1>2. ShadowsKnown(shadows', nextId') /\ dirty' \subseteq Dom!Stages
    BY <1>1, KnownOn DEF Drawn, Unsaid
  <1>3. ASSUME ~torn' PROVE ~torn /\ (Dom!Composed)' = Dom!Composed
    <2>1. ~torn /\ Extended(nodes', nodes, nextId) /\ shadows' = shadows
      BY <1>3 DEF Unsaid
    <2> DEFINE t == nodes'
    <2>2. Extended(t, nodes, nextId)
      BY <2>1
    <2> HIDE DEF t
    <2>3. Dom!Export(t, shadows) = Dom!Export(nodes, shadows)
      BY <2>2, ExportSame DEF Drawn
    <2>4. (Dom!Composed)' = Dom!Export(t, shadows')
      BY DEF Dom!Composed, t
    <2> QED BY <2>1, <2>3, <2>4 DEF Dom!Composed
  <1> QED BY <1>1, <1>2, <1>3 DEF Drawn, Unsaid

LEMMA ToldDrawn ==
  ASSUME Sound(nodes, nextId), Drawn, Told, UNCHANGED <<shadows, render, layout>>,
         nextId' \in Nat, nextId <= nextId'
  PROVE  Drawn'
  <1>1. CASE Redone
    <2>1. nextId \in Nat
      BY StoreIds
    <2>2. Dom!Root < nextId' /\ ShadowsKnown(shadows', nextId')
      BY <2>1, KnownOn DEF Drawn, Dom!Root
    <2> QED BY <1>1, <2>2, RedoneDrawn
  <1>2. CASE Unsaid
    BY <1>2, UnsaidDrawn
  <1> QED BY <1>1, <1>2 DEF Told

LEMMA CreateDrawn ==
  ASSUME Sound(nodes, nextId), Drawn, NEW tag \in Dom!Tags, Dom!Create(tag)
  PROVE  Drawn'
  <1>1. Sound(nodes', nextId') /\ Unsaid /\ nextId <= nextId'
    BY CreateSound
  <1>2. nextId' \in Nat
    BY <1>1 DEF Sound, IsStore
  <1>3. UNCHANGED <<render, layout>>
    BY DEF Dom!Create
  <1> QED BY <1>1, <1>2, <1>3, UnsaidDrawn

(* ImportTemplate, SetTextContent and SetInnerHtml.                        *)
LEMMA BuildDrawn ==
  ASSUME Sound(nodes, nextId), Drawn, UNCHANGED <<shadows, render, layout>>,
         Sound(nodes', nextId') /\ Told /\ nextId <= nextId'
  PROVE  Drawn'
  <1>1. nextId' \in Nat
    BY DEF Sound, IsStore
  <1> QED BY <1>1, ToldDrawn

LEMMA CloneDrawn ==
  ASSUME Sound(nodes, nextId), Drawn, NEW n \in DOMAIN nodes, NEW deep \in BOOLEAN,
         Dom!CloneNode(n, deep)
  PROVE  Drawn'
  <1>1. Sound(nodes', nextId') /\ Extended(nodes', nodes, nextId) /\ nextId <= nextId'
    BY CloneSound
  <1>2. UNCHANGED <<shadows, render, layout>> /\ (Dom!Marked \/ UNCHANGED <<dirty, torn>>)
    BY DEF Dom!CloneNode
  <1>3. Told
    BY <1>1, <1>2 DEF Told, Redone, Unsaid, Dom!Marked
  <1> QED BY <1>1, <1>2, <1>3, BuildDrawn

LEMMA AttachShadowDrawn ==
  ASSUME Sound(nodes, nextId), Drawn, NEW h \in DOMAIN nodes, Dom!AttachShadow(h)
  PROVE  Drawn'
  <1>1. /\ Sound(nodes', nextId') /\ Told
        /\ shadows' = shadows \/ shadows' = [x \in DOMAIN shadows \cup {h} |->
                                               IF x = h THEN nextId ELSE shadows[x]]
        /\ nextId <= nextId' /\ (shadows' # shadows => nextId < nextId')
    BY AttachShadowSound
  <1>2. UNCHANGED <<render, layout>>
    BY DEF Dom!AttachShadow
  <1>3. CASE shadows' = shadows
    BY <1>1, <1>2, <1>3, BuildDrawn
  <1>4. CASE shadows' # shadows
    <2> DEFINE next == nextId'
    <2>1. nextId \in Nat /\ next \in Nat /\ nextId < next /\ h \in Nat /\ h < nextId
      <3>1. next \in Nat
        BY <1>1 DEF Sound, IsStore
      <3> QED BY <1>1, <1>4, <3>1, StoreIds
    <2>2. shadows' = [x \in DOMAIN shadows \cup {h} |-> IF x = h THEN nextId ELSE shadows[x]]
      BY <1>1, <1>4
    <2>3. Redone
      BY <1>1, <1>4 DEF Told, Unsaid
    <2> DEFINE new == shadows'
    <2>4. new = [x \in DOMAIN shadows \cup {h} |-> IF x = h THEN nextId ELSE shadows[x]]
      BY <2>2
    <2> HIDE DEF new, next
    <2>5. ShadowsKnown(new, next)
      BY <2>1, <2>4 DEF Drawn, ShadowsKnown
    <2>6. Dom!Root < next
      BY <2>1 DEF Drawn, Dom!Root
    <2> QED BY <2>3, <2>5, <2>6, RedoneDrawn DEF new, next
  <1> QED BY <1>3, <1>4

(* Marked, with the identities and the shadow roots as they were.          *)
LEMMA MarkedDrawn ==
  ASSUME Drawn, Dom!Marked, UNCHANGED <<nextId, shadows>>
  PROVE  Drawn'
  <1>1. Redone
    BY DEF Redone, Dom!Marked
  <1> QED BY <1>1, RedoneDrawn DEF Drawn

LEMMA SetSlotDrawn ==
  ASSUME Drawn, NEW n, Dom!SetSlot(n)
  PROVE  Drawn'
  <1>1. /\ dirty' = dirty \cup {"paint"} /\ torn' = (torn \/ "layout" \notin dirty)
        /\ UNCHANGED <<nextId, shadows>>
    BY DEF Dom!SetSlot
  <1>2. dirty' # {} /\ ("layout" \notin dirty' => torn')
    BY <1>1
  <1> QED BY <1>1, <1>2 DEF Drawn, Dom!Stages

LEMMA SetAttributeDrawn ==
  ASSUME Drawn, NEW n, NEW stages \in Dom!AttributeStages, Dom!SetAttribute(n, stages)
  PROVE  Drawn'
  <1>1. /\ dirty' = dirty \cup stages /\ torn' = (torn /\ dirty' # Dom!Stages)
        /\ UNCHANGED <<nodes, nextId, shadows, render, layout>>
    BY DEF Dom!SetAttribute
  <1>2. dirty' \subseteq {"layout", "paint"} /\ "paint" \in dirty'
    BY <1>1 DEF Drawn, Dom!Stages, Dom!AttributeStages
  <1>3. "layout" \notin dirty' /\ ~torn' => "layout" \notin dirty /\ ~torn
    BY <1>1, <1>2 DEF Dom!Stages
  <1>4. (Dom!Composed)' = Dom!Composed
    BY <1>1 DEF Dom!Composed
  <1> QED BY <1>1, <1>2, <1>3, <1>4 DEF Drawn, Dom!Stages

LEMMA RefreshDrawn ==
  ASSUME Drawn, Dom!Refresh
  PROVE  Drawn'
  <1>1. /\ dirty' = {} /\ UNCHANGED <<nodes, nextId, shadows, torn>>
        /\ render' = Dom!Composed
        /\ layout' = IF "layout" \in dirty THEN Dom!Composed ELSE layout
    BY DEF Dom!Refresh, Dom!Redrawn
  <1>2. (Dom!Composed)' = Dom!Composed
    BY <1>1 DEF Dom!Composed
  <1>3. ~torn => layout' = Dom!Composed
    BY <1>1 DEF Drawn
  <1> QED BY <1>1, <1>2, <1>3 DEF Drawn

LEMMA NextDrawn ==
  ASSUME Sound(nodes, nextId), Drawn, Dom!Next
  PROVE  Drawn'
  <1>1. CASE Dom!Refresh
    BY <1>1, RefreshDrawn
  <1>2. CASE Dom!Call
    <2>1. Dom!ElementNodes \subseteq DOMAIN nodes /\ Dom!Known \subseteq DOMAIN nodes
      BY DEF Dom!ElementNodes, Dom!Known, Dom!Live
    <2>2. ASSUME NEW tag \in Dom!Tags, Dom!Create(tag) PROVE Drawn'
      BY <2>2, CreateDrawn
    <2>3. ASSUME NEW f \in Markup, Dom!ImportTemplate(f) PROVE Drawn'
      <3>1. UNCHANGED <<shadows, render, layout>>
        BY <2>3 DEF Dom!ImportTemplate
      <3> QED BY <2>3, <3>1, ImportTemplateSound, BuildDrawn
    <2>4. ASSUME NEW n \in DOMAIN nodes, NEW deep \in BOOLEAN, Dom!CloneNode(n, deep) PROVE Drawn'
      BY <2>4, CloneDrawn
    <2>5. ASSUME NEW p \in DOMAIN nodes, NEW c \in DOMAIN nodes, Dom!AppendChild(p, c) PROVE Drawn'
      <3>1. Dom!Marked /\ UNCHANGED <<nextId, shadows>>
        BY <2>5 DEF Dom!AppendChild
      <3> QED BY <3>1, MarkedDrawn
    <2>6. ASSUME NEW p \in DOMAIN nodes, NEW c \in DOMAIN nodes, Dom!RemoveChild(p, c) PROVE Drawn'
      <3>1. Dom!Marked /\ UNCHANGED <<nextId, shadows>>
        BY <2>6 DEF Dom!RemoveChild
      <3> QED BY <3>1, MarkedDrawn
    <2>7. ASSUME NEW n \in DOMAIN nodes, NEW text \in BOOLEAN, Dom!SetTextContent(n, text) PROVE Drawn'
      <3>1. UNCHANGED <<shadows, render, layout>>
        BY <2>7 DEF Dom!SetTextContent
      <3> QED BY <2>7, <3>1, SetTextSound, BuildDrawn
    <2>8. ASSUME NEW n \in DOMAIN nodes, NEW f \in Markup, Dom!SetInnerHtml(n, f) PROVE Drawn'
      <3>1. UNCHANGED <<shadows, render, layout>>
        BY <2>8 DEF Dom!SetInnerHtml
      <3> QED BY <2>8, <3>1, SetInnerHtmlSound, BuildDrawn
    <2>9. ASSUME NEW n \in DOMAIN nodes, Dom!SetSlot(n) PROVE Drawn'
      BY <2>9, SetSlotDrawn
    <2>10. ASSUME NEW n \in DOMAIN nodes, NEW stages \in Dom!AttributeStages,
                  Dom!SetAttribute(n, stages)
           PROVE  Drawn'
      BY <2>10, SetAttributeDrawn
    <2>11. ASSUME NEW h \in DOMAIN nodes, Dom!AttachShadow(h) PROVE Drawn'
      BY <2>11, AttachShadowDrawn
    <2> QED BY <1>2, <2>1, <2>2, <2>3, <2>4, <2>5, <2>6, <2>7, <2>8, <2>9, <2>10, <2>11 DEF Dom!Call
  <1> QED BY <1>1, <1>2 DEF Dom!Next

LEMMA InitDrawn ==
  ASSUME Dom!Init
  PROVE  Drawn
  <1>1. nextId = 2 /\ Dom!Root = 1 /\ dirty = {} /\ render = Dom!Composed /\ layout = Dom!Composed
    BY DEF Dom!Init, Dom!Root
  <1> DEFINE e == << >>
  <1>2. shadows = e /\ DOMAIN e = {}
    BY DEF Dom!Init
  <1> HIDE DEF e
  <1>3. ShadowsKnown(shadows, nextId)
    BY <1>2 DEF ShadowsKnown
  <1> QED BY <1>1, <1>3 DEF Drawn

LEMMA DrawnAlways == Dom!Spec => [](Sound(nodes, nextId) /\ Drawn)
  <1>1. Dom!Init => Drawn
    BY InitDrawn
  <1>2. Sound(nodes, nextId) /\ Drawn /\ [Dom!Next]_(Dom!vars) => Drawn'
    <2>1. ASSUME Sound(nodes, nextId), Drawn, UNCHANGED Dom!vars PROVE Drawn'
      BY <2>1 DEF Dom!vars, Drawn, Dom!Composed, ShadowsKnown
    <2> QED BY <2>1, NextDrawn
  <1> QED BY <1>1, <1>2, SoundAlways, PTL DEF Dom!Spec

(* Without a dirty flag, the element tree of the last refresh and the tree *)
(* under the retained layout are the composed tree, whatever calls were    *)
(* made since, unless one failed half-way or gave a child to another slot: *)
(* mark_mutated and mark_attribute_mutated say enough, and the nodes that  *)
(* raise no flag are not in the tree to_element exports.                   *)
THEOREM DrawnIsCurrent == Dom!Spec => []RenderIsCurrent
  <1>1. Drawn => RenderIsCurrent
    BY DEF Drawn, RenderIsCurrent, Dom!RenderIsCurrent
  <1> QED BY <1>1, DrawnAlways, PTL
=============================================================================
