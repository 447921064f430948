--------------------------- MODULE EngineStateProofs ---------------------------
(***************************************************************************)
(* Handles, the collector and the totals of the heap, for any number of    *)
(* slots, names and values; promises, for any number of addresses and any  *)
(* limits; and the cached styles, for any tree and any sheet whose rules   *)
(* the fingerprint covers.                                                 *)
(***************************************************************************)
EXTENDS EngineState, DataLemmas

(* TypeOK without the byte totals.                                         *)
ShapeOK == /\ size \in 2..MaxObjects
           /\ generation \in [Slots -> Generations]
           /\ object \in [Slots -> Objects \cup {None}]
           /\ free \subseteq Slots
           /\ phase \in {"mutate", "mark"}
           /\ marked \subseteq Slots /\ pending \subseteq Handles
           /\ issued \subseteq Handles /\ IsFiniteSet(issued)
           /\ allocations \in Nat /\ collections \in Nat

LiveCount == liveObjects = Cardinality(Live)

(* No generation has wrapped yet, nor will it at the end of the running    *)
(* collection.                                                             *)
GenerationBound == /\ collections <= MaxCollections
                   /\ \A s \in Slots : /\ generation[s] <= collections
                                       /\ phase = "mark" => generation[s] < collections

(* A handle is no newer than its slot, and one of the slot's generation    *)
(* belongs to an object that is still there.                               *)
IssuedOld == \A h \in issued :
               /\ h.generation <= generation[h.slot]
               /\ h.generation = generation[h.slot] => h.slot \in Live

HeapInv == ShapeOK /\ FreeListExact /\ LiveCount /\ GenerationBound /\ IssuedOld /\ HandlesUnique
-----------------------------------------------------------------------------
LEMMA SlotsFinite == /\ IsFiniteSet(Slots) /\ Cardinality(Slots) = MaxObjects
                     /\ \A T \in SUBSET Slots : IsFiniteSet(T) /\ Cardinality(T) \in Nat
  <1>1. 1 \in Int /\ MaxObjects \in Int /\ ~(1 > MaxObjects) /\ MaxObjects - 1 + 1 = MaxObjects
    BY HeapAssumption
  <1>2. IsFiniteSet(Slots) /\ Cardinality(Slots) = MaxObjects
    BY <1>1, FS_Interval DEF Slots
  <1> QED BY <1>2, FS_Subset, FS_CardinalityType

LEMMA HandleFields == /\ \A h \in Handles : h.slot \in Slots /\ h.generation \in Generations
                      /\ Global \in Handles /\ Document \in Handles /\ Global # Document
                      /\ \A g \in Generations : g \in Nat
  BY HeapAssumption DEF Handles, Slots, Generations, Global, Document

LEMMA FreshIsObject == Fresh \in Objects /\ Fresh # None
  BY NoneIsNoObject DEF Fresh, NoProperties, Objects

LEMMA InitHeap == Init => HeapInv
  <1> SUFFICES ASSUME Init PROVE HeapInv
    OBVIOUS
  <1>1. 1 \in Slots /\ 2 \in Slots /\ 0 \in Generations
    BY HeapAssumption DEF Slots, Generations
  <1>o. object[1] \in Objects /\ object[2] \in Objects
    <2> DEFINE linked == [NoProperties EXCEPT ![DocumentName] = Document, ![WindowName] = Global]
    <2>1. Document \in Values /\ Global \in Values
      BY HandleFields DEF Values
    <2>2. linked \in [Names -> Values \cup {None}]
      BY <2>1, HeapAssumption DEF NoProperties
    <2> HIDE DEF linked
    <2>3. [Fresh EXCEPT !.properties = linked] \in Objects
      BY <2>2 DEF Fresh, NoProperties, Objects
    <2>4. object[1] = [Fresh EXCEPT !.properties = linked] /\ object[2] = Fresh
      BY <1>1 DEF Init, linked
    <2> QED BY <2>3, <2>4, FreshIsObject
  <1>2. Live = {1, 2}
    <2>1. \A s \in Slots \ {1, 2} : object[s] = None
      BY DEF Init
    <2> QED BY <1>1, <1>o, <2>1, NoneIsNoObject DEF Live
  <1>3. object \in [Slots -> Objects \cup {None}]
    BY <1>1, <1>o DEF Init
  <1>4. IsFiniteSet(issued) /\ Cardinality(issued) = 2 /\ issued \subseteq Handles
    <2>1. IsFiniteSet({Global}) /\ Cardinality({Global}) = 1
      BY FS_Singleton
    <2>2. issued = {Global} \cup {Document} /\ Document \notin {Global}
      BY HandleFields DEF Init, Roots
    <2> QED BY <2>1, <2>2, FS_AddElement, HandleFields
  <1>5. Cardinality({1, 2}) = 2
    <2>1. IsFiniteSet({1}) /\ Cardinality({1}) = 1
      BY FS_Singleton
    <2>2. {1, 2} = {1} \cup {2} /\ 2 \notin {1}
      OBVIOUS
    <2> QED BY <2>1, <2>2, FS_AddElement
  <1>6. ShapeOK
    BY <1>1, <1>3, <1>4, HeapAssumption DEF ShapeOK, Init
  <1>7. FreeListExact
    BY <1>2 DEF FreeListExact, Init
  <1>8. LiveCount /\ GenerationBound /\ HandlesUnique
    BY <1>2, <1>4, <1>5, HeapAssumption DEF LiveCount, GenerationBound, HandlesUnique, Init
  <1>9. IssuedOld
    BY <1>1, <1>2 DEF IssuedOld, Init, Roots, Global, Document
  <1> QED BY <1>6, <1>7, <1>8, <1>9 DEF HeapInv
-----------------------------------------------------------------------------
(* Writing into a live object changes neither the slots nor who lives.     *)
LEMMA WriteHeap ==
  ASSUME HeapInv, NEW h \in issued, Resolves(h), NEW o \in Objects,
         object' = [object EXCEPT ![h.slot] = o],
         UNCHANGED <<size, generation, free, liveObjects, history, collector>>
  PROVE  HeapInv'
  <1>1. h.slot \in Slots /\ o # None
    BY HandleFields, NoneIsNoObject DEF HeapInv, ShapeOK
  <1>2. Live' = Live
    BY <1>1 DEF HeapInv, ShapeOK, Live, Resolves
  <1>3. ShapeOK'
    BY <1>1 DEF HeapInv, ShapeOK, history, collector
  <1>4. FreeListExact' /\ LiveCount'
    BY <1>2 DEF HeapInv, FreeListExact, LiveCount
  <1>5. GenerationBound' /\ HandlesUnique'
    BY DEF HeapInv, GenerationBound, HandlesUnique, history, collector
  <1>6. IssuedOld'
    BY <1>2 DEF HeapInv, IssuedOld, history
  <1> QED BY <1>3, <1>4, <1>5, <1>6 DEF HeapInv

LEMMA ResolvesObject ==
  ASSUME HeapInv, NEW h \in issued, Resolves(h)
  PROVE  h.slot \in Slots /\ object[h.slot] \in Objects
  BY HandleFields DEF HeapInv, ShapeOK, Resolves

LEMMA SetPrototypeHeap ==
  ASSUME HeapInv, NEW h \in issued, NEW p \in issued \cup {None}, SetPrototype(h, p)
  PROVE  HeapInv'
  <1> DEFINE o == [object[h.slot] EXCEPT !.prototype = p]
  <1>1. Resolves(h) /\ h.slot \in Slots /\ object[h.slot] \in Objects
    BY ResolvesObject DEF SetPrototype
  <1>2. p \in Handles \cup {None}
    BY DEF HeapInv, ShapeOK
  <1>3. o \in Objects
    BY <1>1, <1>2 DEF Objects
  <1>4. object' = [object EXCEPT ![h.slot] = o]
    BY <1>1 DEF SetPrototype
  <1>5. UNCHANGED <<size, generation, free, liveObjects, history, collector>>
    BY DEF SetPrototype
  <1> HIDE DEF o
  <1> QED BY <1>1, <1>3, <1>4, <1>5, WriteHeap

LEMMA PropertyHeap ==
  ASSUME HeapInv, NEW h \in issued, NEW n \in Names, NEW v \in Values \cup {None},
         Resolves(h),
         object' = [object EXCEPT ![h.slot].properties[n] = v],
         UNCHANGED <<size, generation, free, liveObjects, history, collector>>
  PROVE  HeapInv'
  <1> DEFINE ps == [object[h.slot].properties EXCEPT ![n] = v]
             o == [object[h.slot] EXCEPT !.properties = ps]
  <1>1. h.slot \in Slots /\ object[h.slot] \in Objects
    BY ResolvesObject
  <1>2. ps \in [Names -> Values \cup {None}]
    BY <1>1 DEF Objects
  <1>3. object' = [object EXCEPT ![h.slot] = o]
    BY <1>1
  <1> HIDE DEF ps
  <1>4. o \in Objects
    BY <1>1, <1>2 DEF Objects
  <1> HIDE DEF o
  <1> QED BY <1>3, <1>4, WriteHeap

LEMMA AllocateHeap ==
  ASSUME HeapInv, NEW s \in Slots, Allocate(s)
  PROVE  HeapInv' /\ s \notin Live
  <1> DEFINE h == [slot |-> s, generation |-> generation[s]]
  <1> USE DEF HeapInv
  <1>1. /\ s \notin Live /\ s \in Slots
        /\ size' \in 2..MaxObjects /\ free' = (1..size') \ (Live \cup {s})
        /\ Live \cup {s} \subseteq 1..size'
    <2>1. CASE s \in free /\ free' = free \ {s} /\ size' = size
      BY <2>1 DEF FreeListExact, ShapeOK
    <2>2. CASE free = {} /\ s = size + 1 /\ size' = s /\ free' = free
      <3>1. s \notin Live /\ size \in 2..MaxObjects
        BY <2>2 DEF FreeListExact, ShapeOK
      <3>2. s \in 2..MaxObjects
        BY <2>2, <3>1, HeapAssumption DEF Slots
      <3> QED BY <2>2, <3>1, <3>2 DEF FreeListExact
    <2> QED BY <2>1, <2>2 DEF Allocate
  <1>2. object' \in [Slots -> Objects \cup {None}] /\ Live' = Live \cup {s}
    BY <1>1, FreshIsObject DEF ShapeOK, Allocate, Live
  <1>3. h \in Handles /\ h \notin issued
    <2>1. h \in Handles /\ h.slot = s /\ h.generation = generation[s]
      BY DEF Handles, ShapeOK
    <2> HIDE DEF h
    <2> QED BY <1>1, <2>1 DEF IssuedOld
  <1>4. issued' = issued \cup {h} /\ allocations' = allocations + 1
    BY DEF Allocate
  <1>5. h.slot = s /\ h.generation = generation[s]
    OBVIOUS
  <1> HIDE DEF h
  <1>6. IsFiniteSet(issued') /\ Cardinality(issued') = allocations'
    BY <1>3, <1>4, FS_AddElement DEF ShapeOK, HandlesUnique
  <1>7. ShapeOK'
    BY <1>1, <1>2, <1>3, <1>4, <1>6 DEF ShapeOK, Allocate, collector
  <1>8. FreeListExact' /\ HandlesUnique'
    BY <1>1, <1>2, <1>6 DEF FreeListExact, HandlesUnique
  <1>9. LiveCount'
    <2>1. IsFiniteSet(Live) /\ Cardinality(Live \cup {s}) = Cardinality(Live) + 1
      BY <1>1, SlotsFinite, FS_AddElement DEF Live
    <2> QED BY <1>2, <2>1 DEF LiveCount, Allocate
  <1>10. GenerationBound'
    BY DEF GenerationBound, Allocate, collector
  <1>11. IssuedOld'
    <2>1. \A g \in issued' : g \in issued \/ g = h
      BY <1>4
    <2>2. generation' = generation
      BY DEF Allocate
    <2>3. generation[s] <= generation[s]
      BY DEF ShapeOK, Generations
    <2> QED BY <1>2, <1>5, <2>1, <2>2, <2>3 DEF IssuedOld
  <1> QED BY <1>1, <1>7, <1>8, <1>9, <1>10, <1>11
-----------------------------------------------------------------------------
(* The collector.  While it marks, what is marked or still on the stack    *)
(* covers the roots and everything a marked object refers to, and lies in  *)
(* every closed set; so an empty stack leaves exactly the reachable slots. *)
MarkInv == phase = "mark" =>
             /\ marked \subseteq Live
             /\ Targets(Roots) \subseteq marked \cup Targets(pending)
             /\ \A s \in marked :
                  Targets(References(object[s])) \subseteq marked \cup Targets(pending)
             /\ \A C \in SUBSET Slots : Closed(C) => marked \cup Targets(pending) \subseteq C

LEMMA MarkStep ==
  ASSUME HeapInv, MarkInv, NEW h \in pending, Mark(h)
  PROVE  HeapInv' /\ MarkInv'
  <1>1. /\ h \in Handles /\ h.slot \in Slots /\ phase = "mark" /\ phase' = "mark"
        /\ UNCHANGED <<store, history>>
    BY HandleFields DEF Mark, HeapInv, ShapeOK
  <1>2. \A H : Targets(H)' = Targets(H)
    BY <1>1 DEF Targets, Resolves, store
  <1>3. HeapInv'
    <2>1. marked' \subseteq Slots /\ pending' \subseteq Handles
      BY <1>1 DEF Mark, HeapInv, ShapeOK, References
    <2> QED BY <1>1, <2>1 DEF HeapInv, ShapeOK, FreeListExact, LiveCount, GenerationBound,
               IssuedOld, HandlesUnique, Live, store, history
  <1>4. object' = object /\ generation' = generation
    BY <1>1 DEF store
  <1>5. CASE Resolves(h) /\ h.slot \notin marked
    <2> DEFINE R == References(object[h.slot])
    <2>1. marked' = marked \cup {h.slot} /\ pending' = (pending \ {h}) \cup R
      BY <1>5 DEF Mark
    <2> HIDE DEF R
    <2>2. /\ Targets(pending') \subseteq Targets(pending) \cup Targets(R)
          /\ Targets(R) \subseteq Targets(pending')
          /\ Targets(pending) \subseteq Targets(pending') \cup {h.slot}
          /\ h.slot \in Targets(pending)
      BY <1>5, <2>1 DEF Targets
    <2>3. h.slot \in Live
      BY <1>1, <1>5 DEF Live, Resolves
    <2>4. \A C \in SUBSET Slots : Closed(C) => marked' \cup Targets(pending') \subseteq C
      <3> SUFFICES ASSUME NEW C \in SUBSET Slots, Closed(C)
                   PROVE  marked' \cup Targets(pending') \subseteq C
        OBVIOUS
      <3>1. marked \cup Targets(pending) \subseteq C
        BY <1>1 DEF MarkInv
      <3>2. h.slot \in C \cap Live
        BY <2>2, <2>3, <3>1
      <3>3. Targets(R) \subseteq C
        BY <3>2 DEF Closed, R
      <3> QED BY <2>1, <2>2, <3>1, <3>2, <3>3
    <2>5. \A s \in marked' : Targets(References(object[s])) \subseteq marked' \cup Targets(pending')
      <3>1. \A s \in marked : Targets(References(object[s])) \subseteq marked \cup Targets(pending)
        BY <1>1 DEF MarkInv
      <3>2. Targets(References(object[h.slot])) \subseteq Targets(pending')
        BY <2>2 DEF R
      <3> QED BY <2>1, <2>2, <3>1, <3>2
    <2>6. marked' \subseteq Live /\ Targets(Roots) \subseteq marked' \cup Targets(pending')
      BY <1>1, <2>1, <2>2, <2>3 DEF MarkInv
    <2>7. /\ Live' = Live /\ Targets(pending)' = Targets(pending') /\ Targets(Roots)' = Targets(Roots)
          /\ \A s : Targets(References(object[s]))' = Targets(References(object[s]))
          /\ \A C : Closed(C)' <=> Closed(C)
      BY <1>2, <1>4 DEF Live, Targets, Resolves, Closed, References
    <2> QED BY <1>3, <2>4, <2>5, <2>6, <2>7, <1>4 DEF MarkInv
  <1>6. CASE ~Resolves(h) \/ h.slot \in marked
    <2>1. marked' = marked /\ pending' = pending \ {h}
      BY <1>6 DEF Mark
    <2>2. /\ Targets(pending') \subseteq Targets(pending)
          /\ Targets(pending) \subseteq Targets(pending') \cup marked
      BY <1>6, <2>1 DEF Targets
    <2>3. /\ Live' = Live /\ Targets(pending)' = Targets(pending') /\ Targets(Roots)' = Targets(Roots)
          /\ \A s : Targets(References(object[s]))' = Targets(References(object[s]))
          /\ \A C : Closed(C)' <=> Closed(C)
      BY <1>2, <1>4 DEF Live, Targets, Resolves, Closed, References
    <2>4. \A s \in marked : Targets(References(object[s])) \subseteq marked \cup Targets(pending')
      BY <1>1, <2>2 DEF MarkInv
    <2>5. \A C \in SUBSET Slots : Closed(C) => marked \cup Targets(pending') \subseteq C
      BY <1>1, <2>2 DEF MarkInv
    <2>6. marked \subseteq Live /\ Targets(Roots) \subseteq marked \cup Targets(pending')
      BY <1>1, <2>2 DEF MarkInv
    <2> QED BY <1>3, <1>4, <2>1, <2>3, <2>4, <2>5, <2>6 DEF MarkInv
  <1> QED BY <1>5, <1>6 DEF Mark

LEMMA BeginStep ==
  ASSUME HeapInv, BeginCollection
  PROVE  HeapInv' /\ MarkInv'
  <1>1. /\ UNCHANGED <<store, issued, allocations>> /\ collections' = collections + 1
        /\ collections < MaxCollections /\ marked' = {} /\ pending' = Roots /\ phase' = "mark"
    BY DEF BeginCollection
  <1>2. Live' = Live
    BY <1>1 DEF Live, store
  <1>3. ShapeOK'
    BY <1>1, HandleFields DEF HeapInv, ShapeOK, Roots, store
  <1>4. FreeListExact' /\ LiveCount' /\ IssuedOld' /\ HandlesUnique'
    BY <1>1, <1>2 DEF HeapInv, FreeListExact, LiveCount, IssuedOld, HandlesUnique, store
  <1>5. GenerationBound'
    <2>1. collections \in Nat /\ \A s \in Slots : generation[s] \in Nat
      BY HandleFields DEF HeapInv, ShapeOK
    <2>2. MaxCollections \in Nat
      BY HeapAssumption
    <2>3. collections' <= MaxCollections /\ \A s \in Slots : generation[s] < collections'
      BY <1>1, <2>1, <2>2 DEF HeapInv, GenerationBound
    <2>4. generation' = generation
      BY <1>1 DEF store
    <2>5. \A s \in Slots : generation[s] <= collections'
      BY <1>1, <2>1, <2>3
    <2> QED BY <2>3, <2>4, <2>5 DEF GenerationBound
  <1>6. MarkInv'
    <2>1. \A H : Targets(H)' = Targets(H)
      BY <1>1 DEF Targets, Resolves, store
    <2>2. Targets(Roots)' = Targets(pending)'
      BY <1>1 DEF Roots, Global, Document
    <2>3. \A C : Closed(C)' => Targets(Roots)' \subseteq C
      BY DEF Closed
    <2> QED BY <1>1, <2>2, <2>3 DEF MarkInv
  <1> QED BY <1>3, <1>4, <1>5, <1>6 DEF HeapInv

(* With an empty stack the marked slots are the reachable ones.            *)
LEMMA MarkedIsReachable ==
  ASSUME HeapInv, MarkInv, phase = "mark", pending = {}
  PROVE  marked = Reachable
  <1>1. Targets(pending) = {}
    BY DEF Targets
  <1>2. marked \in SUBSET Slots
    BY DEF HeapInv, ShapeOK
  <1>3. Closed(marked)
    BY <1>1 DEF MarkInv, Closed
  <1>4. \A C \in SUBSET Slots : Closed(C) => marked \subseteq C
    BY DEF MarkInv
  <1> QED BY <1>2, <1>3, <1>4 DEF Reachable

LEMMA SweepStep ==
  ASSUME HeapInv, MarkInv, Sweep
  PROVE  /\ HeapInv' /\ MarkInv'
         /\ Live' = Reachable
         /\ \A s \in Reachable : object'[s] = object[s] /\ generation'[s] = generation[s]
  <1> DEFINE garbage == Live \ marked
  <1>1. /\ phase = "mark" /\ phase' = "mutate" /\ pending = {} /\ free' = free \cup garbage
        /\ object' = [s \in Slots |-> IF s \in garbage THEN None ELSE object[s]]
        /\ UNCHANGED <<size, marked, pending, history>>
        /\ liveObjects' = liveObjects - Cardinality(garbage)
    BY DEF Sweep
  <1>2. marked \subseteq Live /\ Live \subseteq Slots
    BY <1>1 DEF MarkInv, Live
  <1>3. Live' = Live \ garbage
    <2>1. \A s \in Slots : object'[s] = IF s \in garbage THEN None ELSE object[s]
      BY <1>1
    <2> QED BY <2>1 DEF Live
  <1>4. Live' = marked
    BY <1>2, <1>3
  <1>5. marked = Reachable
    BY <1>1, MarkedIsReachable
  <1>6. \A s \in Slots : generation'[s] = IF s \in garbage THEN generation[s] + 1 ELSE generation[s]
    <2>1. \A s \in Slots : generation[s] + 1 \in 0..(GenerationModulus - 1)
      <3> SUFFICES ASSUME NEW s \in Slots
                   PROVE  generation[s] + 1 \in 0..(GenerationModulus - 1)
        OBVIOUS
      <3>1. generation[s] \in Nat /\ collections \in Nat
        BY HandleFields DEF HeapInv, ShapeOK
      <3>2. generation[s] < collections /\ collections <= MaxCollections
        BY <1>1 DEF HeapInv, GenerationBound
      <3> QED BY <3>1, <3>2, HeapAssumption
    <2>2. \A k \in 0..(GenerationModulus - 1) : k % GenerationModulus = k
      BY HeapAssumption
    <2> QED BY <2>1, <2>2 DEF Sweep
  <1>7. \A s \in Slots : generation[s] \in Nat /\ generation[s] + 1 \in Generations
    <2> SUFFICES ASSUME NEW s \in Slots
                 PROVE  generation[s] \in Nat /\ generation[s] + 1 \in Generations
      OBVIOUS
    <2>1. generation[s] \in Nat /\ collections \in Nat
      BY HandleFields DEF HeapInv, ShapeOK
    <2>2. generation[s] < collections /\ collections <= MaxCollections
      BY <1>1 DEF HeapInv, GenerationBound
    <2> QED BY <2>1, <2>2, HeapAssumption DEF Generations
  <1>8. ShapeOK'
    <2>1. generation' \in [Slots -> Generations]
      <3>1. generation' = [s \in Slots |-> generation'[s]]
        BY DEF Sweep
      <3> QED BY <1>6, <1>7, <3>1 DEF HeapInv, ShapeOK
    <2>2. object' \in [Slots -> Objects \cup {None}]
      BY <1>1 DEF HeapInv, ShapeOK
    <2>3. free' \subseteq Slots
      BY <1>1, <1>2 DEF HeapInv, ShapeOK
    <2> QED BY <1>1, <2>1, <2>2, <2>3 DEF HeapInv, ShapeOK, history
  <1>9. FreeListExact'
    BY <1>1, <1>2, <1>3 DEF HeapInv, FreeListExact
  <1>10. LiveCount'
    <2>1. IsFiniteSet(Live) /\ IsFiniteSet(marked) /\ Cardinality(Live) \in Nat
          /\ Cardinality(marked) \in Nat
      BY <1>2, SlotsFinite
    <2>2. Live \cap marked = marked
      BY <1>2
    <2>3. Cardinality(garbage) = Cardinality(Live) - Cardinality(marked)
      BY <2>1, <2>2, FS_Difference
    <2> HIDE DEF garbage
    <2> QED BY <1>1, <1>4, <2>1, <2>3 DEF HeapInv, LiveCount
  <1>11. GenerationBound'
    <2>1. \A s \in Slots : generation'[s] <= collections
      BY <1>1, <1>6, <1>7 DEF HeapInv, GenerationBound, ShapeOK
    <2> QED BY <1>1, <2>1 DEF HeapInv, GenerationBound, history
  <1>12. HandlesUnique'
    BY <1>1 DEF HeapInv, HandlesUnique, history
  <1>13. IssuedOld'
    <2> SUFFICES ASSUME NEW h \in issued
                 PROVE  /\ h.generation <= generation'[h.slot]
                        /\ h.generation = generation'[h.slot] => h.slot \in Live'
      BY <1>1 DEF IssuedOld, history
    <2>1. h.slot \in Slots /\ h.generation \in Nat
      BY HandleFields DEF HeapInv, ShapeOK
    <2>2. /\ h.generation <= generation[h.slot]
          /\ h.generation = generation[h.slot] => h.slot \in Live
      BY DEF HeapInv, IssuedOld
    <2> HIDE DEF garbage
    <2>3. CASE h.slot \in garbage
      <3>1. generation'[h.slot] = generation[h.slot] + 1 /\ generation[h.slot] \in Nat
        BY <1>6, <1>7, <2>1, <2>3
      <3> QED BY <2>1, <2>2, <3>1
    <2>4. CASE h.slot \notin garbage
      BY <1>3, <1>6, <2>1, <2>2, <2>4
    <2> QED BY <2>3, <2>4
  <1>14. \A s \in marked : object'[s] = object[s] /\ generation'[s] = generation[s]
    BY <1>1, <1>2, <1>6
  <1> QED BY <1>1, <1>4, <1>5, <1>8, <1>9, <1>10, <1>11, <1>12, <1>13, <1>14 DEF HeapInv, MarkInv
-----------------------------------------------------------------------------
LEMMA MutateStep ==
  ASSUME HeapInv, Mutate
  PROVE  HeapInv' /\ phase' = "mutate" /\ phase = "mutate"
  <1>1. issued \subseteq Values /\ Scalars \subseteq Values
    BY DEF HeapInv, ShapeOK, Values
  <1>2. ASSUME NEW s \in Slots, Allocate(s)
        PROVE  HeapInv' /\ phase' = "mutate" /\ phase = "mutate"
    BY <1>2, AllocateHeap DEF Allocate, collector
  <1>3. ASSUME NEW h \in issued, NEW p \in issued \cup {None}, SetPrototype(h, p)
        PROVE  HeapInv' /\ phase' = "mutate" /\ phase = "mutate"
    BY <1>3, SetPrototypeHeap DEF SetPrototype, collector
  <1>4. ASSUME NEW h \in issued, NEW n \in Names, NEW v \in issued \cup Scalars,
               SetProperty(h, n, v)
        PROVE  HeapInv' /\ phase' = "mutate" /\ phase = "mutate"
    <2>1. /\ Resolves(h) /\ v \in Values \cup {None}
          /\ object' = [object EXCEPT ![h.slot].properties[n] = v]
          /\ UNCHANGED <<size, generation, free, liveObjects, history, collector>>
          /\ phase = "mutate"
      BY <1>1, <1>4 DEF SetProperty
    <2>2. HeapInv'
      BY <2>1, PropertyHeap
    <2> QED BY <2>1, <2>2 DEF collector
  <1>5. ASSUME NEW h \in issued, NEW n \in Names, RemoveProperty(h, n)
        PROVE  HeapInv' /\ phase' = "mutate" /\ phase = "mutate"
    <2>1. /\ Resolves(h) /\ None \in Values \cup {None}
          /\ object' = [object EXCEPT ![h.slot].properties[n] = None]
          /\ UNCHANGED <<size, generation, free, liveObjects, history, collector>>
          /\ phase = "mutate"
      BY <1>5 DEF RemoveProperty
    <2>2. HeapInv'
      BY <2>1, PropertyHeap
    <2> QED BY <2>1, <2>2 DEF collector
  <1> QED BY <1>2, <1>3, <1>4, <1>5 DEF Mutate

Swept == phase = "mark" /\ phase' = "mutate" =>
           /\ Live' = Reachable
           /\ \A s \in Reachable : object'[s] = object[s] /\ generation'[s] = generation[s]

LEMMA InitMark == Init => MarkInv
  BY DEF Init, MarkInv

LEMMA NextHeap == HeapInv /\ MarkInv /\ [Next]_vars => HeapInv' /\ MarkInv' /\ Swept
  <1> SUFFICES ASSUME HeapInv, MarkInv, [Next]_vars PROVE HeapInv' /\ MarkInv' /\ Swept
    OBVIOUS
  <1>1. CASE Mutate
    BY <1>1, MutateStep DEF MarkInv, Swept
  <1>2. CASE BeginCollection
    <2>1. phase' = "mark"
      BY <1>2 DEF BeginCollection
    <2> QED BY <1>2, <2>1, BeginStep DEF Swept
  <1>3. ASSUME NEW h \in pending, Mark(h)
        PROVE  HeapInv' /\ MarkInv' /\ Swept
    <2>1. phase' = phase
      BY <1>3 DEF Mark
    <2> QED BY <1>3, <2>1, MarkStep DEF Swept
  <1>4. CASE Sweep
    BY <1>4, SweepStep DEF Swept
  <1>5. CASE UNCHANGED vars
    <2>1. HeapInv'
      BY <1>5 DEF HeapInv, ShapeOK, FreeListExact, LiveCount, GenerationBound, IssuedOld,
         HandlesUnique, Live, vars
    <2>2. MarkInv'
      BY <1>5 DEF MarkInv, Live, Targets, Resolves, References, Closed, vars
    <2>3. phase' = phase
      BY <1>5 DEF vars
    <2> QED BY <2>1, <2>2, <2>3 DEF Swept
  <1> QED BY <1>1, <1>2, <1>3, <1>4, <1>5 DEF Next, Collect

LEMMA HeapAlways == Spec => [](HeapInv /\ MarkInv)
  <1>1. Init => HeapInv /\ MarkInv
    BY InitHeap, InitMark
  <1>2. (HeapInv /\ MarkInv) /\ [Next]_vars => (HeapInv /\ MarkInv)'
    BY NextHeap
  <1> QED BY <1>1, <1>2, PTL DEF Spec

(* The free list is exactly the empty slots of the vector, after any       *)
(* sequence of allocate() and collect_garbage() calls.                     *)
LEMMA FreeListSafety == Spec => []FreeListExact
  <1>1. HeapInv => FreeListExact
    BY DEF HeapInv
  <1> QED BY <1>1, HeapAlways, PTL

(* allocate() never returns a handle it returned before, as long as no     *)
(* generation wraps (fewer collections than the modulus).                  *)
LEMMA HandleSafety == Spec => []HandlesUnique
  <1>1. HeapInv => HandlesUnique
    BY DEF HeapInv
  <1> QED BY <1>1, HeapAlways, PTL

(* The two together, for any heap size and any sequence of allocate() and  *)
(* collect_garbage() calls.                                                *)
THEOREM SlotSafety == Spec => []SlotsSound
  <1>1. FreeListExact /\ HandlesUnique => SlotsSound
    BY DEF SlotsSound
  <1> QED BY <1>1, FreeListSafety, HandleSafety, PTL

(* A handle whose object was reclaimed never resolves again: a handle of   *)
(* the slot's generation belongs to an object that is there.               *)
THEOREM StaleHandles == Spec => []IssuedOld
  <1>1. HeapInv => IssuedOld
    BY DEF HeapInv
  <1> QED BY <1>1, HeapAlways, PTL

(* collect_garbage keeps exactly what is reachable from the roots, for     *)
(* every object graph and every order of the mark stack.                   *)
THEOREM CollectorSafety == Spec => CollectsExactlyGarbage
  <1>1. HeapInv /\ MarkInv /\ [Next]_vars => [Swept]_vars
    BY NextHeap
  <1>2. [][Swept]_vars <=> CollectsExactlyGarbage
    BY DEF Swept, CollectsExactlyGarbage
  <1> QED BY <1>1, <1>2, HeapAlways, PTL DEF Spec
-----------------------------------------------------------------------------
(* The totals.                                                             *)
(* What each property of an object adds to its bytes.                      *)
Shares(o) == [n \in Names |-> IF o.properties[n] = None THEN 0 ELSE Cost(o.properties[n])]

(* The totals are exact, and there is something to count.                  *)
Books == /\ bytes \in [Slots -> Nat] /\ usedBytes \in Nat
         /\ \A s \in Live : IsFiniteSet(Properties(object[s]))
         /\ Accounting

LEMMA CostsAreNatural ==
  /\ \A v \in Values : Cost(v) \in Nat
  /\ \A o \in Objects : \A n \in Names : Shares(o)[n] \in Nat
  <1>1. \A v \in Values : Cost(v) \in Nat
    BY HeapAssumption DEF Cost, Values
  <1>2. \A o \in Objects : \A n \in Names : o.properties[n] \in Values \cup {None}
    BY DEF Objects
  <1> QED BY <1>1, <1>2 DEF Shares

LEMMA TotalIsSum == \A f, S : Total(f, S) = Sum(f, S)
  BY DEF Total, Sum

LEMMA ObjectSum ==
  ASSUME NEW o, IsFiniteSet(Properties(o))
  PROVE  ObjectBytes(o) = ObjectBase + Sum(Shares(o), Properties(o))
  <1> DEFINE P == Properties(o)
  <1>1. \A n \in P : Costs(o)[n] = Shares(o)[n]
    BY DEF Properties, Costs, Shares
  <1> HIDE DEF P
  <1>2. Sum(Costs(o), P) = Sum(Shares(o), P)
    <2>1. IsFiniteSet(P)
      BY DEF P
    <2> QED BY <1>1, <2>1, SumAgree
  <1> QED BY <1>2, TotalIsSum DEF ObjectBytes, P

(* One property written, or cleared with None.                             *)
LEMMA WriteCost ==
  ASSUME NEW o \in Objects, IsFiniteSet(Properties(o)), NEW n \in Names,
         NEW v \in Values \cup {None}, NEW p \in Objects,
         p.properties = [o.properties EXCEPT ![n] = v]
  PROVE  /\ IsFiniteSet(Properties(p))
         /\ ObjectBytes(o) \in Nat /\ Shares(o)[n] \in Nat /\ Shares(o)[n] <= ObjectBytes(o)
         /\ ObjectBytes(p) = ObjectBytes(o) - Shares(o)[n] + Shares(p)[n]
  <1> DEFINE N == Properties(o) \cup {n}
  <1>1. IsFiniteSet(N)
    BY FS_AddElement
  <1>2. o.properties \in [Names -> Values \cup {None}]
    BY DEF Objects
  <1>3. Properties(p) \subseteq N /\ Properties(o) \subseteq N /\ N \subseteq Names
    BY <1>2 DEF Properties
  <1>4. IsFiniteSet(Properties(p))
    BY <1>1, <1>3, FS_Subset
  <1>5. /\ \A x \in N : Shares(o)[x] \in Nat /\ Shares(p)[x] \in Nat
        /\ \A x \in N \ {n} : Shares(p)[x] = Shares(o)[x]
    <2>1. \A x \in Names \ {n} : p.properties[x] = o.properties[x]
      BY <1>2
    <2> QED BY <1>3, <2>1, CostsAreNatural DEF Shares
  <1>6. Sum(Shares(p), N) = Sum(Shares(o), N) - Shares(o)[n] + Shares(p)[n]
    <2> HIDE DEF N
    <2>1. n \in N
      BY DEF N
    <2> QED BY <1>1, <1>5, <2>1, SumChanged
  <1>7. ASSUME NEW q \in {o, p}
        PROVE  Sum(Shares(q), N) = Sum(Shares(q), Properties(q)) /\ Sum(Shares(q), N) \in Nat
    <2>1. \A x \in N : Shares(q)[x] \in Nat
      BY <1>5
    <2>2. Sum(Shares(q), N) = Shares(q)[n] + Sum(Shares(q), N \ {n}) /\ Sum(Shares(q), N) \in Nat
      <3> HIDE DEF N
      <3>1. n \in N
        BY DEF N
      <3> QED BY <1>1, <2>1, <3>1, SumStep
    <2>3. CASE n \in Properties(q)
      <3>1. Properties(q) = N
        BY <1>2, <2>3 DEF Properties
      <3> QED BY <2>2, <3>1
    <2>4. CASE n \notin Properties(q)
      <3>1. Properties(q) = N \ {n}
        BY <1>2, <2>4 DEF Properties
      <3>2. Shares(q)[n] = 0
        BY <2>4 DEF Shares, Properties
      <3>3. IsFiniteSet(N \ {n}) /\ \A x \in N \ {n} : Shares(q)[x] \in Nat
        BY <1>1, <2>1, FS_RemoveElement
      <3>4. Sum(Shares(q), N \ {n}) \in Nat
        <4> DEFINE R == N \ {n}
        <4> HIDE DEF R
        <4>1. IsFiniteSet(R) /\ \A x \in R : Shares(q)[x] \in Nat
          BY <3>3 DEF R
        <4>2. Sum(Shares(q), R) \in Nat
          BY <4>1, SumStep
        <4> QED BY <4>2 DEF R
      <3> QED BY <2>2, <3>1, <3>2, <3>4
    <2> QED BY <2>3, <2>4
  <1>8. Shares(o)[n] <= Sum(Shares(o), N) /\ Shares(o)[n] \in Nat
    <2>1. Sum(Shares(o), N) = Shares(o)[n] + Sum(Shares(o), N \ {n})
      <3> HIDE DEF N
      <3>1. n \in N
        BY DEF N
      <3> QED BY <1>1, <1>5, <3>1, SumStep
    <2>2. Sum(Shares(o), N \ {n}) \in Nat
      <3> DEFINE R == N \ {n}
      <3>1. IsFiniteSet(R) /\ \A x \in R : Shares(o)[x] \in Nat
        BY <1>1, <1>5, FS_RemoveElement
      <3> HIDE DEF R
      <3>2. Sum(Shares(o), R) \in Nat
        BY <3>1, SumStep
      <3> QED BY <3>2 DEF R
    <2>3. Shares(o)[n] \in Nat
      BY <1>5
    <2> QED BY <2>1, <2>2, <2>3
  <1>9. /\ ObjectBytes(o) = ObjectBase + Sum(Shares(o), N)
        /\ ObjectBytes(p) = ObjectBase + Sum(Shares(p), N)
        /\ Sum(Shares(o), N) \in Nat /\ Sum(Shares(p), N) \in Nat /\ Shares(p)[n] \in Nat
    BY <1>4, <1>5, <1>7, ObjectSum
  <1> HIDE DEF N
  <1> QED BY <1>4, <1>6, <1>8, <1>9, HeapAssumption

-----------------------------------------------------------------------------
(* Any change to one object, with the difference of its bytes booked.      *)
LEMMA RebookOne ==
  ASSUME HeapInv, Books, NEW s \in Slots, NEW o \in Objects, NEW k \in Nat,
         Live' = Live \cup {s}, IsFiniteSet(Properties(o)), ObjectBytes(o) = k,
         object' = [object EXCEPT ![s] = o],
         bytes' = [bytes EXCEPT ![s] = k],
         usedBytes' = usedBytes - bytes[s] + k,
         usedBytes' <= MaxHeapBytes,
         liveObjects' = Cardinality(Live')
  PROVE  Books'
  <1>1. /\ object \in [Slots -> Objects \cup {None}] /\ bytes \in [Slots -> Nat]
        /\ usedBytes \in Nat /\ usedBytes = Sum(bytes, Slots)
    BY TotalIsSum DEF HeapInv, ShapeOK, Books, Accounting
  <1>2. bytes' \in [Slots -> Nat] /\ bytes'[s] = k /\ \A t \in Slots \ {s} : bytes'[t] = bytes[t]
    BY <1>1
  <1>3. PICK b : b = bytes'
    OBVIOUS
  <1>4. usedBytes' = Sum(b, Slots) /\ usedBytes' \in Nat
    <2>0. /\ \A x \in Slots : bytes[x] \in Nat
          /\ b[s] \in Nat /\ \A y \in Slots \ {s} : b[y] = bytes[y]
      BY <1>1, <1>2, <1>3
    <2>1. Sum(b, Slots) = Sum(bytes, Slots) - bytes[s] + b[s]
      BY <2>0, SlotsFinite, SumChanged
    <2>2. Sum(b, Slots) \in Nat
      BY <1>2, <1>3, SlotsFinite, SumStep
    <2> QED BY <1>1, <1>2, <1>3, <2>1, <2>2
  <1>6. usedBytes' = Total(bytes', Slots)
    BY <1>3, <1>4, TotalIsSum
  <1>7. object'[s] = o /\ \A t \in Slots \ {s} : object'[t] = object[t]
    BY <1>1
  <1>8. \A t \in Live' : IsFiniteSet(Properties(object'[t]))
    BY <1>7 DEF Books, Live
  <1>9. \A t \in Slots : bytes'[t] = IF t \in Live' THEN ObjectBytes(object'[t]) ELSE 0
    <2> SUFFICES ASSUME NEW t \in Slots
                 PROVE  bytes'[t] = IF t \in Live' THEN ObjectBytes(object'[t]) ELSE 0
      OBVIOUS
    <2>1. CASE t = s
      BY <1>2, <1>7, <2>1
    <2>2. CASE t # s
      BY <1>2, <1>7, <2>2 DEF Books, Accounting
    <2> QED BY <2>1, <2>2
  <1>10. Accounting'
    BY <1>6, <1>9 DEF Accounting, ObjectBytes, Costs, Properties
  <1> QED BY <1>2, <1>4, <1>8, <1>10 DEF Books, Properties

LEMMA PropertyBooks ==
  ASSUME HeapInv, Books, NEW h \in issued, NEW n \in Names, NEW v \in Values \cup {None}, NEW c,
         Resolves(h), c = IF v = None THEN 0 ELSE Cost(v),
         object' = [object EXCEPT ![h.slot].properties[n] = v],
         bytes' = [bytes EXCEPT ![h.slot] = @ - OldCost(h, n) + c],
         usedBytes' = usedBytes - OldCost(h, n) + c,
         usedBytes' <= MaxHeapBytes,
         UNCHANGED liveObjects
  PROVE  Books'
  <1> DEFINE s == h.slot
             o == object[s]
             p == [o EXCEPT !.properties = [o.properties EXCEPT ![n] = v]]
  <1>1. s \in Slots /\ o \in Objects /\ s \in Live
    BY ResolvesObject DEF Live, Resolves
  <1>2. p \in Objects /\ p.properties = [o.properties EXCEPT ![n] = v] /\ object' = [object EXCEPT ![s] = p]
    <2>1. [o.properties EXCEPT ![n] = v] \in [Names -> Values \cup {None}]
      BY <1>1 DEF Objects
    <2> QED BY <1>1, <2>1 DEF Objects
  <1>3. OldCost(h, n) = Shares(o)[n]
    BY DEF OldCost, Shares
  <1>4. Shares(p)[n] = c
    <2>1. p.properties[n] = v
      BY <1>1, <1>2 DEF Objects
    <2> HIDE DEF p
    <2> QED BY <2>1 DEF Shares
  <1>5. IsFiniteSet(Properties(o)) /\ bytes[s] = ObjectBytes(o) /\ bytes \in [Slots -> Nat]
    BY <1>1 DEF Books, Accounting
  <1> HIDE DEF p, o
  <1>6. /\ IsFiniteSet(Properties(p))
        /\ ObjectBytes(o) \in Nat /\ Shares(o)[n] \in Nat /\ Shares(o)[n] <= ObjectBytes(o)
        /\ ObjectBytes(p) = ObjectBytes(o) - Shares(o)[n] + Shares(p)[n]
    BY <1>1, <1>2, <1>5, WriteCost
  <1>7. c \in Nat
    BY CostsAreNatural
  <1>8. ObjectBytes(p) \in Nat
    BY <1>4, <1>6, <1>7
  <1>9. bytes' = [bytes EXCEPT ![s] = ObjectBytes(p)]
    BY <1>1, <1>3, <1>4, <1>5, <1>6
  <1>10. usedBytes \in Nat /\ usedBytes' = usedBytes - bytes[s] + ObjectBytes(p)
    <2>1. usedBytes \in Nat /\ usedBytes' = usedBytes - Shares(o)[n] + c
      BY <1>3 DEF Books
    <2> QED BY <1>4, <1>5, <1>6, <1>7, <2>1
  <1>11. Live' = Live \cup {s} /\ liveObjects' = Cardinality(Live')
    <2>1. Live' = Live
      BY <1>1, <1>2, NoneIsNoObject DEF HeapInv, ShapeOK, Live
    <2> QED BY <1>1, <2>1 DEF HeapInv, LiveCount
  <1> QED BY <1>1, <1>2, <1>6, <1>8, <1>9, <1>10, <1>11, RebookOne

LEMMA SetPrototypeBooks ==
  ASSUME HeapInv, Books, NEW h \in issued, NEW p \in issued \cup {None}, SetPrototype(h, p)
  PROVE  Books'
  <1> DEFINE s == h.slot
             o == object[s]
             q == [o EXCEPT !.prototype = p]
  <1>1. s \in Slots /\ o \in Objects /\ s \in Live
    BY ResolvesObject DEF Live, Resolves, SetPrototype
  <1>2. q \in Objects /\ q.properties = o.properties /\ object' = [object EXCEPT ![s] = q]
    BY <1>1 DEF Objects, SetPrototype, HeapInv, ShapeOK
  <1> HIDE DEF q
  <1>3. Properties(q) = Properties(o) /\ ObjectBytes(q) = ObjectBytes(o)
    BY <1>2 DEF Properties, ObjectBytes, Costs
  <1>4. /\ IsFiniteSet(Properties(q)) /\ bytes[s] = ObjectBytes(q) /\ bytes \in [Slots -> Nat]
        /\ usedBytes \in Nat /\ usedBytes <= MaxHeapBytes
    BY <1>1, <1>3 DEF Books, Accounting
  <1>5. bytes[s] \in Nat /\ bytes' = [bytes EXCEPT ![s] = bytes[s]] /\ usedBytes' = usedBytes
    BY <1>1, <1>4 DEF SetPrototype
  <1>6. usedBytes' = usedBytes - bytes[s] + bytes[s]
    BY <1>4, <1>5
  <1>7. Live' = Live \cup {s} /\ liveObjects' = Cardinality(Live')
    <2>1. Live' = Live
      BY <1>1, <1>2, NoneIsNoObject DEF HeapInv, ShapeOK, Live
    <2> QED BY <1>1, <2>1 DEF HeapInv, LiveCount, SetPrototype
  <1> QED BY <1>1, <1>2, <1>4, <1>5, <1>6, <1>7, RebookOne

LEMMA EmptyObject ==
  ASSUME NEW o, Properties(o) = {}
  PROVE  IsFiniteSet(Properties(o)) /\ ObjectBytes(o) = ObjectBase
  <1>1. IsFiniteSet(Properties(o))
    BY FS_EmptySet
  <1>2. Sum(Shares(o), Properties(o)) = 0
    BY SumEmpty
  <1>3. ObjectBytes(o) = ObjectBase + Sum(Shares(o), Properties(o))
    BY <1>1, ObjectSum
  <1>4. ObjectBase \in Nat
    BY HeapAssumption
  <1> QED BY <1>1, <1>2, <1>3, <1>4

LEMMA FreshIsEmpty == Properties(Fresh) = {}
  BY DEF Properties, Fresh, NoProperties

LEMMA AllocateBooks ==
  ASSUME HeapInv, Books, NEW s \in Slots, Allocate(s)
  PROVE  Books'
  <1>1. HeapInv' /\ s \notin Live
    BY AllocateHeap
  <1>2. bytes[s] = 0 /\ usedBytes \in Nat
    BY <1>1 DEF Books, Accounting
  <1>3. /\ object' = [object EXCEPT ![s] = Fresh] /\ bytes' = [bytes EXCEPT ![s] = ObjectBase]
        /\ usedBytes' = usedBytes - bytes[s] + ObjectBase /\ usedBytes' <= MaxHeapBytes
        /\ ObjectBase \in Nat
    BY <1>2, HeapAssumption DEF Allocate
  <1>4. Live' = Live \cup {s}
    BY <1>3, FreshIsObject DEF HeapInv, ShapeOK, Live
  <1>5. liveObjects' = Cardinality(Live')
    BY <1>1 DEF HeapInv, LiveCount
  <1>6. IsFiniteSet(Properties(Fresh)) /\ ObjectBytes(Fresh) = ObjectBase
    BY FreshIsEmpty, EmptyObject
  <1> QED BY <1>3, <1>4, <1>5, <1>6, FreshIsObject, RebookOne

LEMMA SweepBooks ==
  ASSUME HeapInv, MarkInv, Books, Sweep
  PROVE  Books'
  <1> DEFINE garbage == Live \ marked
  <1>1. /\ garbage \in SUBSET Slots /\ bytes \in [Slots -> Nat]
        /\ usedBytes \in Nat /\ usedBytes = Sum(bytes, Slots)
    BY TotalIsSum DEF Books, Accounting, Live
  <1>2. /\ object' = [s \in Slots |-> IF s \in garbage THEN None ELSE object[s]]
        /\ bytes' = [s \in Slots |-> IF s \in garbage THEN 0 ELSE bytes[s]]
        /\ usedBytes' = usedBytes - Total(bytes, garbage)
    BY DEF Sweep
  <1>3. HeapInv'
    BY SweepStep
  <1> HIDE DEF garbage
  <1>4. bytes' \in [Slots -> Nat]
    BY <1>1, <1>2
  <1>5. usedBytes' = Sum(bytes', Slots)
    <2>1. \A s \in Slots : bytes[s] \in Nat
      BY <1>1
    <2>2. Sum(bytes', Slots) = Sum(bytes, Slots) - Sum(bytes, garbage)
      BY <1>1, <1>2, <2>1, SlotsFinite, SumCleared
    <2> QED BY <1>1, <1>2, <2>2, TotalIsSum
  <1>6. usedBytes' \in Nat
    BY <1>4, <1>5, SlotsFinite, SumStep
  <1>7. usedBytes' <= MaxHeapBytes
    <2>1. Sum(bytes, garbage) \in Nat
      <3>1. IsFiniteSet(garbage) /\ \A s \in garbage : bytes[s] \in Nat
        BY <1>1, SlotsFinite
      <3> QED BY <3>1, SumStep
    <2>2. usedBytes' = usedBytes - Sum(bytes, garbage) /\ usedBytes <= MaxHeapBytes
      BY <1>1, <1>2, TotalIsSum DEF Books, Accounting
    <2> QED BY <1>1, <2>1, <2>2, HeapAssumption
  <1>8. usedBytes' = Total(bytes', Slots)
    BY <1>5, TotalIsSum
  <1>9. Live' = Live \ garbage
    BY <1>2 DEF Live
  <1>10. \A s \in Live' : s \in Live /\ object'[s] = object[s]
    BY <1>2, <1>9 DEF Live
  <1>11. \A s \in Live' : IsFiniteSet(Properties(object'[s]))
    BY <1>10 DEF Books
  <1>12. \A t \in Slots : bytes'[t] = IF t \in Live' THEN ObjectBytes(object'[t]) ELSE 0
    BY <1>2, <1>9, <1>10 DEF Books, Accounting
  <1>13. liveObjects' = Cardinality(Live')
    BY <1>3 DEF HeapInv, LiveCount
  <1>14. Accounting'
    BY <1>7, <1>8, <1>12, <1>13 DEF Accounting, ObjectBytes, Costs, Properties
  <1> QED BY <1>4, <1>6, <1>11, <1>14 DEF Books, Properties

LEMMA InitBooks == Init => Books
  <1> SUFFICES ASSUME Init PROVE Books
    OBVIOUS
  <1> DEFINE linked == [NoProperties EXCEPT ![DocumentName] = Document, ![WindowName] = Global]
             first == [Fresh EXCEPT !.properties = [NoProperties EXCEPT ![DocumentName] = Document]]
             global == [Fresh EXCEPT !.properties = linked]
  <1>1. 1 \in Slots /\ 2 \in Slots /\ 1 # 2
    BY HeapAssumption DEF Slots
  <1>2. object[1] = global /\ object[2] = Fresh /\ \A s \in Slots \ {1, 2} : object[s] = None
    BY <1>1 DEF Init
  <1>3. /\ first \in Objects /\ global \in Objects
        /\ first.properties = [Fresh.properties EXCEPT ![DocumentName] = Document]
        /\ global.properties = [first.properties EXCEPT ![WindowName] = Global]
    <2>1. Document \in Values /\ Global \in Values /\ DocumentName \in Names /\ WindowName \in Names
      BY HandleFields, HeapAssumption DEF Values
    <2>2. NoProperties \in [Names -> Values \cup {None}]
      BY DEF NoProperties
    <2>3. linked = [[NoProperties EXCEPT ![DocumentName] = Document] EXCEPT ![WindowName] = Global]
      OBVIOUS
    <2> QED BY <2>1, <2>2, <2>3 DEF Fresh, Objects
  <1>4. /\ Document \in Values \cup {None} /\ Global \in Values \cup {None}
        /\ DocumentName \in Names /\ WindowName \in Names /\ DocumentName # WindowName
    BY HandleFields, HeapAssumption DEF Values
  <1>5. Live = {1, 2}
    BY <1>1, <1>2, <1>3, FreshIsObject, NoneIsNoObject DEF Live
  <1>6. /\ Shares(Fresh)[DocumentName] = 0 /\ Shares(first)[WindowName] = 0
        /\ Shares(first)[DocumentName] = HandleCost /\ Shares(global)[WindowName] = HandleCost
    <2>1. Fresh.properties[DocumentName] = None /\ first.properties[WindowName] = None
      BY <1>4 DEF Fresh, NoProperties
    <2>2. first.properties[DocumentName] = Document /\ global.properties[WindowName] = Global
      BY <1>4 DEF Fresh, NoProperties
    <2>3. Document # None /\ Global # None /\ Document \notin Scalars /\ Global \notin Scalars
      BY HandleFields, ValuesAssumption DEF Values
    <2> HIDE DEF first, global
    <2> QED BY <1>4, <2>1, <2>2, <2>3 DEF Shares, Cost
  <1> HIDE DEF first, global
  <1>7. ObjectBytes(Fresh) = ObjectBase /\ IsFiniteSet(Properties(Fresh))
    BY FreshIsEmpty, EmptyObject
  <1>8. ObjectBytes(first) = ObjectBase + HandleCost /\ IsFiniteSet(Properties(first))
    <2>0. PICK o \in Objects : o = Fresh
      BY FreshIsObject
    <2>1. /\ ObjectBytes(first) = ObjectBytes(o) - Shares(o)[DocumentName] + Shares(first)[DocumentName]
          /\ IsFiniteSet(Properties(first))
      <3>1. IsFiniteSet(Properties(o)) /\ first.properties = [o.properties EXCEPT ![DocumentName] = Document]
        BY <1>3, <1>7, <2>0
      <3>2. first \in Objects /\ Document \in Values \cup {None} /\ DocumentName \in Names
        BY <1>3, <1>4
      <3> QED BY <3>1, <3>2, WriteCost
    <2> QED BY <1>6, <1>7, <2>0, <2>1, HeapAssumption
  <1>9. ObjectBytes(global) = ObjectBase + 2 * HandleCost /\ IsFiniteSet(Properties(global))
    <2>1. ObjectBytes(global) = ObjectBytes(first) - Shares(first)[WindowName] + Shares(global)[WindowName]
      BY <1>3, <1>4, <1>8, WriteCost
    <2>2. IsFiniteSet(Properties(global))
      BY <1>3, <1>4, <1>8, WriteCost
    <2> QED BY <1>6, <1>8, <2>1, <2>2, HeapAssumption
  <1>10. /\ bytes \in [Slots -> Nat] /\ bytes[1] = ObjectBase + 2 * HandleCost /\ bytes[2] = ObjectBase
         /\ \A s \in Slots \ {1, 2} : bytes[s] = 0
    <2>1. ObjectBase \in Nat /\ HandleCost \in Nat /\ ObjectBase + 2 * HandleCost \in Nat
      BY HeapAssumption
    <2> QED BY <1>1, <2>1 DEF Init
  <1>11. Sum(bytes, Slots) = 2 * ObjectBase + 2 * HandleCost
    <2> DEFINE S1 == Slots \ {1}
               S2 == S1 \ {2}
               Zero == [s \in S2 |-> IF s \in S2 THEN 0 ELSE bytes[s]]
    <2>1. IsFiniteSet(S1) /\ IsFiniteSet(S2) /\ S1 \subseteq Slots /\ S2 \subseteq Slots /\ 2 \in S1
      BY <1>1, SlotsFinite, FS_RemoveElement
    <2>2. \A s \in S2 : bytes[s] = 0 /\ Zero[s] = bytes[s] /\ bytes[s] \in Nat
      BY <1>10
    <2>3. Sum(bytes, Slots) = bytes[1] + Sum(bytes, S1)
      BY <1>1, <1>10, SlotsFinite, SumStep
    <2> HIDE DEF S1
    <2>4. Sum(bytes, S1) = bytes[2] + Sum(bytes, S2)
      BY <1>10, <2>1, SumStep
    <2> HIDE DEF S2
    <2>5. Sum(Zero, S2) = Sum(bytes, S2) - Sum(bytes, S2)
      BY <2>1, <2>2, SumCleared
    <2>6. Sum(Zero, S2) = Sum(bytes, S2)
      <3> HIDE DEF Zero
      <3> QED BY <2>1, <2>2, SumAgree
    <2>7. Sum(bytes, S2) \in Nat
      BY <2>1, <2>2, SumStep
    <2> HIDE DEF Zero
    <2>8. Sum(bytes, S2) = 0
      BY <2>5, <2>6, <2>7
    <2> QED BY <1>10, <2>3, <2>4, <2>8, HeapAssumption
  <1>12. usedBytes = Sum(bytes, Slots) /\ usedBytes \in Nat /\ usedBytes <= MaxHeapBytes
    BY <1>11, HeapAssumption DEF Init
  <1>13. liveObjects = Cardinality(Live)
    BY InitHeap DEF HeapInv, LiveCount
  <1>14. \A s \in Slots : bytes[s] = IF s \in Live THEN ObjectBytes(object[s]) ELSE 0
    BY <1>1, <1>2, <1>5, <1>7, <1>9, <1>10
  <1>15. \A s \in Live : IsFiniteSet(Properties(object[s]))
    BY <1>2, <1>5, <1>7, <1>9
  <1> QED BY <1>10, <1>12, <1>13, <1>14, <1>15, TotalIsSum DEF Books, Accounting

LEMMA NextBooks == HeapInv /\ MarkInv /\ Books /\ [Next]_vars => Books'
  <1> SUFFICES ASSUME HeapInv, MarkInv, Books, [Next]_vars PROVE Books'
    OBVIOUS
  <1>1. ASSUME NEW s \in Slots, Allocate(s) PROVE Books'
    BY <1>1, AllocateBooks
  <1>2. ASSUME NEW h \in issued, NEW p \in issued \cup {None}, SetPrototype(h, p) PROVE Books'
    BY <1>2, SetPrototypeBooks
  <1>3. ASSUME NEW h \in issued, NEW n \in Names, NEW v \in issued \cup Scalars,
               SetProperty(h, n, v)
        PROVE  Books'
    <2>1. v \in Values /\ v # None
      BY ValuesAssumption DEF HeapInv, ShapeOK, Values
    <2>2. /\ Resolves(h)
          /\ object' = [object EXCEPT ![h.slot].properties[n] = v]
          /\ bytes' = [bytes EXCEPT ![h.slot] = @ - OldCost(h, n) + Cost(v)]
          /\ usedBytes' = usedBytes - OldCost(h, n) + Cost(v)
          /\ usedBytes' <= MaxHeapBytes
          /\ UNCHANGED liveObjects
      BY <1>3 DEF SetProperty
    <2>3. Cost(v) = IF v = None THEN 0 ELSE Cost(v)
      BY <2>1
    <2> QED BY <2>1, <2>2, <2>3, PropertyBooks
  <1>4. ASSUME NEW h \in issued, NEW n \in Names, RemoveProperty(h, n) PROVE Books'
    <2> DEFINE d == OldCost(h, n)
    <2>1. /\ Resolves(h)
          /\ object' = [object EXCEPT ![h.slot].properties[n] = None]
          /\ bytes' = [bytes EXCEPT ![h.slot] = bytes[h.slot] - d]
          /\ usedBytes' = usedBytes - d
          /\ UNCHANGED liveObjects
      BY <1>4 DEF RemoveProperty
    <2>2. h.slot \in Slots /\ object[h.slot] \in Objects
      BY <2>1, ResolvesObject
    <2>3. d = Shares(object[h.slot])[n]
      BY DEF OldCost, Shares
    <2>4. d \in Nat
      BY <2>2, <2>3, CostsAreNatural
    <2> HIDE DEF d
    <2>5. usedBytes \in Nat /\ usedBytes <= MaxHeapBytes /\ bytes[h.slot] \in Nat
      BY <2>2 DEF Books, Accounting
    <2>6. /\ bytes[h.slot] - d = bytes[h.slot] - d + 0
          /\ usedBytes' = usedBytes - d + 0 /\ usedBytes' <= MaxHeapBytes
      BY <2>1, <2>4, <2>5, HeapAssumption
    <2>7. bytes' = [bytes EXCEPT ![h.slot] = @ - OldCost(h, n) + 0]
      BY <2>1, <2>6 DEF d
    <2>8. usedBytes' = usedBytes - OldCost(h, n) + 0
      BY <2>6 DEF d
    <2> QED BY <2>1, <2>6, <2>7, <2>8, PropertyBooks
  <1>5. ASSUME store' = store PROVE Books'
    BY <1>5 DEF store, Books, Accounting, Live, ObjectBytes, Costs, Properties
  <1>6. CASE Sweep
    BY <1>6, SweepBooks
  <1>7. CASE BeginCollection \/ (\E h \in pending : Mark(h)) \/ UNCHANGED vars
    BY <1>5, <1>7 DEF BeginCollection, Mark, vars, store
  <1> QED BY <1>1, <1>2, <1>3, <1>4, <1>6, <1>7 DEF Next, Mutate, Collect

(* Whatever is allocated, overwritten, removed and collected, the byte and *)
(* object budgets are compared with what is really in the slots, and the   *)
(* byte budget is never exceeded.                                          *)
THEOREM AccountingHolds == Spec => []Accounting
  <1>1. Init => Books
    BY InitBooks
  <1>2. HeapInv /\ MarkInv /\ Books /\ [Next]_vars => Books'
    BY NextBooks
  <1>3. Books => Accounting
    BY DEF Books
  <1> QED BY <1>1, <1>2, <1>3, HeapAlways, PTL DEF Spec

(* The types of the heap, usedBytes included: no subtraction goes below    *)
(* zero, so the saturating ones of runtime_core.rs never saturate.         *)
THEOREM HeapTypes == Spec => []TypeOK
  <1>1. HeapInv /\ Books => TypeOK
    <2> SUFFICES ASSUME HeapInv, Books PROVE TypeOK
      OBVIOUS
    <2>1. Live \subseteq Slots /\ liveObjects = Cardinality(Live)
      BY DEF Live, HeapInv, LiveCount
    <2>2. liveObjects \in 0..MaxObjects
      <3>1. Cardinality(Live) <= Cardinality(Slots) /\ Cardinality(Live) \in Nat
        BY <2>1, SlotsFinite, FS_Subset
      <3> QED BY <2>1, <3>1, SlotsFinite, HeapAssumption
    <2> QED BY <2>2 DEF HeapInv, ShapeOK, Books, TypeOK
  <1>2. Init => Books
    BY InitBooks
  <1>3. HeapInv /\ MarkInv /\ Books /\ [Next]_vars => Books'
    BY NextBooks
  <1> QED BY <1>1, <1>2, <1>3, HeapAlways, PTL DEF Spec
-----------------------------------------------------------------------------
(* Promises.  What a queue is going to settle, as a set and without        *)
(* repetition.                                                             *)
Results(queue) == Promises!Results(queue)
Distinct(queue) ==
  \A i, j \in DOMAIN queue : queue[i].result = queue[j].result => i = j

(* A job for a finally handler has one.                                    *)
SoundJobs == {j \in Promises!Jobs : j.kind = "finally" => j.handled}

Table == [Addresses -> Seq(Promises!Reactions)]

QueueTypes ==
  /\ jobs \in Seq(SoundJobs) /\ reactions \in Table
  /\ job \in SoundJobs \cup {Promises!NoJob}
  /\ at = "handler" <=> job # Promises!NoJob

Cell == [id : Nat, state : {"pending", "ok", "err"}, quiet : BOOLEAN]
Cells(cells, next) ==
  \A a \in DOMAIN cells : a \in Addresses /\ cells[a] \in Cell /\ cells[a].id < next

JobTypes == /\ Cells(heap, nextPromise) /\ DOMAIN heap = Promises!Referenced
            /\ nextPromise \in Nat /\ \A n \in owed : n \in Nat /\ n < nextPromise
            /\ QueueTypes

(* No two jobs or reactions are to settle the same promise.                *)
Promised(queue, table) ==
  Results(queue) \cup UNION {Results(table[a]) : a \in Addresses}

Untangled(queue, table) ==
  /\ Distinct(queue)
  /\ \A a \in Addresses : /\ Distinct(table[a])
                          /\ Results(table[a]) \cap Results(queue) = {}
  /\ \A a, b \in Addresses : a # b => Results(table[a]) \cap Results(table[b]) = {}

Apart == /\ Untangled(jobs, reactions)
         /\ at = "handler" => job.result \notin Promised(jobs, reactions)

Held == Promised(jobs, reactions) \cup (IF at = "handler" THEN {job.result} ELSE {})

(* They are to settle exactly what is owed and pending, and what waits for *)
(* a tag nobody else settles.                                              *)
OwedIn(cells) ==
  /\ \A a \in Held : cells[a].state = "pending" /\ cells[a].id \in owed
  /\ \A a \in DOMAIN cells \ Held : cells[a].id \in owed => cells[a].state # "pending"
  /\ \A a \in waiters : cells[a].state = "pending" /\ cells[a].id \notin owed

JobsInv == JobTypes /\ Apart /\ OwedIn(heap)

(* What SettlesOnce asks of a step.                                        *)
StaysSettled ==
  \A a \in DOMAIN heap \cap DOMAIN heap' :
    heap[a].id = heap'[a].id /\ heap[a].state # "pending" => heap'[a] = heap[a]
-----------------------------------------------------------------------------
Settled(c, state) == [c EXCEPT !.state = state]
Quietly(c) == [c EXCEPT !.state = "ok", !.quiet = TRUE]

LEMMA CellFields ==
  \A c \in Cell : /\ c.id \in Nat /\ c.state \in {"pending", "ok", "err"}
                  /\ \A state \in {"ok", "err"} : /\ Settled(c, state) \in Cell
                                                 /\ Settled(c, state).id = c.id
                                                 /\ Settled(c, state).state = state
                  /\ Quietly(c) \in Cell /\ Quietly(c).id = c.id
                  /\ Quietly(c).state = "ok" /\ Quietly(c).quiet
  BY DEF Cell, Settled, Quietly

LEMMA EmptyResults == Results(<<>>) = {} /\ Distinct(<<>>)
  BY DEF Results, Promises!Results, Distinct

LEMMA AppendResults ==
  ASSUME NEW S, NEW queue \in Seq(S), NEW r \in S
  PROVE  /\ Append(queue, r) \in Seq(S)
         /\ Results(Append(queue, r)) = Results(queue) \cup {r.result}
         /\ Distinct(queue) /\ r.result \notin Results(queue) => Distinct(Append(queue, r))
  <1> DEFINE longer == Append(queue, r)
  <1>1. /\ longer \in Seq(S) /\ DOMAIN queue = 1 .. Len(queue) /\ Len(queue) \in Nat
        /\ DOMAIN longer = 1 .. Len(queue) + 1
        /\ \A i \in 1 .. Len(queue) : longer[i] = queue[i]
        /\ longer[Len(queue) + 1] = r
    OBVIOUS
  <1> HIDE DEF longer
  <1>2. \A i \in DOMAIN longer : i \in DOMAIN queue \/ i = Len(queue) + 1
    BY <1>1
  <1>3. Results(longer) = Results(queue) \cup {r.result}
    BY <1>1, <1>2 DEF Results, Promises!Results
  <1>4. Distinct(queue) /\ r.result \notin Results(queue) => Distinct(longer)
    BY <1>1, <1>2 DEF Distinct, Results, Promises!Results
  <1> QED BY <1>1, <1>3, <1>4 DEF longer

LEMMA TailResults ==
  ASSUME NEW S, NEW queue \in Seq(S), queue # <<>>, Distinct(queue)
  PROVE  /\ Tail(queue) \in Seq(S) /\ Head(queue) \in S /\ Distinct(Tail(queue))
         /\ Head(queue).result \in Results(queue)
         /\ Results(Tail(queue)) = Results(queue) \ {Head(queue).result}
  <1> DEFINE rest == Tail(queue)
             head == Head(queue)
  <1>1. /\ rest \in Seq(S) /\ head \in S /\ head = queue[1]
        /\ DOMAIN queue = 1 .. Len(queue) /\ Len(queue) \in Nat \ {0}
        /\ DOMAIN rest = 1 .. Len(queue) - 1
        /\ \A i \in 1 .. Len(queue) - 1 : rest[i] = queue[i + 1]
    OBVIOUS
  <1> HIDE DEF rest, head
  <1>2. /\ 1 \in DOMAIN queue
        /\ \A i \in DOMAIN rest : i + 1 \in DOMAIN queue /\ i + 1 # 1 /\ rest[i] = queue[i + 1]
        /\ \A i \in DOMAIN queue : i # 1 => i - 1 \in DOMAIN rest /\ rest[i - 1] = queue[i]
        /\ \A i, j \in DOMAIN rest : i + 1 = j + 1 => i = j
    BY <1>1
  <1>3. Distinct(rest)
    BY <1>2 DEF Distinct
  <1>4. ASSUME NEW x \in Results(rest)
        PROVE  x \in Results(queue) /\ x # head.result
    <2>1. PICK i \in DOMAIN rest : x = rest[i].result
      BY DEF Results, Promises!Results
    <2>2. i + 1 \in DOMAIN queue /\ i + 1 # 1 /\ x = queue[i + 1].result
      BY <2>1, <1>2
    <2>3. queue[i + 1].result # queue[1].result
      BY <2>2, <1>2 DEF Distinct
    <2> QED BY <2>2, <2>3, <1>1 DEF Results, Promises!Results
  <1>5. \A x \in Results(queue) : x # head.result => x \in Results(rest)
    BY <1>1, <1>2 DEF Results, Promises!Results
  <1>6. head.result \in Results(queue)
    BY <1>1, <1>2 DEF Results, Promises!Results
  <1>7. Results(rest) = Results(queue) \ {head.result}
    BY <1>4, <1>5
  <1> QED BY <1>1, <1>3, <1>6, <1>7 DEF rest, head

LEMMA ConcatResults ==
  ASSUME NEW S, NEW p \in Seq(S), NEW q \in Seq(S)
  PROVE  /\ p \o q \in Seq(S)
         /\ Results(p \o q) = Results(p) \cup Results(q)
         /\ Distinct(p) /\ Distinct(q) /\ Results(p) \cap Results(q) = {} => Distinct(p \o q)
  <1> DEFINE both == p \o q
  <1>1. /\ both \in Seq(S) /\ Len(p) \in Nat /\ Len(q) \in Nat
        /\ DOMAIN p = 1 .. Len(p) /\ DOMAIN q = 1 .. Len(q) /\ DOMAIN both = 1 .. Len(p) + Len(q)
        /\ \A i \in 1 .. Len(p) : both[i] = p[i]
        /\ \A i \in 1 .. Len(q) : both[Len(p) + i] = q[i]
    OBVIOUS
  <1> HIDE DEF both
  <1>2. \A i \in DOMAIN both : \/ i \in DOMAIN p /\ both[i] = p[i]
                               \/ \E k \in DOMAIN q : i = Len(p) + k /\ both[i] = q[k]
    <2> TAKE i \in DOMAIN both
    <2>1. CASE i <= Len(p)
      BY <2>1, <1>1
    <2>2. CASE i > Len(p)
      <3>1. i - Len(p) \in DOMAIN q /\ i = Len(p) + (i - Len(p))
        BY <2>2, <1>1
      <3> QED BY <3>1, <1>1
    <2> QED BY <2>1, <2>2, <1>1
  <1>3. Results(both) \subseteq Results(p) \cup Results(q)
    BY <1>2 DEF Results, Promises!Results
  <1>4. /\ \A i \in DOMAIN p : i \in DOMAIN both /\ both[i] = p[i]
        /\ \A k \in DOMAIN q : Len(p) + k \in DOMAIN both /\ both[Len(p) + k] = q[k]
    BY <1>1
  <1>5. Results(p) \cup Results(q) \subseteq Results(both)
    BY <1>4 DEF Results, Promises!Results
  <1>6. ASSUME Distinct(p), Distinct(q), Results(p) \cap Results(q) = {}
        PROVE  Distinct(both)
    <2> SUFFICES ASSUME NEW i \in DOMAIN both, NEW j \in DOMAIN both,
                        both[i].result = both[j].result
                 PROVE  i = j
      BY DEF Distinct
    <2>1. \A k \in DOMAIN p, m \in DOMAIN q : p[k].result # q[m].result
      BY <1>6 DEF Results, Promises!Results
    <2>2. CASE i \in DOMAIN p /\ both[i] = p[i]
      BY <2>2, <2>1, <1>2, <1>6 DEF Distinct
    <2>3. CASE \E k \in DOMAIN q : i = Len(p) + k /\ both[i] = q[k]
      <3>1. PICK k \in DOMAIN q : i = Len(p) + k /\ both[i] = q[k]
        BY <2>3
      <3>2. PICK m \in DOMAIN q : j = Len(p) + m /\ both[j] = q[m]
        BY <3>1, <2>1, <1>2
      <3> QED BY <3>1, <3>2, <1>6 DEF Distinct
    <2> QED BY <2>2, <2>3, <1>2
  <1> QED BY <1>1, <1>3, <1>5, <1>6 DEF both

(* enqueue_registered_reaction settles what the reaction was to settle.    *)
LEMMA JobOfReaction ==
  ASSUME NEW r \in Promises!Reactions, NEW state \in {"ok", "err"}
  PROVE  Promises!Job(r, state) \in SoundJobs /\ Promises!Job(r, state).result = r.result
  BY DEF Promises!Job, SoundJobs, Promises!Jobs, Promises!Reactions

LEMMA JobsOfReactions ==
  ASSUME NEW ready \in Seq(Promises!Reactions), NEW state \in {"ok", "err"}
  PROVE  LET mapped == [i \in DOMAIN ready |-> Promises!Job(ready[i], state)]
         IN  /\ mapped \in Seq(SoundJobs)
             /\ Results(mapped) = Results(ready)
             /\ Distinct(ready) => Distinct(mapped)
  <1> DEFINE mapped == [i \in DOMAIN ready |-> Promises!Job(ready[i], state)]
  <1>1. DOMAIN ready = 1 .. Len(ready) /\ Len(ready) \in Nat
    OBVIOUS
  <1>2. \A i \in DOMAIN ready : ready[i] \in Promises!Reactions
    OBVIOUS
  <1>3. \A i \in DOMAIN ready : /\ Promises!Job(ready[i], state) \in SoundJobs
                                /\ Promises!Job(ready[i], state).result = ready[i].result
    BY <1>2, JobOfReaction
  <1>4. mapped \in [1 .. Len(ready) -> SoundJobs]
    BY <1>1, <1>3
  <1>5. mapped \in Seq(SoundJobs)
    BY <1>1, <1>4
  <1>6. /\ DOMAIN mapped = DOMAIN ready
        /\ \A i \in DOMAIN ready : mapped[i].result = ready[i].result
    BY <1>3
  <1> HIDE DEF mapped
  <1>7. Results(mapped) = Results(ready) /\ (Distinct(ready) => Distinct(mapped))
    BY <1>6 DEF Results, Promises!Results, Distinct
  <1> QED BY <1>5, <1>7 DEF mapped
-----------------------------------------------------------------------------
(* What a step shows when it leaves `cells` in the heap, but for those that *)
(* nothing refers to any more.                                             *)
LEMMA HeapLeft ==
  ASSUME NEW cells, Promises!Counted(cells)
  PROVE  /\ DOMAIN heap' = DOMAIN cells \cap Promises!Referenced'
         /\ \A b \in DOMAIN heap' : heap'[b] = cells[b]
  BY DEF Promises!Counted

LEMMA WhatIsReferenced ==
  QueueTypes => Promises!Referenced = kept \cup waiters \cup Held
  <1> SUFFICES ASSUME QueueTypes PROVE Promises!Referenced = kept \cup waiters \cup Held
    OBVIOUS
  <1>1. (IF job = Promises!NoJob THEN {} ELSE {job.result})
          = (IF at = "handler" THEN {job.result} ELSE {})
    BY DEF QueueTypes
  <1> DEFINE table == UNION {Promises!Results(reactions[a]) : a \in Addresses}
             running == IF at = "handler" THEN {job.result} ELSE {}
  <1>2. Promises!Referenced = kept \cup waiters \cup Promises!Results(jobs) \cup running \cup table
    BY <1>1 DEF Promises!Referenced
  <1>3. Held = Promises!Results(jobs) \cup table \cup running
    BY DEF Held, Promised, Results
  <1> HIDE DEF table, running
  <1> QED BY <1>2, <1>3

LEMMA CellsKeep ==
  ASSUME NEW cells,
         DOMAIN heap' = DOMAIN cells \cap Promises!Referenced',
         \A b \in DOMAIN heap' : heap'[b] = cells[b],
         Promises!Referenced' \subseteq DOMAIN cells,
         nextPromise' \in Nat, \A n \in owed' : n \in Nat /\ n < nextPromise',
         QueueTypes', Apart',
         \A b \in DOMAIN cells : b \in Addresses /\ cells[b] \in Cell /\ cells[b].id < nextPromise',
         \A b \in Held' : cells[b].state = "pending" /\ cells[b].id \in owed',
         \A b \in DOMAIN cells \ Held' : cells[b].id \in owed' => cells[b].state # "pending",
         \A b \in waiters' : cells[b].state = "pending" /\ cells[b].id \notin owed',
         \A b \in DOMAIN heap \cap DOMAIN cells :
           heap[b].state # "pending" => cells[b] = heap[b]
  PROVE  JobsInv' /\ StaysSettled
  <1>1. DOMAIN heap' = Promises!Referenced'
    OBVIOUS
  <1>2. Held' \subseteq DOMAIN heap' /\ waiters' \subseteq DOMAIN heap'
    <2>1. (QueueTypes => Promises!Referenced = kept \cup waiters \cup Held)'
      BY WhatIsReferenced, PTL
    <2> QED BY <2>1, <1>1
  <1>3. DOMAIN heap' \subseteq DOMAIN cells
    OBVIOUS
  <1>4. \A b \in DOMAIN heap' : b \in Addresses /\ heap'[b] \in Cell /\ heap'[b].id < nextPromise'
    BY <1>3
  <1>5. JobTypes'
    BY <1>1, <1>4 DEF JobTypes, Cells
  <1>6. OwedIn(heap)'
    <2>1. \A b \in Held' : heap'[b].state = "pending" /\ heap'[b].id \in owed'
      BY <1>2
    <2>2. \A b \in DOMAIN heap' \ Held' : heap'[b].id \in owed' => heap'[b].state # "pending"
      BY <1>3
    <2>3. \A b \in waiters' : heap'[b].state = "pending" /\ heap'[b].id \notin owed'
      BY <1>2
    <2> QED BY <2>1, <2>2, <2>3 DEF OwedIn
  <1>7. StaysSettled
    BY <1>3 DEF StaysSettled
  <1> QED BY <1>5, <1>6, <1>7 DEF JobsInv

LEMMA SameWork ==
  ASSUME JobsInv, UNCHANGED <<Promises!context, job>>, at = "handler" <=> at' = "handler"
  PROVE  QueueTypes' /\ Apart' /\ Held' = Held
  <1>1. UNCHANGED <<jobs, reactions>>
    BY DEF Promises!context
  <1>2. QueueTypes'
    BY <1>1 DEF JobsInv, JobTypes, QueueTypes
  <1>3. Apart'
    BY <1>1 DEF JobsInv, Apart
  <1>4. Held' = Held
    BY <1>1 DEF Held
  <1> QED BY <1>2, <1>3, <1>4

LEMMA NothingLeft ==
  ASSUME Promises!TurnEnds
  PROVE  QueueTypes' /\ Apart' /\ Held' = {} /\ owed' = {}
  <1>1. /\ jobs' = <<>> /\ job' = Promises!NoJob /\ at' = "idle" /\ owed' = {}
        /\ reactions' = [a \in Addresses |-> <<>>]
    BY DEF Promises!TurnEnds, Promises!NoReactions
  <1>2. QueueTypes'
    BY <1>1 DEF QueueTypes, Table
  <1>3. Results(jobs') = {} /\ Distinct(jobs')
        /\ \A a \in Addresses : Results(reactions'[a]) = {} /\ Distinct(reactions'[a])
    BY <1>1, EmptyResults
  <1>4. Apart' /\ Held' = {}
    BY <1>1, <1>3 DEF Apart, Untangled, Promised, Held
  <1> QED BY <1>1, <1>2, <1>4

(* What is settled has an outcome that nothing of the queue changes.       *)
LEMMA HeldCells ==
  ASSUME JobsInv
  PROVE  /\ Held \subseteq DOMAIN heap /\ waiters \subseteq DOMAIN heap /\ kept \subseteq DOMAIN heap
         /\ \A b \in Held : heap[b].state = "pending" /\ heap[b].id \in owed /\ b \notin waiters
         /\ \A b \in DOMAIN heap : b \in Addresses /\ heap[b] \in Cell /\ heap[b].id < nextPromise
         /\ nextPromise \in Nat /\ \A n \in owed : n \in Nat /\ n < nextPromise
         /\ Promises!Referenced = kept \cup waiters \cup Held
         /\ DOMAIN heap = Promises!Referenced
         /\ \A b \in DOMAIN heap \ Held : heap[b].id \in owed => heap[b].state # "pending"
         /\ \A b \in waiters : heap[b].state = "pending" /\ heap[b].id \notin owed
  <1>1. Promises!Referenced = kept \cup waiters \cup Held
    BY WhatIsReferenced DEF JobsInv, JobTypes
  <1> QED BY <1>1 DEF JobsInv, JobTypes, OwedIn, Cells

(* A fresh promise.                                                        *)
FreshIn(cells, a, state) ==
  /\ DOMAIN cells = DOMAIN heap \cup {a} /\ a \notin DOMAIN heap
  /\ \A b \in DOMAIN heap : cells[b] = heap[b] /\ b # a
  /\ cells[a].id = nextPromise /\ cells[a].state = state
  /\ \A b \in DOMAIN cells : b \in Addresses /\ cells[b] \in Cell /\ cells[b].id < nextPromise + 1

LEMMA FreshCell ==
  ASSUME JobsInv, NEW a \in Promises!Free, NEW state \in {"ok", "err", "pending"}
  PROVE  FreshIn(Promises!Allocated(a, state), a, state)
  <1> DEFINE cells == Promises!Allocated(a, state)
  <1>1. a \in Addresses /\ a \notin DOMAIN heap
    BY DEF Promises!Free
  <1>2. cells = [b \in DOMAIN heap \cup {a} |->
                   IF b = a THEN [id |-> nextPromise, state |-> state, quiet |-> FALSE] ELSE heap[b]]
    BY DEF Promises!Allocated, Promises!Put
  <1> HIDE DEF cells
  <1>3. /\ DOMAIN cells = DOMAIN heap \cup {a}
        /\ \A b \in DOMAIN heap : cells[b] = heap[b] /\ b # a
        /\ cells[a] = [id |-> nextPromise, state |-> state, quiet |-> FALSE]
    BY <1>1, <1>2
  <1>4. /\ \A b \in DOMAIN heap : b \in Addresses /\ heap[b] \in Cell /\ heap[b].id < nextPromise
        /\ nextPromise \in Nat
    BY HeldCells
  <1>5. cells[a].id = nextPromise /\ cells[a].state = state
    BY <1>3
  <1>6. \A b \in DOMAIN heap : heap[b].id < nextPromise + 1
    <2>1. \A b \in DOMAIN heap : heap[b].id \in Nat /\ heap[b].id < nextPromise
      BY <1>4, CellFields
    <2> QED BY <2>1, <1>4
  <1>7. nextPromise < nextPromise + 1
    BY <1>4
  <1>8. cells[a] \in Cell
    BY <1>3, <1>4 DEF Cell
  <1>9. FreshIn(cells, a, state)
    BY <1>8, <1>1, <1>3, <1>4, <1>5, <1>6, <1>7 DEF FreshIn
  <1> QED BY <1>9 DEF cells
-----------------------------------------------------------------------------
LEMMA OwedLater ==
  ASSUME JobsInv
  PROVE  /\ nextPromise + 1 \in Nat /\ nextPromise < nextPromise + 1
         /\ \A n \in owed : n \in Nat /\ n < nextPromise + 1
  <1>1. nextPromise \in Nat /\ \A n \in owed : n \in Nat /\ n < nextPromise
    BY HeldCells
  <1> QED BY <1>1

LEMMA ReferencedThen ==
  QueueTypes' => Promises!Referenced' = kept' \cup waiters' \cup Held'
  <1>1. (QueueTypes => Promises!Referenced = kept \cup waiters \cup Held)'
    BY WhatIsReferenced, PTL
  <1> QED BY <1>1

LEMMA MakeKeeps ==
  ASSUME JobsInv, NEW a \in Promises!Free, NEW state \in {"ok", "err", "pending"},
         Promises!Make(a, state)
  PROVE  JobsInv' /\ StaysSettled
  <1> DEFINE cells == Promises!Allocated(a, state)
  <1>1. /\ kept' = kept \cup {a} /\ nextPromise' = nextPromise + 1
        /\ waiters' = waiters /\ job' = job /\ at' = at /\ owed' = owed
        /\ UNCHANGED Promises!context /\ Promises!Counted(cells)
    BY DEF Promises!Make
  <1>2. QueueTypes' /\ Apart' /\ Held' = Held
    BY <1>1, SameWork
  <1>3. FreshIn(cells, a, state)
    BY FreshCell
  <1>4. /\ DOMAIN heap' = DOMAIN cells \cap Promises!Referenced'
        /\ \A b \in DOMAIN heap' : heap'[b] = cells[b]
    BY <1>1, HeapLeft
  <1> HIDE DEF cells
  <1>5. Promises!Referenced' = kept' \cup waiters' \cup Held'
    BY <1>2, ReferencedThen
  <1>6. nextPromise' \in Nat /\ \A n \in owed' : n \in Nat /\ n < nextPromise'
    BY <1>1, HeldCells, OwedLater
  <1>7. nextPromise \notin owed
    BY HeldCells DEF FreshIn
  <1>8. Promises!Referenced' \subseteq DOMAIN cells
    BY <1>1, <1>2, <1>3, <1>5, HeldCells DEF FreshIn
  <1>9. \A b \in Held' : cells[b].state = "pending" /\ cells[b].id \in owed'
    BY <1>1, <1>2, <1>3, HeldCells DEF FreshIn
  <1>10. \A b \in DOMAIN cells \ Held' : cells[b].id \in owed' => cells[b].state # "pending"
    BY <1>1, <1>2, <1>3, <1>7, HeldCells DEF FreshIn
  <1>11. \A b \in waiters' : cells[b].state = "pending" /\ cells[b].id \notin owed'
    BY <1>1, <1>3, HeldCells DEF FreshIn
  <1> QED BY <1>1, <1>2, <1>3, <1>4, <1>6, <1>8, <1>9, <1>10, <1>11, CellsKeep DEF FreshIn

LEMMA WhenDefinedKeeps ==
  ASSUME JobsInv, NEW a \in Promises!Free, Promises!WhenDefined(a)
  PROVE  JobsInv' /\ StaysSettled
  <1>a. CASE defined
    <2>1. Promises!Make(a, "ok")
      BY <1>a DEF Promises!WhenDefined, Promises!Make
    <2> QED BY <2>1, MakeKeeps
  <1>b. CASE ~ defined
    <2> DEFINE cells == Promises!Allocated(a, "pending")
    <2>1. /\ kept' = kept \cup {a} /\ nextPromise' = nextPromise + 1
          /\ waiters' = waiters \cup {a} /\ job' = job /\ at' = at /\ owed' = owed
          /\ UNCHANGED Promises!context /\ Promises!Counted(cells)
      BY <1>b DEF Promises!WhenDefined
    <2>2. QueueTypes' /\ Apart' /\ Held' = Held
      BY <2>1, SameWork
    <2>3. FreshIn(cells, a, "pending")
      BY FreshCell
    <2>4. /\ DOMAIN heap' = DOMAIN cells \cap Promises!Referenced'
          /\ \A b \in DOMAIN heap' : heap'[b] = cells[b]
      BY <2>1, HeapLeft
    <2> HIDE DEF cells
    <2>5. Promises!Referenced' = kept' \cup waiters' \cup Held'
      BY <2>2, ReferencedThen
    <2>6. nextPromise' \in Nat /\ \A n \in owed' : n \in Nat /\ n < nextPromise'
      BY <2>1, OwedLater
    <2>7. nextPromise \notin owed
      BY HeldCells
    <2>8. Promises!Referenced' \subseteq DOMAIN cells
      BY <2>1, <2>2, <2>3, <2>5, HeldCells DEF FreshIn
    <2>9. \A b \in Held' : cells[b].state = "pending" /\ cells[b].id \in owed'
      BY <2>1, <2>2, <2>3, HeldCells DEF FreshIn
    <2>10. \A b \in DOMAIN cells \ Held' : cells[b].id \in owed' => cells[b].state # "pending"
      BY <2>1, <2>2, <2>3, <2>7, HeldCells DEF FreshIn
    <2>11. \A b \in waiters' : cells[b].state = "pending" /\ cells[b].id \notin owed'
      BY <2>1, <2>3, <2>7, HeldCells DEF FreshIn
    <2> QED BY <2>1, <2>2, <2>3, <2>4, <2>6, <2>8, <2>9, <2>10, <2>11, CellsKeep DEF FreshIn
  <1> QED BY <1>a, <1>b

LEMMA DefineKeeps ==
  ASSUME JobsInv, Promises!Define
  PROVE  JobsInv' /\ StaysSettled
  <1> DEFINE cells == [a \in DOMAIN heap |->
                         IF a \in waiters THEN [heap[a] EXCEPT !.state = "ok", !.quiet = TRUE]
                                          ELSE heap[a]]
  <1>1. /\ kept' = kept /\ nextPromise' = nextPromise /\ waiters' = {}
        /\ job' = job /\ at' = at /\ owed' = owed
        /\ UNCHANGED Promises!context /\ Promises!Counted(cells)
    BY DEF Promises!Define
  <1>2. QueueTypes' /\ Apart' /\ Held' = Held
    BY <1>1, SameWork
  <1>3. /\ DOMAIN heap' = DOMAIN cells \cap Promises!Referenced'
        /\ \A b \in DOMAIN heap' : heap'[b] = cells[b]
    BY <1>1, HeapLeft
  <1>4. /\ DOMAIN cells = DOMAIN heap
        /\ \A b \in DOMAIN heap \ waiters : cells[b] = heap[b]
        /\ \A b \in waiters : cells[b] = Quietly(heap[b])
    BY HeldCells DEF Quietly
  <1> HIDE DEF cells
  <1>5. Promises!Referenced' = kept' \cup waiters' \cup Held'
    BY <1>2, ReferencedThen
  <1>6. \A b \in waiters :
          cells[b] \in Cell /\ cells[b].state = "ok" /\ cells[b].id = heap[b].id
    <2>1. \A b \in waiters : b \in DOMAIN heap /\ heap[b] \in Cell
      BY HeldCells
    <2> QED BY <2>1, <1>4, CellFields
  <1>7. \A b \in DOMAIN cells : b \in Addresses /\ cells[b] \in Cell /\ cells[b].id < nextPromise'
    BY <1>1, <1>4, <1>6, HeldCells
  <1>8. Promises!Referenced' \subseteq DOMAIN cells
    BY <1>1, <1>2, <1>4, <1>5, HeldCells
  <1>9. \A b \in Held' : cells[b].state = "pending" /\ cells[b].id \in owed'
    BY <1>1, <1>2, <1>4, HeldCells
  <1>10. \A b \in DOMAIN cells \ Held' : cells[b].id \in owed' => cells[b].state # "pending"
    BY <1>1, <1>2, <1>4, <1>6, HeldCells
  <1>11. \A b \in DOMAIN heap : heap[b].state # "pending" => cells[b] = heap[b]
    BY <1>4, HeldCells
  <1>12. nextPromise' \in Nat /\ \A n \in owed' : n \in Nat /\ n < nextPromise'
    BY <1>1, HeldCells
  <1> QED BY <1>1, <1>2, <1>3, <1>7, <1>8, <1>9, <1>10, <1>11, <1>12, CellsKeep

(* Nothing is written and nothing is queued or taken.                      *)
LEMMA QuietKeeps ==
  ASSUME JobsInv, UNCHANGED <<Promises!context, job, waiters, owed, nextPromise>>,
         at = "handler" <=> at' = "handler", kept' \subseteq kept,
         DOMAIN heap' = DOMAIN heap \cap Promises!Referenced',
         \A b \in DOMAIN heap' : heap'[b] = heap[b]
  PROVE  JobsInv' /\ StaysSettled
  <1>1. QueueTypes' /\ Apart' /\ Held' = Held
    BY SameWork
  <1>2. Promises!Referenced' = kept' \cup waiters' \cup Held'
    BY <1>1, ReferencedThen
  <1>3. Promises!Referenced' \subseteq DOMAIN heap
    BY <1>1, <1>2, HeldCells
  <1>4. owed' = owed /\ waiters' = waiters /\ nextPromise' = nextPromise
    OBVIOUS
  <1>5. nextPromise' \in Nat /\ \A n \in owed' : n \in Nat /\ n < nextPromise'
    BY <1>4, HeldCells
  <1>6. \A b \in DOMAIN heap : b \in Addresses /\ heap[b] \in Cell /\ heap[b].id < nextPromise'
    BY <1>4, HeldCells
  <1>7. \A b \in Held' : heap[b].state = "pending" /\ heap[b].id \in owed'
    BY <1>1, <1>4, HeldCells
  <1>8. \A b \in DOMAIN heap \ Held' : heap[b].id \in owed' => heap[b].state # "pending"
    BY <1>1, <1>4, HeldCells
  <1>9. \A b \in waiters' : heap[b].state = "pending" /\ heap[b].id \notin owed'
    BY <1>4, HeldCells
  <1> QED BY <1>1, <1>3, <1>5, <1>6, <1>7, <1>8, <1>9, CellsKeep
-----------------------------------------------------------------------------
LEMMA PromisedMember ==
  ASSUME NEW queue, NEW table, NEW x
  PROVE  x \in Promised(queue, table) <=>
           x \in Results(queue) \/ \E a \in Addresses : x \in Results(table[a])
  BY DEF Promised

LEMMA WithJob ==
  ASSUME NEW queue \in Seq(SoundJobs), NEW table, NEW next \in SoundJobs,
         Untangled(queue, table), next.result \notin Promised(queue, table)
  PROVE  /\ Append(queue, next) \in Seq(SoundJobs)
         /\ Untangled(Append(queue, next), table)
         /\ Promised(Append(queue, next), table) = Promised(queue, table) \cup {next.result}
  <1> DEFINE longer == Append(queue, next)
  <1>1. next.result \notin Results(queue) /\ \A a \in Addresses : next.result \notin Results(table[a])
    BY PromisedMember
  <1>2. Distinct(queue)
    BY DEF Untangled
  <1>3. /\ longer \in Seq(SoundJobs) /\ Distinct(longer)
        /\ Results(longer) = Results(queue) \cup {next.result}
    BY <1>1, <1>2, AppendResults
  <1> HIDE DEF longer
  <1>4. Untangled(longer, table)
    BY <1>1, <1>3 DEF Untangled
  <1>5. Promised(longer, table) = Promised(queue, table) \cup {next.result}
    BY <1>3 DEF Promised
  <1> QED BY <1>3, <1>4, <1>5 DEF longer

LEMMA WithoutJob ==
  ASSUME NEW queue \in Seq(SoundJobs), NEW table, queue # <<>>, Untangled(queue, table)
  PROVE  /\ Tail(queue) \in Seq(SoundJobs) /\ Head(queue) \in SoundJobs
         /\ Untangled(Tail(queue), table)
         /\ Head(queue).result \in Promised(queue, table)
         /\ Promised(Tail(queue), table) = Promised(queue, table) \ {Head(queue).result}
  <1> DEFINE rest == Tail(queue)
             next == Head(queue)
  <1>1. Distinct(queue)
    BY DEF Untangled
  <1>2. /\ rest \in Seq(SoundJobs) /\ next \in SoundJobs /\ Distinct(rest)
        /\ next.result \in Results(queue) /\ Results(rest) = Results(queue) \ {next.result}
    BY <1>1, TailResults
  <1> HIDE DEF rest, next
  <1>3. \A a \in Addresses : next.result \notin Results(table[a])
    BY <1>2 DEF Untangled
  <1>4. Untangled(rest, table)
    BY <1>1, <1>2 DEF Untangled
  <1>5. Promised(rest, table) = Promised(queue, table) \ {next.result}
    BY <1>2, <1>3 DEF Promised
  <1>6. next.result \in Promised(queue, table)
    BY <1>2 DEF Promised
  <1> QED BY <1>2, <1>4, <1>5, <1>6 DEF rest, next

Longer(table, source, r) == [table EXCEPT ![source] = Append(@, r)]

LEMMA WithReaction ==
  ASSUME NEW queue, NEW table \in Table, NEW source \in Addresses, NEW r \in Promises!Reactions,
         Untangled(queue, table), r.result \notin Promised(queue, table)
  PROVE  /\ Longer(table, source, r) \in Table
         /\ Untangled(queue, Longer(table, source, r))
         /\ Promised(queue, Longer(table, source, r)) = Promised(queue, table) \cup {r.result}
  <1> DEFINE longer == Longer(table, source, r)
  <1>1. r.result \notin Results(queue) /\ \A a \in Addresses : r.result \notin Results(table[a])
    BY PromisedMember
  <1>2. table[source] \in Seq(Promises!Reactions) /\ Distinct(table[source])
    BY DEF Untangled, Table
  <1>3. /\ Append(table[source], r) \in Seq(Promises!Reactions) /\ Distinct(Append(table[source], r))
        /\ Results(Append(table[source], r)) = Results(table[source]) \cup {r.result}
    BY <1>1, <1>2, AppendResults
  <1>4. /\ longer[source] = Append(table[source], r)
        /\ \A a \in Addresses \ {source} : longer[a] = table[a]
    BY DEF Table, Longer
  <1>5. longer \in Table
    BY <1>3 DEF Table, Longer
  <1> HIDE DEF longer
  <1>6. /\ Distinct(longer[source])
        /\ Results(longer[source]) = Results(table[source]) \cup {r.result}
    BY <1>3, <1>4
  <1>7. Untangled(queue, longer)
    <2>1. \A a \in Addresses : /\ Distinct(longer[a])
                               /\ Results(longer[a]) \cap Results(queue) = {}
      <3> TAKE a \in Addresses
      <3>1. CASE a = source
        BY <3>1, <1>1, <1>6 DEF Untangled
      <3>2. CASE a # source
        BY <3>2, <1>4 DEF Untangled
      <3> QED BY <3>1, <3>2
    <2>2. ASSUME NEW a \in Addresses, NEW b \in Addresses, a # b
          PROVE  Results(longer[a]) \cap Results(longer[b]) = {}
      <3>1. Results(table[a]) \cap Results(table[b]) = {}
        BY <2>2 DEF Untangled
      <3>2. CASE a = source
        BY <3>1, <3>2, <2>2, <1>1, <1>4, <1>6
      <3>3. CASE b = source
        BY <3>1, <3>3, <2>2, <1>1, <1>4, <1>6
      <3>4. CASE a # source /\ b # source
        BY <3>1, <3>4, <1>4
      <3> QED BY <3>2, <3>3, <3>4
    <2> QED BY <2>1, <2>2 DEF Untangled
  <1>8. Promised(queue, longer) = Promised(queue, table) \cup {r.result}
    <2> SUFFICES ASSUME NEW x
                 PROVE  x \in Promised(queue, longer) <=>
                          x \in Promised(queue, table) \/ x = r.result
      OBVIOUS
    <2>1. \A a \in Addresses :
            x \in Results(longer[a]) <=> x \in Results(table[a]) \/ (a = source /\ x = r.result)
      BY <1>4, <1>6
    <2> QED BY <2>1, PromisedMember
  <1> QED BY <1>5, <1>7, <1>8 DEF longer

Followed(queue, ready, state) ==
  queue \o [i \in DOMAIN ready |-> Promises!Job(ready[i], state)]
Emptied(table, a) == [table EXCEPT ![a] = <<>>]

LEMMA WithoutReactions ==
  ASSUME NEW queue \in Seq(SoundJobs), NEW table \in Table, NEW a \in Addresses,
         NEW state \in {"ok", "err"}, Untangled(queue, table)
  PROVE  /\ Followed(queue, table[a], state) \in Seq(SoundJobs) /\ Emptied(table, a) \in Table
         /\ Untangled(Followed(queue, table[a], state), Emptied(table, a))
         /\ Promised(Followed(queue, table[a], state), Emptied(table, a)) = Promised(queue, table)
  <1> DEFINE ready == table[a]
             mapped == [i \in DOMAIN ready |-> Promises!Job(ready[i], state)]
             longer == queue \o mapped
             rest == [table EXCEPT ![a] = <<>>]
  <1>1. ready \in Seq(Promises!Reactions) /\ Distinct(ready) /\ Results(ready) \cap Results(queue) = {}
        /\ Distinct(queue)
    BY DEF Untangled, Table
  <1>2. /\ rest[a] = <<>> /\ \A b \in Addresses \ {a} : rest[b] = table[b]
        /\ rest \in Table
    BY DEF Table
  <1> HIDE DEF rest, ready
  <1>3. /\ mapped \in Seq(SoundJobs) /\ Results(mapped) = Results(ready) /\ Distinct(mapped)
    BY <1>1, JobsOfReactions
  <1> HIDE DEF mapped
  <1>4. /\ longer \in Seq(SoundJobs) /\ Distinct(longer)
        /\ Results(longer) = Results(queue) \cup Results(ready)
    BY <1>1, <1>3, ConcatResults
  <1> HIDE DEF longer
  <1>5. Results(rest[a]) = {} /\ Distinct(rest[a])
    BY <1>2, EmptyResults
  <1>6. Untangled(longer, rest)
    <2>1. \A b \in Addresses : Distinct(rest[b]) /\ Results(rest[b]) \cap Results(longer) = {}
      <3> TAKE b \in Addresses
      <3>1. CASE b = a
        BY <3>1, <1>5
      <3>2. CASE b # a
        <4>1. rest[b] = table[b] /\ Distinct(table[b])
              /\ Results(table[b]) \cap Results(queue) = {}
              /\ Results(table[b]) \cap Results(ready) = {}
          BY <3>2, <1>2 DEF Untangled, ready
        <4> QED BY <4>1, <1>4
      <3> QED BY <3>1, <3>2
    <2>2. \A b, c \in Addresses : b # c => Results(rest[b]) \cap Results(rest[c]) = {}
      BY <1>2, <1>5 DEF Untangled
    <2> QED BY <2>1, <2>2, <1>4 DEF Untangled
  <1>7. Promised(longer, rest) = Promised(queue, table)
    <2> SUFFICES ASSUME NEW x
                 PROVE  x \in Promised(longer, rest) <=> x \in Promised(queue, table)
      OBVIOUS
    <2>1. x \in Results(longer) <=> x \in Results(queue) \/ x \in Results(table[a])
      BY <1>4 DEF ready
    <2>2. \A b \in Addresses : x \in Results(rest[b]) <=> b # a /\ x \in Results(table[b])
      BY <1>2, <1>5
    <2> QED BY <2>1, <2>2, PromisedMember
  <1> QED BY <1>2, <1>4, <1>6, <1>7 DEF longer, rest, mapped, ready, Followed, Emptied
-----------------------------------------------------------------------------
LEMMA ThenQueues ==
  ASSUME JobsInv, NEW a \in Promises!Free, NEW source \in kept,
         NEW handlers \in Promises!Handlers, Promises!Then(source, handlers, a)
  PROVE  QueueTypes' /\ Apart' /\ Held' = Held \cup {a}
  <1> DEFINE r == Promises!Reaction(heap[source].id, handlers, a, "none")
             next == Promises!Job(r, heap[source].state)
  <1>1. r \in Promises!Reactions /\ r.result = a
    <2>1. heap[source].id \in Nat
      BY HeldCells, CellFields
    <2> QED BY <2>1 DEF Promises!Free, Promises!Reaction, Promises!Reactions
  <1>2. /\ UNCHANGED <<job, at>>
        /\ \/ /\ heap[source].state = "pending"
              /\ reactions' = Longer(reactions, source, r) /\ jobs' = jobs
           \/ /\ heap[source].state # "pending"
              /\ jobs' = Append(jobs, next) /\ reactions' = reactions
    BY DEF Promises!Then, Promises!Registered, Longer
  <1> HIDE DEF r
  <1>3. source \in Addresses /\ heap[source].state \in {"pending", "ok", "err"}
    BY HeldCells, CellFields
  <1>4. /\ jobs \in Seq(SoundJobs) /\ reactions \in Table /\ Untangled(jobs, reactions)
        /\ job \in SoundJobs \cup {Promises!NoJob} /\ (at = "handler" <=> job # Promises!NoJob)
        /\ at = "handler" => job.result \notin Promised(jobs, reactions)
    BY DEF JobsInv, JobTypes, QueueTypes, Apart
  <1>5. a \notin Held
    BY HeldCells DEF Promises!Free
  <1>6. a \notin Promised(jobs, reactions) /\ (at = "handler" => job.result # a)
    BY <1>5 DEF Held
  <1>7. /\ jobs' \in Seq(SoundJobs) /\ reactions' \in Table /\ Untangled(jobs', reactions')
        /\ Promised(jobs', reactions') = Promised(jobs, reactions) \cup {a}
    <2>1. CASE heap[source].state = "pending"
      BY <2>1, <1>1, <1>2, <1>3, <1>4, <1>6, WithReaction
    <2>2. CASE heap[source].state # "pending"
      <3>1. next \in SoundJobs /\ next.result = a
        BY <2>2, <1>1, <1>3, JobOfReaction
      <3>2. jobs' = Append(jobs, next) /\ reactions' = reactions
        BY <2>2, <1>2
      <3> HIDE DEF next
      <3> QED BY <3>1, <3>2, <1>4, <1>6, WithJob
    <2> QED BY <2>1, <2>2
  <1>8. QueueTypes'
    BY <1>2, <1>4, <1>7 DEF QueueTypes
  <1>9. Apart'
    BY <1>2, <1>4, <1>6, <1>7 DEF Apart
  <1>10. Held' = Held \cup {a}
    BY <1>2, <1>7 DEF Held
  <1> QED BY <1>8, <1>9, <1>10

LEMMA ThenKeeps ==
  ASSUME JobsInv, NEW a \in Promises!Free, NEW source \in kept,
         NEW handlers \in Promises!Handlers, Promises!Then(source, handlers, a)
  PROVE  JobsInv' /\ StaysSettled
  <1> DEFINE cells == Promises!Allocated(a, "pending")
  <1>1. /\ kept' = kept \cup {a} /\ nextPromise' = nextPromise + 1
        /\ waiters' = waiters /\ owed' = owed \cup {nextPromise}
        /\ Promises!Counted(cells)
    BY DEF Promises!Then
  <1>2. QueueTypes' /\ Apart' /\ Held' = Held \cup {a}
    BY ThenQueues
  <1>3. FreshIn(cells, a, "pending")
    BY FreshCell
  <1>4. /\ DOMAIN heap' = DOMAIN cells \cap Promises!Referenced'
        /\ \A b \in DOMAIN heap' : heap'[b] = cells[b]
    BY <1>1, HeapLeft
  <1> HIDE DEF cells
  <1>5. Promises!Referenced' = kept' \cup waiters' \cup Held'
    BY <1>2, ReferencedThen
  <1>6. nextPromise' \in Nat /\ \A n \in owed' : n \in Nat /\ n < nextPromise'
    BY <1>1, OwedLater, HeldCells
  <1>7. \A b \in DOMAIN heap : heap[b].id # nextPromise
    BY HeldCells, CellFields
  <1>8. Promises!Referenced' \subseteq DOMAIN cells
    BY <1>1, <1>2, <1>3, <1>5, HeldCells DEF FreshIn
  <1>9. \A b \in Held' : cells[b].state = "pending" /\ cells[b].id \in owed'
    BY <1>1, <1>2, <1>3, HeldCells DEF FreshIn
  <1>10. \A b \in DOMAIN cells \ Held' : cells[b].id \in owed' => cells[b].state # "pending"
    BY <1>1, <1>2, <1>3, <1>7, HeldCells DEF FreshIn
  <1>11. \A b \in waiters' : cells[b].state = "pending" /\ cells[b].id \notin owed'
    BY <1>1, <1>3, <1>7, HeldCells DEF FreshIn
  <1> QED BY <1>1, <1>2, <1>3, <1>4, <1>6, <1>8, <1>9, <1>10, <1>11, CellsKeep DEF FreshIn

(* The turn ends and takes what was owed with it; `cells` may hold one more *)
(* outcome.                                                                *)
LEMMA EndKeeps ==
  ASSUME JobsInv, Promises!TurnEnds, UNCHANGED <<kept, waiters, defined, nextPromise>>,
         NEW cells, Promises!Counted(cells), DOMAIN cells = DOMAIN heap,
         \A b \in DOMAIN heap : /\ cells[b] \in Cell /\ cells[b].id = heap[b].id
                                /\ b \notin Held => cells[b] = heap[b]
  PROVE  JobsInv' /\ StaysSettled
  <1>1. QueueTypes' /\ Apart' /\ Held' = {} /\ owed' = {}
    BY NothingLeft
  <1>2. /\ DOMAIN heap' = DOMAIN cells \cap Promises!Referenced'
        /\ \A b \in DOMAIN heap' : heap'[b] = cells[b]
    BY HeapLeft
  <1>3. kept' = kept /\ waiters' = waiters /\ nextPromise' = nextPromise
    OBVIOUS
  <1>4. Promises!Referenced' = kept' \cup waiters' \cup Held'
    BY <1>1, ReferencedThen
  <1>5. Promises!Referenced' \subseteq DOMAIN cells
    BY <1>1, <1>3, <1>4, HeldCells
  <1>6. \A b \in DOMAIN cells : b \in Addresses /\ cells[b] \in Cell /\ cells[b].id < nextPromise'
    BY <1>3, HeldCells
  <1>7. \A b \in waiters' : cells[b].state = "pending" /\ cells[b].id \notin owed'
    BY <1>1, <1>3, HeldCells
  <1>8. \A b \in DOMAIN heap \cap DOMAIN cells : heap[b].state # "pending" => cells[b] = heap[b]
    BY HeldCells
  <1>9. nextPromise' \in Nat
    BY <1>3, HeldCells
  <1> QED BY <1>1, <1>2, <1>5, <1>6, <1>7, <1>8, <1>9, CellsKeep

LEMMA SettledCells ==
  ASSUME JobsInv, NEW a \in Held, NEW state \in {"ok", "err"},
         NEW cells, cells = [heap EXCEPT ![a].state = state]
  PROVE  /\ DOMAIN cells = DOMAIN heap
         /\ cells[a].state = state
         /\ \A b \in DOMAIN heap : /\ cells[b] \in Cell /\ cells[b].id = heap[b].id
                                   /\ b # a => cells[b] = heap[b]
  <1>1. a \in DOMAIN heap /\ heap[a] \in Cell
    BY HeldCells
  <1>2. /\ DOMAIN cells = DOMAIN heap
        /\ cells[a] = Settled(heap[a], state)
        /\ \A b \in DOMAIN heap : b # a => cells[b] = heap[b]
    BY <1>1 DEF Settled
  <1>3. cells[a] \in Cell /\ cells[a].id = heap[a].id /\ cells[a].state = state
    BY <1>1, <1>2, CellFields
  <1> QED BY <1>2, <1>3, HeldCells

(* settle_promise, of a promise that `rest` and the reactions do not hold  *)
(* any more.                                                               *)
LEMMA SettleKeeps ==
  ASSUME JobsInv, NEW a \in Held, NEW state \in {"ok", "err"},
         NEW rest \in Seq(SoundJobs), NEW done, Promises!Settle(a, state, rest, done),
         Untangled(rest, reactions), Promised(rest, reactions) = Held \ {a}
  PROVE  JobsInv' /\ StaysSettled
  <1> DEFINE cells == [heap EXCEPT ![a].state = state]
             longer == Followed(rest, reactions[a], state)
             table == Emptied(reactions, a)
  <1>1. /\ UNCHANGED <<kept, waiters, defined, nextPromise>> /\ Promises!Counted(cells)
        /\ \/ Promises!TurnEnds
           \/ /\ jobs' = longer /\ reactions' = table
              /\ job' = Promises!NoJob /\ at' = "drain" /\ owed' = owed
    BY DEF Promises!Settle, Followed, Emptied
  <1>2. a \in Addresses /\ reactions \in Table
    BY HeldCells DEF JobsInv, JobTypes, QueueTypes
  <1>3. /\ longer \in Seq(SoundJobs) /\ table \in Table /\ Untangled(longer, table)
        /\ Promised(longer, table) = Promised(rest, reactions)
    BY <1>2, WithoutReactions
  <1>4. /\ DOMAIN heap' = DOMAIN cells \cap Promises!Referenced'
        /\ \A b \in DOMAIN heap' : heap'[b] = cells[b]
    BY <1>1, HeapLeft
  <1>5. cells = [heap EXCEPT ![a].state = state]
    OBVIOUS
  <1> HIDE DEF cells, longer, table
  <1>6. /\ DOMAIN cells = DOMAIN heap
        /\ cells[a].state = state
        /\ \A b \in DOMAIN heap : /\ cells[b] \in Cell /\ cells[b].id = heap[b].id
                                  /\ b # a => cells[b] = heap[b]
    BY <1>5, SettledCells
  <1>a. CASE Promises!TurnEnds
    BY <1>a, <1>1, <1>6, EndKeeps
  <1>b. CASE /\ jobs' = longer /\ reactions' = table
             /\ job' = Promises!NoJob /\ at' = "drain" /\ owed' = owed
    <2>1. QueueTypes'
      BY <1>b, <1>3 DEF QueueTypes
    <2>2. Apart' /\ Held' = Held \ {a}
      BY <1>b, <1>3 DEF Apart, Held
    <2>3. Promises!Referenced' = kept' \cup waiters' \cup Held'
      BY <2>1, ReferencedThen
    <2>4. kept' = kept /\ waiters' = waiters /\ nextPromise' = nextPromise /\ owed' = owed
      BY <1>1, <1>b
    <2>5. Promises!Referenced' \subseteq DOMAIN cells
      BY <1>6, <2>2, <2>3, <2>4, HeldCells
    <2>6. nextPromise' \in Nat /\ \A n \in owed' : n \in Nat /\ n < nextPromise'
      BY <2>4, HeldCells
    <2>7. \A b \in DOMAIN cells : b \in Addresses /\ cells[b] \in Cell /\ cells[b].id < nextPromise'
      BY <1>6, <2>4, HeldCells
    <2>8. \A b \in Held' : cells[b].state = "pending" /\ cells[b].id \in owed'
      BY <1>6, <2>2, <2>4, HeldCells
    <2>9. \A b \in DOMAIN cells \ Held' : cells[b].id \in owed' => cells[b].state # "pending"
      BY <1>6, <2>2, <2>4, HeldCells
    <2>10. \A b \in waiters' : cells[b].state = "pending" /\ cells[b].id \notin owed'
      BY <1>6, <2>4, HeldCells
    <2>11. \A b \in DOMAIN heap \cap DOMAIN cells : heap[b].state # "pending" => cells[b] = heap[b]
      BY <1>6, HeldCells
    <2> QED BY <1>4, <2>1, <2>2, <2>5, <2>6, <2>7, <2>8, <2>9, <2>10, <2>11, CellsKeep
  <1> QED BY <1>1, <1>a, <1>b
-----------------------------------------------------------------------------
LEMMA EndsQuietly ==
  ASSUME JobsInv, Promises!TurnEnds, UNCHANGED <<kept, waiters, defined, nextPromise>>,
         Promises!Counted(heap)
  PROVE  JobsInv' /\ StaysSettled
  BY EndKeeps, HeldCells

(* What the queues hold while a handler runs.                              *)
LEMMA WhileHandling ==
  ASSUME JobsInv, at = "handler"
  PROVE  /\ job \in SoundJobs /\ job.result \in Held
         /\ jobs \in Seq(SoundJobs) /\ reactions \in Table /\ Untangled(jobs, reactions)
         /\ job.result \notin Promised(jobs, reactions)
         /\ Promised(jobs, reactions) = Held \ {job.result}
         /\ Held = Promised(jobs, reactions) \cup {job.result}
  BY DEF JobsInv, JobTypes, QueueTypes, Apart, Held

LEMMA SettlesTheHandled ==
  ASSUME JobsInv, at = "handler", NEW state \in {"ok", "err"},
         Promises!Settle(job.result, state, jobs, processed)
  PROVE  JobsInv' /\ StaysSettled
  BY WhileHandling, SettleKeeps

LEMMA WaitKeeps ==
  ASSUME JobsInv, at = "handler", NEW source \in kept, NEW override \in {"none", "ok"},
         Promises!Wait(job.result, source, override)
  PROVE  JobsInv' /\ StaysSettled
  <1> DEFINE r == Promises!Reaction(heap[source].id, {}, job.result, override)
             table == Longer(reactions, source, r)
  <1>1. /\ UNCHANGED <<kept, waiters, defined, nextPromise>> /\ Promises!Counted(heap)
        /\ \/ Promises!TurnEnds
           \/ /\ reactions' = table /\ job' = Promises!NoJob /\ at' = "drain"
              /\ jobs' = jobs /\ owed' = owed
    BY DEF Promises!Wait, Promises!Registered, Longer
  <1>2. /\ DOMAIN heap' = DOMAIN heap \cap Promises!Referenced'
        /\ \A b \in DOMAIN heap' : heap'[b] = heap[b]
    BY <1>1, HeapLeft
  <1>3. source \in Addresses /\ job.result \in Addresses
    BY WhileHandling, HeldCells
  <1>4. r \in Promises!Reactions /\ r.result = job.result
    <2>1. heap[source].id \in Nat
      BY HeldCells, CellFields
    <2> QED BY <1>3, <2>1 DEF Promises!Reaction, Promises!Reactions
  <1> HIDE DEF r
  <1>5. /\ table \in Table /\ Untangled(jobs, table)
        /\ Promised(jobs, table) = Promised(jobs, reactions) \cup {job.result}
    <2>1. reactions \in Table /\ Untangled(jobs, reactions)
          /\ r.result \notin Promised(jobs, reactions)
      BY <1>4, WhileHandling
    <2> QED BY <1>3, <1>4, <2>1, WithReaction
  <1> HIDE DEF table
  <1>a. CASE Promises!TurnEnds
    BY <1>a, <1>1, EndsQuietly
  <1>b. CASE /\ reactions' = table /\ job' = Promises!NoJob /\ at' = "drain"
             /\ jobs' = jobs /\ owed' = owed
    <2>1. QueueTypes'
      BY <1>b, <1>5, WhileHandling DEF QueueTypes
    <2>2. Apart' /\ Held' = Held
      BY <1>b, <1>5, WhileHandling DEF Apart, Held
    <2>3. Promises!Referenced' = kept' \cup waiters' \cup Held'
      BY <2>1, ReferencedThen
    <2>4. kept' = kept /\ waiters' = waiters /\ nextPromise' = nextPromise /\ owed' = owed
      BY <1>1, <1>b
    <2>5. Promises!Referenced' \subseteq DOMAIN heap
      BY <2>2, <2>3, <2>4, HeldCells
    <2>6. nextPromise' \in Nat /\ \A n \in owed' : n \in Nat /\ n < nextPromise'
      BY <2>4, HeldCells
    <2>7. \A b \in DOMAIN heap : b \in Addresses /\ heap[b] \in Cell /\ heap[b].id < nextPromise'
      BY <2>4, HeldCells
    <2>8. \A b \in Held' : heap[b].state = "pending" /\ heap[b].id \in owed'
      BY <2>2, <2>4, HeldCells
    <2>9. \A b \in DOMAIN heap \ Held' : heap[b].id \in owed' => heap[b].state # "pending"
      BY <2>2, <2>4, HeldCells
    <2>10. \A b \in waiters' : heap[b].state = "pending" /\ heap[b].id \notin owed'
      BY <2>4, HeldCells
    <2> QED BY <1>2, <2>1, <2>2, <2>5, <2>6, <2>7, <2>8, <2>9, <2>10, CellsKeep
  <1> QED BY <1>1, <1>a, <1>b

LEMMA HandlerReturnsPromiseKeeps ==
  ASSUME JobsInv, NEW source \in kept, Promises!HandlerReturnsPromise(source)
  PROVE  JobsInv' /\ StaysSettled
  <1>1. at = "handler"
    BY DEF Promises!HandlerReturnsPromise
  <1>2. heap[source].state \in {"pending", "ok", "err"}
    BY HeldCells, CellFields
  <1>3. \/ Promises!Wait(job.result, source, "none")
        \/ Promises!Wait(job.result, source, "ok")
        \/ Promises!Settle(job.result, "err", jobs, processed)
        \/ /\ heap[source].state # "pending"
           /\ Promises!Settle(job.result, heap[source].state, jobs, processed)
    <2>1. CASE job.kind = "finally"
      BY <2>1 DEF Promises!HandlerReturnsPromise
    <2>2. CASE job.kind # "finally"
      <3>1. Promises!Follow(job.result, source)
        BY <2>2 DEF Promises!HandlerReturnsPromise
      <3>2. CASE source # job.result /\ heap[source].state = "pending"
        BY <3>1, <3>2 DEF Promises!Follow
      <3>3. CASE source = job.result
        BY <3>1, <3>3 DEF Promises!Follow
      <3>4. CASE source # job.result /\ heap[source].state # "pending"
        BY <3>1, <3>4 DEF Promises!Follow
      <3> QED BY <3>2, <3>3, <3>4
    <2> QED BY <2>1, <2>2
  <1>4. ASSUME heap[source].state # "pending",
               Promises!Settle(job.result, heap[source].state, jobs, processed)
        PROVE  JobsInv' /\ StaysSettled
    <2>1. heap[source].state \in {"ok", "err"}
      BY <1>2, <1>4
    <2> QED BY <1>1, <1>4, <2>1, SettlesTheHandled
  <1>5. Promises!Wait(job.result, source, "none") \/ Promises!Wait(job.result, source, "ok")
          => JobsInv' /\ StaysSettled
    BY <1>1, WaitKeeps
  <1>6. Promises!Settle(job.result, "err", jobs, processed) => JobsInv' /\ StaysSettled
    BY <1>1, SettlesTheHandled
  <1> QED BY <1>3, <1>4, <1>5, <1>6

LEMMA DrainKeeps ==
  ASSUME JobsInv, Promises!Drain
  PROVE  JobsInv' /\ StaysSettled
  <1> DEFINE next == Head(jobs)
             rest == Tail(jobs)
  <1>1. /\ at = "drain" /\ jobs # <<>>
        /\ \/ /\ next.handled /\ job' = next /\ at' = "handler" /\ jobs' = rest
              /\ UNCHANGED <<heap, kept, waiters, defined, reactions, owed, nextPromise>>
           \/ ~ next.handled /\ Promises!Settle(next.result, next.kind, rest, processed + 1)
    BY DEF Promises!Drain
  <1>2. /\ jobs \in Seq(SoundJobs) /\ reactions \in Table /\ Untangled(jobs, reactions)
        /\ Held = Promised(jobs, reactions)
    BY <1>1 DEF JobsInv, JobTypes, QueueTypes, Apart, Held
  <1>3. /\ rest \in Seq(SoundJobs) /\ next \in SoundJobs /\ Untangled(rest, reactions)
        /\ next.result \in Held /\ Promised(rest, reactions) = Held \ {next.result}
    BY <1>1, <1>2, WithoutJob
  <1> HIDE DEF next, rest
  <1>a. CASE ~ next.handled /\ Promises!Settle(next.result, next.kind, rest, processed + 1)
    <2>1. next.kind \in {"ok", "err"}
      BY <1>a, <1>3 DEF SoundJobs, Promises!Jobs
    <2> QED BY <1>a, <1>3, <2>1, SettleKeeps
  <1>b. CASE /\ next.handled /\ job' = next /\ at' = "handler" /\ jobs' = rest
             /\ UNCHANGED <<heap, kept, waiters, defined, reactions, owed, nextPromise>>
    <2>1. next # Promises!NoJob
      BY <1>b, <1>3 DEF SoundJobs, Promises!Jobs, Promises!NoJob
    <2>2. QueueTypes'
      BY <1>b, <1>2, <1>3, <2>1 DEF QueueTypes
    <2>3. Apart' /\ Held' = Held
      BY <1>b, <1>3 DEF Apart, Held
    <2>4. Promises!Referenced' = kept' \cup waiters' \cup Held'
      BY <2>2, ReferencedThen
    <2>5. /\ kept' = kept /\ waiters' = waiters /\ nextPromise' = nextPromise /\ owed' = owed
          /\ heap' = heap
      BY <1>b
    <2>6. Promises!Referenced' = DOMAIN heap
      BY <2>3, <2>4, <2>5, HeldCells
    <2>7. nextPromise' \in Nat /\ \A n \in owed' : n \in Nat /\ n < nextPromise'
      BY <2>5, HeldCells
    <2>8. \A b \in DOMAIN heap : b \in Addresses /\ heap[b] \in Cell /\ heap[b].id < nextPromise'
      BY <2>5, HeldCells
    <2>9. \A b \in Held' : heap[b].state = "pending" /\ heap[b].id \in owed'
      BY <2>3, <2>5, HeldCells
    <2>10. \A b \in DOMAIN heap \ Held' : heap[b].id \in owed' => heap[b].state # "pending"
      BY <2>3, <2>5, HeldCells
    <2>11. \A b \in waiters' : heap[b].state = "pending" /\ heap[b].id \notin owed'
      BY <2>5, HeldCells
    <2> QED BY <2>2, <2>3, <2>5, <2>6, <2>7, <2>8, <2>9, <2>10, <2>11, CellsKeep
  <1> QED BY <1>1, <1>a, <1>b
-----------------------------------------------------------------------------
LEMMA InitPromises == Promises!Init => JobsInv
  <1> SUFFICES ASSUME Promises!Init PROVE JobsInv
    OBVIOUS
  <1>1. /\ heap = <<>> /\ kept = {} /\ waiters = {} /\ jobs = <<>> /\ job = Promises!NoJob
        /\ reactions = [a \in Addresses |-> <<>>] /\ at = "idle" /\ owed = {}
        /\ nextPromise = 1
    BY DEF Promises!Init, Promises!NoReactions
  <1>2. QueueTypes
    BY <1>1 DEF QueueTypes, Table
  <1>3. Results(jobs) = {} /\ Distinct(jobs)
        /\ \A a \in Addresses : Results(reactions[a]) = {} /\ Distinct(reactions[a])
    BY <1>1, EmptyResults
  <1>4. Apart /\ Held = {}
    BY <1>1, <1>3 DEF Apart, Untangled, Promised, Held
  <1>5. Promises!Referenced = {} /\ DOMAIN heap = {}
    BY <1>1, <1>2, <1>4, WhatIsReferenced
  <1>6. JobTypes
    BY <1>1, <1>2, <1>5 DEF JobTypes, Cells
  <1>7. OwedIn(heap)
    BY <1>1, <1>4, <1>5 DEF OwedIn
  <1> QED BY <1>4, <1>6, <1>7 DEF JobsInv

LEMMA SameHeap ==
  ASSUME JobsInv, UNCHANGED <<Promises!context, job, waiters, owed, nextPromise, kept, heap>>,
         at = "handler" <=> at' = "handler"
  PROVE  JobsInv' /\ StaysSettled
  <1>1. QueueTypes' /\ Apart' /\ Held' = Held
    BY SameWork
  <1>2. Promises!Referenced' = kept' \cup waiters' \cup Held'
    BY <1>1, ReferencedThen
  <1>3. Promises!Referenced' = DOMAIN heap
    BY <1>1, <1>2, HeldCells
  <1> QED BY <1>3, QuietKeeps

LEMMA NextPromises ==
  ASSUME JobsInv, [Promises!Next]_(Promises!vars)
  PROVE  JobsInv' /\ StaysSettled
  <1>1. CASE Promises!StartTurn
    <2>1. /\ UNCHANGED <<Promises!context, job, waiters, owed, nextPromise>>
          /\ at = "idle" /\ at' = "script" /\ kept' = kept /\ heap' = heap
          /\ UNCHANGED <<jobs, reactions>>
      BY <1>1 DEF Promises!StartTurn, Promises!context
    <2> QED BY <2>1, SameHeap
  <1>2. CASE Promises!ApiCall
    <2>1. CASE \E a \in Promises!Free, state \in {"ok", "err", "pending"} : Promises!Make(a, state)
      BY <2>1, MakeKeeps
    <2>2. CASE \E a \in Promises!Free : Promises!WhenDefined(a)
      BY <2>2, WhenDefinedKeeps
    <2>3. CASE \E a \in Promises!Free, source \in kept, handlers \in Promises!Handlers :
                 Promises!Then(source, handlers, a)
      BY <2>3, ThenKeeps
    <2>4. CASE Promises!Define
      BY <2>4, DefineKeeps
    <2>5. CASE \E a \in kept : Promises!Drop(a)
      <3>1. PICK a \in kept : Promises!Drop(a)
        BY <2>5
      <3>2. /\ UNCHANGED <<Promises!context, job, waiters, owed, nextPromise>>
            /\ at' = at /\ kept' \subseteq kept /\ Promises!Counted(heap)
        BY <3>1 DEF Promises!Drop
      <3>3. /\ DOMAIN heap' = DOMAIN heap \cap Promises!Referenced'
            /\ \A b \in DOMAIN heap' : heap'[b] = heap[b]
        BY <3>2, HeapLeft
      <3> QED BY <3>2, <3>3, QuietKeeps
    <2> QED BY <1>2, <2>1, <2>2, <2>3, <2>4, <2>5 DEF Promises!ApiCall
  <1>3. CASE Promises!ScriptEnds
    <2>1. /\ UNCHANGED <<Promises!context, job, waiters, owed, nextPromise>>
          /\ at = "script" /\ at' = "drain" /\ kept' = kept /\ heap' = heap
      BY <1>3 DEF Promises!ScriptEnds
    <2> QED BY <2>1, SameHeap
  <1>4. CASE Promises!ScriptFails
    BY <1>4, EndsQuietly DEF Promises!ScriptFails
  <1>5. CASE Promises!Drain
    BY <1>5, DrainKeeps
  <1>6. CASE Promises!DrainDone
    BY <1>6, EndsQuietly DEF Promises!DrainDone
  <1>7. CASE \E outcome \in {"ok", "err"} : Promises!HandlerReturns(outcome)
    BY <1>7, SettlesTheHandled DEF Promises!HandlerReturns
  <1>8. CASE \E source \in kept : Promises!HandlerReturnsPromise(source)
    BY <1>8, HandlerReturnsPromiseKeeps
  <1>9. CASE UNCHANGED Promises!vars
    <2>1. /\ UNCHANGED <<Promises!context, job, waiters, owed, nextPromise>>
          /\ at' = at /\ kept' = kept /\ heap' = heap
      BY <1>9 DEF Promises!vars
    <2> QED BY <2>1, SameHeap
  <1> QED BY <1>1, <1>2, <1>3, <1>4, <1>5, <1>6, <1>7, <1>8, <1>9 DEF Promises!Next

-----------------------------------------------------------------------------
(* What a reaction waits for.  A promise that it was registered at and that *)
(* is still there is pending, unless customElements.define() settled it.    *)
Hears(r, b) ==
  /\ r.of \in Nat /\ r.of < nextPromise
  /\ (b \in DOMAIN heap /\ heap[b].id = r.of
        => heap[b].state = "pending" \/ heap[b].quiet)

Heard == \A b \in Addresses : \A i \in DOMAIN reactions[b] : Hears(reactions[b][i], b)

(* A cell stays, is fresh, or is settled; then either its reactions are     *)
(* taken or it was settled quietly.                                         *)
Minds(b) ==
  b \in DOMAIN heap' =>
    \/ b \in DOMAIN heap /\ heap'[b] = heap[b]
    \/ heap'[b].id = nextPromise
    \/ heap'[b].quiet
    \/ reactions'[b] = <<>>

(* A row stays, is emptied, or gets one that waits for what is pending.     *)
Joins(b) ==
  \/ reactions'[b] = <<>>
  \/ reactions'[b] = reactions[b]
  \/ \E r \in Promises!Reactions :
       /\ reactions'[b] = Append(reactions[b], r)
       /\ b \in DOMAIN heap /\ heap[b].state = "pending" /\ r.of = heap[b].id

LEMMA HeardKeeps ==
  ASSUME JobsInv, Heard, nextPromise' = nextPromise \/ nextPromise' = nextPromise + 1,
         \A b \in Addresses : Minds(b) /\ Joins(b)
  PROVE  Heard'
  <1>1. /\ nextPromise \in Nat /\ reactions \in Table
        /\ \A b \in DOMAIN heap : heap[b] \in Cell /\ heap[b].id < nextPromise
    BY HeldCells DEF JobsInv, JobTypes, QueueTypes
  <1>2. nextPromise' \in Nat /\ nextPromise <= nextPromise'
    BY <1>1
  <1> SUFFICES ASSUME NEW b \in Addresses, NEW i \in DOMAIN reactions'[b]
               PROVE  Hears(reactions[b][i], b)'
    BY DEF Heard
  <1> DEFINE r == reactions'[b][i]
  <1>3. reactions'[b] # <<>>
    OBVIOUS
  <1>4. /\ r.of \in Nat /\ r.of < nextPromise
        /\ (b \in DOMAIN heap /\ heap[b].id = r.of
              => heap[b].state = "pending" \/ heap[b].quiet)
    <2>1. CASE reactions'[b] = reactions[b]
      BY <2>1 DEF Heard, Hears
    <2>2. CASE \E q \in Promises!Reactions :
                 /\ reactions'[b] = Append(reactions[b], q)
                 /\ b \in DOMAIN heap /\ heap[b].state = "pending" /\ q.of = heap[b].id
      <3>1. PICK q \in Promises!Reactions :
                 /\ reactions'[b] = Append(reactions[b], q)
                 /\ b \in DOMAIN heap /\ heap[b].state = "pending" /\ q.of = heap[b].id
        BY <2>2
      <3>2. reactions[b] \in Seq(Promises!Reactions)
        BY <1>1 DEF Table
      <3>3. (i \in DOMAIN reactions[b] /\ r = reactions[b][i]) \/ r = q
        BY <3>1, <3>2
      <3>4. CASE i \in DOMAIN reactions[b] /\ r = reactions[b][i]
        BY <3>4 DEF Heard, Hears
      <3>5. CASE r = q
        <4>1. heap[b].id \in Nat
          BY <1>1, <3>1, CellFields
        <4> QED BY <4>1, <3>1, <3>5, <1>1
      <3> QED BY <3>3, <3>4, <3>5
    <2> QED BY <1>3, <2>1, <2>2 DEF Joins
  <1> HIDE DEF r
  <1>5. r.of < nextPromise'
    BY <1>1, <1>2, <1>4
  <1>6. b \in DOMAIN heap' /\ heap'[b].id = r.of => heap'[b].state = "pending" \/ heap'[b].quiet
    BY <1>1, <1>3, <1>4 DEF Minds
  <1>7. /\ r.of \in Nat /\ r.of < nextPromise'
        /\ (b \in DOMAIN heap' /\ heap'[b].id = r.of
              => heap'[b].state = "pending" \/ heap'[b].quiet)
    BY <1>4, <1>5, <1>6
  <1> QED BY <1>7 DEF Hears, r

(* The turn ends and no reaction is left.                                   *)
LEMMA HeardAtTheEnd ==
  ASSUME JobsInv, Heard, Promises!TurnEnds, nextPromise' = nextPromise
  PROVE  Heard'
  <1>1. \A b \in Addresses : reactions'[b] = <<>>
    BY DEF Promises!TurnEnds, Promises!NoReactions
  <1> QED BY <1>1, HeardKeeps DEF Minds, Joins

(* A promise is made.                                                       *)
LEMMA HeardWhenMade ==
  ASSUME JobsInv, Heard, nextPromise' = nextPromise + 1,
         NEW a \in Promises!Free, NEW state \in {"ok", "err", "pending"},
         Promises!Counted(Promises!Allocated(a, state)), \A b \in Addresses : Joins(b)
  PROVE  Heard'
  <1> DEFINE cells == Promises!Allocated(a, state)
  <1>1. FreshIn(cells, a, state)
    BY FreshCell
  <1>2. /\ DOMAIN heap' = DOMAIN cells \cap Promises!Referenced'
        /\ \A b \in DOMAIN heap' : heap'[b] = cells[b]
    BY HeapLeft
  <1> HIDE DEF cells
  <1>3. \A b \in Addresses : Minds(b)
    BY <1>1, <1>2 DEF FreshIn, Minds
  <1> QED BY <1>3, HeardKeeps

LEMMA HeardAfterThen ==
  ASSUME JobsInv, Heard, NEW a \in Promises!Free, NEW source \in kept,
         NEW handlers \in Promises!Handlers, Promises!Then(source, handlers, a)
  PROVE  Heard'
  <1> DEFINE r == Promises!Reaction(heap[source].id, handlers, a, "none")
  <1>1. source \in DOMAIN heap /\ heap[source].id \in Nat /\ reactions \in Table
    BY HeldCells, CellFields DEF JobsInv, JobTypes, QueueTypes
  <1>2. r \in Promises!Reactions /\ r.of = heap[source].id
    BY <1>1 DEF Promises!Free, Promises!Reaction, Promises!Reactions
  <1>3. \/ heap[source].state = "pending" /\ reactions' = Longer(reactions, source, r)
        \/ reactions' = reactions
    BY DEF Promises!Then, Promises!Registered, Longer
  <1> HIDE DEF r
  <1>4. \A b \in Addresses : Joins(b)
    BY <1>1, <1>2, <1>3 DEF Joins, Longer, Table
  <1>5. nextPromise' = nextPromise + 1 /\ Promises!Counted(Promises!Allocated(a, "pending"))
    BY DEF Promises!Then
  <1> QED BY <1>4, <1>5, HeardWhenMade

LEMMA HeardAfterDefine ==
  ASSUME JobsInv, Heard, Promises!Define
  PROVE  Heard'
  <1> DEFINE cells == [a \in DOMAIN heap |->
                         IF a \in waiters THEN [heap[a] EXCEPT !.state = "ok", !.quiet = TRUE]
                                          ELSE heap[a]]
  <1>1. reactions' = reactions /\ nextPromise' = nextPromise /\ Promises!Counted(cells)
    BY DEF Promises!Define, Promises!context
  <1>2. /\ DOMAIN heap' = DOMAIN cells \cap Promises!Referenced'
        /\ \A b \in DOMAIN heap' : heap'[b] = cells[b]
    BY <1>1, HeapLeft
  <1>3. /\ DOMAIN cells = DOMAIN heap
        /\ \A b \in DOMAIN heap : \/ cells[b] = heap[b]
                                 \/ cells[b] = Quietly(heap[b])
    BY DEF Quietly
  <1> HIDE DEF cells
  <1>4. \A b \in DOMAIN heap : Quietly(heap[b]).quiet
    BY HeldCells, CellFields
  <1>5. \A b \in Addresses : Minds(b) /\ Joins(b)
    BY <1>1, <1>2, <1>3, <1>4 DEF Minds, Joins
  <1> QED BY <1>1, <1>5, HeardKeeps

LEMMA HeardAfterSettle ==
  ASSUME JobsInv, Heard, NEW a \in Held, NEW state, NEW rest, NEW done,
         Promises!Settle(a, state, rest, done)
  PROVE  Heard'
  <1> DEFINE cells == [heap EXCEPT ![a].state = state]
  <1>1. /\ nextPromise' = nextPromise /\ Promises!Counted(cells)
        /\ \/ Promises!TurnEnds
           \/ reactions' = Emptied(reactions, a)
    BY DEF Promises!Settle, Emptied
  <1>2. a \in Addresses /\ reactions \in Table
    BY HeldCells DEF JobsInv, JobTypes, QueueTypes
  <1>3. /\ DOMAIN heap' = DOMAIN cells \cap Promises!Referenced'
        /\ \A b \in DOMAIN heap' : heap'[b] = cells[b]
    BY <1>1, HeapLeft
  <1>4. DOMAIN cells = DOMAIN heap /\ \A b \in DOMAIN heap : b # a => cells[b] = heap[b]
    OBVIOUS
  <1> HIDE DEF cells
  <1>a. CASE Promises!TurnEnds
    BY <1>a, <1>1, HeardAtTheEnd
  <1>b. CASE reactions' = Emptied(reactions, a)
    <2>1. reactions'[a] = <<>> /\ \A b \in Addresses : b # a => reactions'[b] = reactions[b]
      BY <1>b, <1>2 DEF Emptied, Table
    <2>2. \A b \in Addresses : Minds(b) /\ Joins(b)
      BY <2>1, <1>3, <1>4 DEF Minds, Joins
    <2> QED BY <2>2, <1>1, HeardKeeps
  <1> QED BY <1>1, <1>a, <1>b

(* No reaction comes and no promise changes; some may be freed.             *)
LEMMA HeardUnchanged ==
  ASSUME JobsInv, Heard, UNCHANGED <<reactions, nextPromise>>,
         heap' = heap \/ Promises!Counted(heap)
  PROVE  Heard'
  <1>1. \A b \in DOMAIN heap' : b \in DOMAIN heap /\ heap'[b] = heap[b]
    BY HeapLeft
  <1>2. \A b \in Addresses : Minds(b) /\ Joins(b)
    BY <1>1 DEF Minds, Joins
  <1> QED BY <1>2, HeardKeeps

LEMMA HeardAfterWait ==
  ASSUME JobsInv, Heard, at = "handler", NEW source \in kept,
         NEW override \in {"none", "ok"}, heap[source].state = "pending",
         Promises!Wait(job.result, source, override)
  PROVE  Heard'
  <1> DEFINE r == Promises!Reaction(heap[source].id, {}, job.result, override)
  <1>1. /\ nextPromise' = nextPromise /\ Promises!Counted(heap)
        /\ Promises!TurnEnds \/ reactions' = Longer(reactions, source, r)
    BY DEF Promises!Wait, Promises!Registered, Longer
  <1>2. source \in DOMAIN heap /\ heap[source].id \in Nat /\ reactions \in Table
        /\ job.result \in Addresses
    BY HeldCells, CellFields, WhileHandling DEF JobsInv, JobTypes, QueueTypes
  <1>3. r \in Promises!Reactions /\ r.of = heap[source].id
    BY <1>2 DEF Promises!Reaction, Promises!Reactions
  <1>4. \A b \in DOMAIN heap' : b \in DOMAIN heap /\ heap'[b] = heap[b]
    BY <1>1, HeapLeft
  <1> HIDE DEF r
  <1>a. CASE Promises!TurnEnds
    BY <1>a, <1>1, HeardAtTheEnd
  <1>b. CASE reactions' = Longer(reactions, source, r)
    <2>1. \A b \in Addresses : Minds(b) /\ Joins(b)
      BY <1>b, <1>2, <1>3, <1>4 DEF Minds, Joins, Longer, Table
    <2> QED BY <2>1, <1>1, HeardKeeps
  <1> QED BY <1>1, <1>a, <1>b

LEMMA HeardAfterReturn ==
  ASSUME JobsInv, Heard, NEW source \in kept, Promises!HandlerReturnsPromise(source)
  PROVE  Heard'
  <1>1. at = "handler" /\ job.result \in Held
    BY WhileHandling DEF Promises!HandlerReturnsPromise
  <1>2. \/ /\ heap[source].state = "pending"
           /\ \E override \in {"none", "ok"} : Promises!Wait(job.result, source, override)
        \/ \E state : Promises!Settle(job.result, state, jobs, processed)
    <2>1. CASE job.kind = "finally"
      BY <2>1 DEF Promises!HandlerReturnsPromise
    <2>2. CASE job.kind # "finally"
      <3>1. Promises!Follow(job.result, source)
        BY <2>2 DEF Promises!HandlerReturnsPromise
      <3>2. CASE source # job.result /\ heap[source].state = "pending"
        BY <3>1, <3>2 DEF Promises!Follow
      <3>3. CASE source = job.result \/ heap[source].state # "pending"
        BY <3>1, <3>3 DEF Promises!Follow
      <3> QED BY <3>2, <3>3
    <2> QED BY <2>1, <2>2
  <1> QED BY <1>1, <1>2, HeardAfterWait, HeardAfterSettle

LEMMA HeardAfterDrain ==
  ASSUME JobsInv, Heard, Promises!Drain
  PROVE  Heard'
  <1>1. at = "drain" /\ jobs # <<>>
        /\ \/ UNCHANGED <<heap, reactions, nextPromise>>
           \/ Promises!Settle(Head(jobs).result, Head(jobs).kind, Tail(jobs), processed + 1)
    BY DEF Promises!Drain
  <1>2. jobs \in Seq(SoundJobs) /\ Untangled(jobs, reactions) /\ Held = Promised(jobs, reactions)
    BY <1>1 DEF JobsInv, JobTypes, QueueTypes, Apart, Held
  <1>3. Head(jobs).result \in Held
    BY <1>1, <1>2, WithoutJob DEF JobsInv, JobTypes, QueueTypes
  <1> QED BY <1>1, <1>3, HeardUnchanged, HeardAfterSettle

LEMMA NextHeard ==
  ASSUME JobsInv, Heard, [Promises!Next]_(Promises!vars)
  PROVE  Heard'
  <1>1. CASE Promises!StartTurn \/ Promises!ScriptEnds \/ UNCHANGED Promises!vars
    <2>1. UNCHANGED <<heap, reactions, nextPromise>>
      BY <1>1 DEF Promises!StartTurn, Promises!ScriptEnds, Promises!vars, Promises!context
    <2> QED BY <2>1, HeardUnchanged
  <1>2. CASE Promises!ApiCall
    <2>1. CASE \E a \in Promises!Free, state \in {"ok", "err", "pending"} : Promises!Make(a, state)
      <3>1. PICK a \in Promises!Free, state \in {"ok", "err", "pending"} : Promises!Make(a, state)
        BY <2>1
      <3>2. reactions' = reactions /\ nextPromise' = nextPromise + 1
            /\ Promises!Counted(Promises!Allocated(a, state))
        BY <3>1 DEF Promises!Make, Promises!context
      <3> QED BY <3>2, HeardWhenMade DEF Joins
    <2>2. CASE \E a \in Promises!Free : Promises!WhenDefined(a)
      <3>1. PICK a \in Promises!Free : Promises!WhenDefined(a)
        BY <2>2
      <3>2. reactions' = reactions /\ nextPromise' = nextPromise + 1
            /\ \E state \in {"ok", "err", "pending"} :
                 Promises!Counted(Promises!Allocated(a, state))
        BY <3>1 DEF Promises!WhenDefined, Promises!context
      <3> QED BY <3>2, HeardWhenMade DEF Joins
    <2>3. CASE \E a \in Promises!Free, source \in kept, handlers \in Promises!Handlers :
                 Promises!Then(source, handlers, a)
      BY <2>3, HeardAfterThen
    <2>4. CASE Promises!Define
      BY <2>4, HeardAfterDefine
    <2>5. CASE \E a \in kept : Promises!Drop(a)
      <3>1. UNCHANGED <<reactions, nextPromise>> /\ Promises!Counted(heap)
        BY <2>5 DEF Promises!Drop, Promises!context
      <3> QED BY <3>1, HeardUnchanged
    <2> QED BY <1>2, <2>1, <2>2, <2>3, <2>4, <2>5 DEF Promises!ApiCall
  <1>3. CASE Promises!ScriptFails \/ Promises!DrainDone
    BY <1>3, HeardAtTheEnd DEF Promises!ScriptFails, Promises!DrainDone
  <1>4. CASE Promises!Drain
    BY <1>4, HeardAfterDrain
  <1>5. CASE \E outcome \in {"ok", "err"} : Promises!HandlerReturns(outcome)
    BY <1>5, WhileHandling, HeardAfterSettle DEF Promises!HandlerReturns
  <1>6. CASE \E source \in kept : Promises!HandlerReturnsPromise(source)
    BY <1>6, HeardAfterReturn
  <1> QED BY <1>1, <1>2, <1>3, <1>4, <1>5, <1>6 DEF Promises!Next

LEMMA InitHeard == Promises!Init => Heard
  BY DEF Promises!Init, Promises!NoReactions, Heard
-----------------------------------------------------------------------------
LEMMA SameCardinality == \A S : Promises!Cardinality(S) = Cardinality(S)
  BY DEF Promises!Cardinality, Cardinality

(* From the queues to the counts of OwedOnce.                              *)
LEMMA OneHolds ==
  ASSUME JobsInv, NEW a \in Held
  PROVE  Promises!Owing(a) = 1
  <1>1. /\ Untangled(jobs, reactions) /\ (at = "handler" <=> job # Promises!NoJob)
        /\ at = "handler" => job.result \notin Promised(jobs, reactions)
    BY DEF JobsInv, JobTypes, QueueTypes, Apart
  <1>2. \A w : w \in Promises!Waiting <=>
          \E b \in Addresses : \E i \in DOMAIN reactions[b] : w = <<b, i>>
    BY DEF Promises!Waiting
  <1>3. a \notin Results(jobs) => Promises!InJobs(a) = {}
    BY DEF Results, Promises!Results, Promises!InJobs
  <1>4. (\A b \in Addresses : a \notin Results(reactions[b])) => Promises!InReactions(a) = {}
    BY <1>2 DEF Results, Promises!Results, Promises!InReactions
  <1>5. ~ (at = "handler" /\ job.result = a) => Promises!InHand(a) = {}
    BY <1>1 DEF Promises!InHand
  <1>6. CASE a \in Results(jobs)
    <2>1. PICK i \in DOMAIN jobs : jobs[i].result = a
      BY <1>6 DEF Results, Promises!Results
    <2>2. Promises!InJobs(a) = {i}
      BY <2>1, <1>1 DEF Untangled, Distinct, Promises!InJobs
    <2>3. Promises!InReactions(a) = {} /\ Promises!InHand(a) = {}
      BY <1>1, <1>4, <1>5, <1>6, PromisedMember DEF Untangled, Promises!InReactions, Promises!InHand
    <2>4. Cardinality({i}) = 1 /\ Cardinality({}) = 0
      BY FS_EmptySet, FS_Singleton
    <2> QED BY <2>2, <2>3, <2>4, SameCardinality DEF Promises!Owing
  <1>7. CASE \E b \in Addresses : a \in Results(reactions[b])
    <2>1. PICK b \in Addresses : a \in Results(reactions[b])
      BY <1>7
    <2>2. PICK i \in DOMAIN reactions[b] : reactions[b][i].result = a
      BY <2>1 DEF Results, Promises!Results
    <2>3. \A c \in Addresses : c # b => a \notin Results(reactions[c])
      BY <2>1, <1>1 DEF Untangled
    <2>4. \A c \in Addresses : \A k \in DOMAIN reactions[c] :
            reactions[c][k].result = a => c = b /\ k = i
      BY <2>2, <2>3, <1>1 DEF Untangled, Distinct, Results, Promises!Results
    <2>5. Promises!InReactions(a) = {<<b, i>>}
      BY <2>2, <2>4, <1>2 DEF Promises!InReactions
    <2>6. Promises!InJobs(a) = {} /\ Promises!InHand(a) = {}
      BY <2>1, <1>1, <1>3, <1>5, PromisedMember DEF Untangled, Promises!InJobs, Promises!InHand
    <2>7. Cardinality({<<b, i>>}) = 1 /\ Cardinality({}) = 0
      BY FS_EmptySet, FS_Singleton
    <2> QED BY <2>5, <2>6, <2>7, SameCardinality DEF Promises!Owing
  <1>8. CASE /\ a \notin Results(jobs) /\ \A b \in Addresses : a \notin Results(reactions[b])
    <2>1. at = "handler" /\ job.result = a
      BY <1>8, PromisedMember DEF Held
    <2>2. Promises!InHand(a) = {job}
      BY <2>1, <1>1 DEF Promises!InHand
    <2>3. Cardinality({job}) = 1 /\ Cardinality({}) = 0
      BY FS_EmptySet, FS_Singleton
    <2> QED BY <2>2, <2>3, <1>3, <1>4, <1>8, SameCardinality DEF Promises!Owing
  <1> QED BY <1>6, <1>7, <1>8

LEMMA NoneHolds ==
  ASSUME JobsInv, NEW a, a \notin Held
  PROVE  Promises!Owing(a) = 0
  <1>1. /\ a \notin Results(jobs) /\ \A b \in Addresses : a \notin Results(reactions[b])
        /\ ~ (at = "handler" /\ job.result = a)
    BY PromisedMember DEF Held
  <1>2. Promises!InJobs(a) = {}
    BY <1>1 DEF Results, Promises!Results, Promises!InJobs
  <1>3. \A w : w \in Promises!Waiting <=>
          \E b \in Addresses : \E i \in DOMAIN reactions[b] : w = <<b, i>>
    BY DEF Promises!Waiting
  <1>4. Promises!InReactions(a) = {}
    BY <1>1, <1>3 DEF Results, Promises!Results, Promises!InReactions
  <1>5. Promises!InHand(a) = {}
    BY <1>1 DEF JobsInv, JobTypes, QueueTypes, Promises!InHand
  <1> QED BY <1>2, <1>4, <1>5, FS_EmptySet, SameCardinality DEF Promises!Owing

(* While a turn lasts, what then() returned is promised an outcome by       *)
(* exactly one job or reaction as long as it is pending, and by none after; *)
(* and a reaction waits for a promise that is pending, unless that promise  *)
(* was freed or customElements.define() settled it: no other step loses an  *)
(* outcome, for any number of promises and whatever the limits are.         *)
THEOREM Owed == Promises!Spec => []OwedOnce
  <1>1. JobsInv /\ Heard => OwedOnce
    <2> SUFFICES ASSUME JobsInv, Heard, NEW a \in DOMAIN heap, heap[a].id \in owed
                 PROVE  /\ Promises!Owing(a) = IF heap[a].state = "pending" THEN 1 ELSE 0
                        /\ \A w \in Promises!InReactions(a) :
                             Promises!Awaited(w) \/ Promises!Forsaken(w)
      BY DEF OwedOnce, Promises!OwedOnce
    <2>1. \A w \in Promises!InReactions(a) : Promises!Awaited(w) \/ Promises!Forsaken(w)
      <3> TAKE w \in Promises!InReactions(a)
      <3>1. PICK b \in Addresses : \E i \in DOMAIN reactions[b] : w = <<b, i>>
        BY DEF Promises!InReactions, Promises!Waiting
      <3>2. PICK i \in DOMAIN reactions[b] : w = <<b, i>>
        BY <3>1
      <3>3. Hears(reactions[b][i], b) /\ w[1] = b /\ w[2] = i
        BY <3>2 DEF Heard
      <3> QED BY <3>3 DEF Hears, Promises!Awaited, Promises!Forsaken
    <2>2. CASE a \in Held
      <3>1. heap[a].state = "pending"
        BY <2>2, HeldCells
      <3> QED BY <2>1, <2>2, <3>1, OneHolds
    <2>3. CASE a \notin Held
      <3>1. heap[a].state # "pending"
        BY <2>3, HeldCells
      <3> QED BY <2>1, <2>3, <3>1, NoneHolds
    <2> QED BY <2>2, <2>3
  <1>2. JobsInv /\ Heard /\ [Promises!Next]_(Promises!vars) => JobsInv' /\ Heard'
    BY NextPromises, NextHeard
  <1> QED BY <1>1, <1>2, InitPromises, InitHeard, PTL DEF Promises!Spec

(* A promise that has an outcome keeps it, whatever address it was given   *)
(* and whatever handlers return: the same invariant shows that only what   *)
(* is pending is ever settled.                                             *)
THEOREM Settles == Promises!Spec => SettlesOnce
  <1>1. JobsInv /\ [Promises!Next]_(Promises!vars) => JobsInv' /\ StaysSettled
    BY NextPromises
  <1>2. JobsInv /\ [Promises!Next]_(Promises!vars) => JobsInv'
    BY <1>1
  <1>3. JobsInv /\ [Promises!Next]_(Promises!vars) => [StaysSettled]_(Promises!vars)
    BY <1>1
  <1>4. SettlesOnce <=> [][StaysSettled]_(Promises!vars)
    BY DEF SettlesOnce, Promises!SettlesOnce, StaysSettled
  <1> QED BY <1>2, <1>3, <1>4, InitPromises, PTL DEF Promises!Spec

-----------------------------------------------------------------------------
(* The styles.  Of the tree the proof needs that no element has two        *)
(* parents and the root none.                                              *)
Tree ==
  /\ children \in [Elements -> Seq(Elements)]
  /\ \A p, q, n \in Elements : Styles!IsParent(p, n) /\ Styles!IsParent(q, n) => p = q
  /\ ~Styles!HasParent(RootElement)

LEMMA RootIsElement == RootElement \in Elements
  BY CascadeAssumption DEF Styles!CascadeAssumption

LEMMA ChildOf ==
  ASSUME Tree, NEW p \in Elements, NEW n \in Range(children[p])
  PROVE  n \in Elements /\ Styles!HasParent(n) /\ Styles!Parent(n) = p
  <1>1. n \in Elements
    <2>1. children[p] \in Seq(Elements)
      BY DEF Tree
    <2> QED BY <2>1, LenProperties, ElementOfSeq DEF Range
  <1>2. Styles!IsParent(p, n)
    BY DEF Styles!IsParent, Styles!Range, Range
  <1>3. Styles!HasParent(n)
    BY <1>2 DEF Styles!HasParent
  <1>4. Styles!Parent(n) \in Elements /\ Styles!IsParent(Styles!Parent(n), n)
    BY <1>2 DEF Styles!Parent
  <1> QED BY <1>1, <1>2, <1>3, <1>4 DEF Tree

LEMMA AttachedIs ==
  ASSUME Tree, NEW S, S \subseteq Elements, RootElement \in S,
         \A p \in S : Range(children[p]) \subseteq S
  PROVE  Styles!Attached \subseteq S
  BY DEF Styles!Attached, Styles!Range, Range

LEMMA AttachedClosed ==
  ASSUME Tree
  PROVE  /\ RootElement \in Styles!Attached /\ Styles!Attached \subseteq Elements
         /\ \A p \in Styles!Attached : Range(children[p]) \subseteq Styles!Attached
  <1>1. RootElement \in Styles!Attached /\ Styles!Attached \subseteq Elements
    BY RootIsElement DEF Styles!Attached
  <1>2. ASSUME NEW p \in Styles!Attached, NEW n \in Range(children[p]) PROVE n \in Styles!Attached
    <2>1. n \in Elements
      BY <1>1, ChildOf
    <2>2. ASSUME NEW S \in SUBSET Elements, RootElement \in S,
                 \A q \in S : Styles!Range(children[q]) \subseteq S
          PROVE  n \in S
      <3>1. p \in S
        BY <2>2 DEF Styles!Attached
      <3> QED BY <2>2, <3>1 DEF Styles!Range, Range
    <2> QED BY <2>1, <2>2 DEF Styles!Attached
  <1> QED BY <1>1, <1>2

\* An attached element is the root, or its parent is attached.
LEMMA AttachedParent ==
  ASSUME Tree, NEW n \in Styles!Attached
  PROVE  IF Styles!HasParent(n) THEN Styles!Parent(n) \in Styles!Attached ELSE n = RootElement
  <1> DEFINE S == {m \in Styles!Attached :
                     IF Styles!HasParent(m) THEN Styles!Parent(m) \in Styles!Attached ELSE m = RootElement}
  <1>1. RootElement \in S
    BY AttachedClosed DEF Tree
  <1>2. ASSUME NEW p \in S, NEW m \in Range(children[p]) PROVE m \in S
    <2>1. p \in Styles!Attached /\ p \in Elements /\ m \in Styles!Attached
      BY AttachedClosed
    <2>2. Styles!HasParent(m) /\ Styles!Parent(m) = p
      BY <2>1, ChildOf
    <2> QED BY <2>1, <2>2
  <1>3. S \subseteq Elements
    BY AttachedClosed
  <1> HIDE DEF S
  <1>4. Styles!Attached \subseteq S
    BY <1>1, <1>2, <1>3, AttachedIs
  <1> QED BY <1>4 DEF S

(* The walk.  Elements settle from the root downwards, so that the         *)
(* recursion has a solution.                                               *)
Walk(g) == [n \in Styles!Attached |-> Styles!Styled(n, Styles!Above(g, n))]
Rounds(g, k) == g[0] = <<>> /\ \A i \in 1 .. k : g[i] = Walk(g[i - 1])
FixedAt(n, k, v) == \A g, j : j \in Nat /\ j >= k /\ Rounds(g, j) => g[j][n] = v

LEMMA RoundsExist ==
  ASSUME NEW k \in Nat
  PROVE  \E g : Rounds(g, k)
  <1> DEFINE T == {n \in Nat : \E g : Rounds(g, n)}
  <1>1. 0 \in T
    <2> DEFINE g == [i \in 0 .. 0 |-> <<>>]
    <2>1. g[0] = <<>>
      OBVIOUS
    <2> HIDE DEF g
    <2>2. Rounds(g, 0)
      BY <2>1 DEF Rounds
    <2> QED BY <2>2
  <1>2. ASSUME NEW n \in T PROVE n + 1 \in T
    <2>1. PICK g : Rounds(g, n)
      OBVIOUS
    <2> DEFINE h == [i \in 0 .. n + 1 |-> IF i = n + 1 THEN Walk(g[n]) ELSE g[i]]
    <2>2. n \in Nat
      OBVIOUS
    <2>3. h[0] = g[0] /\ h[n + 1] = Walk(g[n]) /\ \A i \in 0 .. n : h[i] = g[i]
      BY <2>2
    <2> HIDE DEF h
    <2>4. ASSUME NEW i \in 1 .. n + 1 PROVE h[i] = Walk(h[i - 1])
      <3>1. CASE i = n + 1
        <4>1. i - 1 = n /\ n \in 0 .. n
          BY <2>2, <3>1
        <4> QED BY <2>3, <3>1, <4>1
      <3>2. CASE i # n + 1
        <4>1. i \in 1 .. n /\ i \in 0 .. n /\ i - 1 \in 0 .. n
          BY <2>2, <3>2
        <4> QED BY <2>1, <2>3, <4>1 DEF Rounds
      <3> QED BY <3>1, <3>2
    <2>5. Rounds(h, n + 1)
      BY <2>1, <2>3, <2>4 DEF Rounds
    <2> QED BY <2>2, <2>5
  <1>3. T \subseteq Nat
    OBVIOUS
  <1> HIDE DEF T
  <1>4. k \in T
    BY <1>1, <1>2, <1>3, Counting
  <1> QED BY <1>4 DEF T

\* In a round an element gets its style from that of its parent in the last.
LEMMA LastRound ==
  ASSUME Tree, NEW g, NEW j \in Nat, j >= 1, Rounds(g, j), NEW n \in Styles!Attached
  PROVE  /\ j - 1 \in Nat /\ Rounds(g, j - 1)
         /\ g[j][n] = Styles!Styled(n, IF Styles!HasParent(n) THEN g[j - 1][Styles!Parent(n)]
                                       ELSE Styles!Initial)
  <1>1. j - 1 \in Nat /\ j \in 1 .. j /\ \A i \in 1 .. j - 1 : i \in 1 .. j
    OBVIOUS
  <1>2. g[j] = Walk(g[j - 1])
    BY <1>1 DEF Rounds
  <1>3. Rounds(g, j - 1)
    BY <1>1 DEF Rounds
  <1>4. g[j][n] = Styles!Styled(n, Styles!Above(g[j - 1], n))
    BY <1>2 DEF Walk
  <1> QED BY <1>1, <1>3, <1>4 DEF Styles!Above

LEMMA AllSettle ==
  ASSUME Tree, NEW n \in Styles!Attached
  PROVE  \E v : \E k \in Nat : FixedAt(n, k, v)
  <1> DEFINE S == {m \in Styles!Attached : \E v : \E k \in Nat : FixedAt(m, k, v)}
  <1>1. RootElement \in S
    <2> DEFINE v == Styles!Styled(RootElement, Styles!Initial)
    <2>1. RootElement \in Styles!Attached /\ ~Styles!HasParent(RootElement)
      BY AttachedClosed DEF Tree
    <2>2. ASSUME NEW g, NEW j, j \in Nat /\ j >= 1 /\ Rounds(g, j) PROVE g[j][RootElement] = v
      BY <2>1, <2>2, LastRound
    <2> HIDE DEF v
    <2>3. FixedAt(RootElement, 1, v)
      BY <2>2 DEF FixedAt
    <2> QED BY <2>1, <2>3
  <1>2. ASSUME NEW p \in S, NEW m \in Range(children[p]) PROVE m \in S
    <2>0. PICK v : \E k \in Nat : FixedAt(p, k, v)
      OBVIOUS
    <2>1. PICK k \in Nat : FixedAt(p, k, v)
      BY <2>0
    <2>2. p \in Elements /\ m \in Styles!Attached
      BY AttachedClosed
    <2>3. Styles!HasParent(m) /\ Styles!Parent(m) = p
      BY <2>2, ChildOf
    <2> DEFINE w == Styles!Styled(m, v)
    <2>4. ASSUME NEW g, NEW j, j \in Nat /\ j >= k + 1 /\ Rounds(g, j) PROVE g[j][m] = w
      <3>1. j - 1 \in Nat /\ Rounds(g, j - 1) /\ g[j][m] = Styles!Styled(m, g[j - 1][p])
        BY <2>2, <2>3, <2>4, LastRound
      <3>2. j - 1 >= k
        BY <2>4
      <3>3. g[j - 1][p] = v
        BY <2>1, <3>1, <3>2 DEF FixedAt
      <3> QED BY <3>1, <3>3
    <2> HIDE DEF w
    <2>5. FixedAt(m, k + 1, w)
      BY <2>4 DEF FixedAt
    <2> QED BY <2>2, <2>5
  <1>3. S \subseteq Elements
    BY AttachedClosed
  <1> HIDE DEF S
  <1>4. Styles!Attached \subseteq S
    BY <1>1, <1>2, <1>3, AttachedIs
  <1> QED BY <1>4 DEF S

LEMMA WalkedIs ==
  ASSUME Tree
  PROVE  Styles!Walked = Walk(Styles!Walked)
  <1> DEFINE last(n) == CHOOSE v : \E k \in Nat : FixedAt(n, k, v)
             g == [n \in Styles!Attached |-> last(n)]
  <1>1. ASSUME NEW n \in Styles!Attached PROVE \E k \in Nat : FixedAt(n, k, last(n))
    BY AllSettle
  <1>2. \A n \in Styles!Attached : g[n] = last(n)
    OBVIOUS
  <1> HIDE DEF last
  <1>3. ASSUME NEW n \in Styles!Attached PROVE g[n] = Styles!Styled(n, Styles!Above(g, n))
    <2>1. PICK k \in Nat : FixedAt(n, k, last(n))
      BY <1>1
    <2>2. CASE ~Styles!HasParent(n)
      <3>1. PICK h : Rounds(h, k + 1)
        BY RoundsExist
      <3>2. h[k + 1][n] = Styles!Styled(n, Styles!Initial)
        BY <2>2, <3>1, LastRound
      <3>3. h[k + 1][n] = last(n)
        BY <2>1, <3>1 DEF FixedAt
      <3> QED BY <1>2, <2>2, <3>2, <3>3 DEF Styles!Above
    <2>3. CASE Styles!HasParent(n)
      <3> DEFINE p == Styles!Parent(n)
      <3>1. p \in Styles!Attached
        BY <2>3, AttachedParent
      <3>2. PICK m \in Nat : FixedAt(p, m, last(p))
        BY <1>1, <3>1
      <3>3. k + m + 1 \in Nat /\ k + m + 1 >= k /\ (k + m + 1) - 1 >= m /\ k + m + 1 >= 1
        OBVIOUS
      <3> DEFINE j == k + m + 1
      <3>4. j \in Nat /\ j >= k /\ j - 1 >= m /\ j >= 1
        BY <3>3
      <3> HIDE DEF j
      <3>5. PICK h : Rounds(h, j)
        BY <3>4, RoundsExist
      <3>6. j - 1 \in Nat /\ Rounds(h, j - 1) /\ h[j][n] = Styles!Styled(n, h[j - 1][p])
        BY <2>3, <3>4, <3>5, LastRound
      <3>7. h[j][n] = last(n) /\ h[j - 1][p] = last(p)
        BY <2>1, <3>2, <3>4, <3>5, <3>6 DEF FixedAt
      <3>8. Styles!Above(g, n) = g[p]
        BY <2>3 DEF Styles!Above
      <3> HIDE DEF p, g
      <3> QED BY <1>2, <3>1, <3>6, <3>7, <3>8
    <2> QED BY <2>2, <2>3
  <1>4. g = Walk(g)
    <2>1. g = [n \in Styles!Attached |-> g[n]]
      OBVIOUS
    <2> HIDE DEF g
    <2> QED BY <1>3, <2>1 DEF Walk
  <1> HIDE DEF g
  <1>5. Styles!Walked = CHOOSE h : h = Walk(h)
    BY DEF Styles!Walked, Walk
  <1> QED BY <1>4, <1>5

(* The fingerprint.  What it tells all of is a function of it, StyleOf.     *)
Fits(rule, fp) ==
  /\ fp.class = rule.class
  /\ rule.first => fp.index = 1
  /\ rule.by = "adjacent" => Len(fp.before) # 0 /\ fp.before[Len(fp.before)] = rule.left
  /\ rule.by = "sibling" => \E i \in DOMAIN fp.before : fp.before[i] = rule.left

FittingOf(fp, p) ==
  {[group |-> IF Rules[i].important THEN 5 ELSE 3, specificity |-> Styles!Specificity(Rules[i]),
    order |-> i, value |-> Rules[i].value] :
     i \in {j \in DOMAIN Rules : Rules[j].property = p /\ Fits(Rules[j], fp)}}
  \cup
  {[group |-> 4, specificity |-> 0, order |-> 0, value |-> fp.inline] :
     x \in {y \in {p} : y = "color" /\ fp.inline # Styles!NoNode}}

Best(ds) == (CHOOSE d \in ds : \A e \in ds : Styles!Beats(d, e)).value

StyleOf(fp) ==
  [p \in Styles!Properties |->
     IF FittingOf(fp, p) # {} THEN Best(FittingOf(fp, p))
     ELSE IF p = "color" THEN fp.parent ELSE "initial"]

Sound(style, fp) ==
  \A p \in Styles!Properties : Styles!Told(fp.class, p) => style[p] = StyleOf(fp)[p]

CacheSound == \A n \in DOMAIN cache : Sound(cache[n].style, cache[n].fingerprint)

LEMMA BeforeIs ==
  ASSUME Tree, NEW n \in Elements
  PROVE  /\ Len(Styles!Before(n)) \in Nat
         /\ DOMAIN Styles!Before(n) = 1 .. Len(Styles!Before(n))
         /\ Styles!Before(n) \in Seq(Elements)
  <1> DEFINE s == Styles!Siblings(n)
             k == Styles!Index(n)
  <1>1. s \in Seq(Elements) /\ \E i \in DOMAIN s : s[i] = n
    <2>1. CASE Styles!HasParent(n)
      <3> DEFINE p == Styles!Parent(n)
      <3>1. p \in Elements /\ Styles!IsParent(p, n)
        BY <2>1 DEF Styles!HasParent, Styles!Parent
      <3>2. s = children[p]
        BY <2>1 DEF Styles!Siblings
      <3> HIDE DEF p, s
      <3> QED BY <3>1, <3>2 DEF Tree, Styles!IsParent, Styles!Range
    <2>2. CASE ~Styles!HasParent(n)
      <3>1. s = <<n>>
        BY <2>2 DEF Styles!Siblings
      <3> HIDE DEF s
      <3> QED BY <3>1
    <2> QED BY <2>1, <2>2
  <1>2. k \in DOMAIN s
    BY <1>1 DEF Styles!Index
  <1>3. Styles!Before(n) = SubSeq(s, 1, k - 1)
    BY DEF Styles!Before
  <1> HIDE DEF s, k
  <1>4. k \in 1 .. Len(s) /\ Len(s) \in Nat
    BY <1>1, <1>2, LenProperties
  <1>5. SubSeq(s, 1, k - 1) \in Seq(Elements)
    BY <1>1, <1>4, SubSeqProperties
  <1> QED BY <1>3, <1>5, LenProperties

LEMMA MatchesFits ==
  ASSUME Tree, NEW rule, Styles!Covered(rule), NEW n \in Elements, NEW above
  PROVE  Styles!Matches(rule, n) <=> Fits(rule, Styles!Fingerprint(n, above))
  <1> DEFINE b == Styles!Before(n)
             fp == Styles!Fingerprint(n, above)
  <1>1. Len(b) \in Nat /\ DOMAIN b = 1 .. Len(b) /\ b \in Seq(Elements)
    BY BeforeIs
  <1>2. /\ fp.class = class[n] /\ fp.index = Styles!Index(n)
        /\ fp.before = [i \in DOMAIN b |-> class[b[i]]]
    BY DEF Styles!Fingerprint
  <1> SUFFICES Styles!Matches(rule, n) <=> Fits(rule, fp)
    OBVIOUS
  <1> HIDE DEF fp
  <1>3. rule.by = Styles!NoNode \/ rule.by = "adjacent" \/ rule.by = "sibling"
    BY DEF Styles!Covered
  <1>4. ~rule.data
    BY DEF Styles!Covered
  <1> DEFINE f == fp.before
  <1>5. Len(f) = Len(b) /\ DOMAIN f = 1 .. Len(b) /\ \A i \in 1 .. Len(b) : f[i] = class[b[i]]
    <2> HIDE DEF b
    <2>1. f = [i \in 1 .. Len(b) |-> class[b[i]]]
      BY <1>1, <1>2
    <2> HIDE DEF f
    <2> QED BY <1>1, <2>1
  <1> HIDE DEF f
  <1>6. CASE rule.by = Styles!NoNode
    BY <1>2, <1>4, <1>6 DEF Styles!Matches, Fits, Styles!NoNode
  <1>7. CASE rule.by = "adjacent"
    <2>1. Styles!Reaches("adjacent", n) = IF b = <<>> THEN {} ELSE {Last(b)}
      BY DEF Styles!Reaches, Styles!Last, Last
    <2> HIDE DEF b
    <2>2. b = <<>> <=> Len(b) = 0
      BY <1>1, EmptySeq
    <2>3. Last(b) = b[Len(b)]
      BY DEF Last
    <2>4. (\E m \in Styles!Reaches("adjacent", n) : class[m] = rule.left)
            <=> Len(f) # 0 /\ f[Len(f)] = rule.left
      <3>1. Len(b) # 0 => Len(b) \in 1 .. Len(b)
        BY <1>1
      <3> QED BY <1>5, <2>1, <2>2, <2>3, <3>1
    <2> QED BY <1>2, <1>4, <1>7, <2>4 DEF Styles!Matches, Fits, Styles!NoNode, f
  <1>8. CASE rule.by = "sibling"
    <2>1. Styles!Reaches("sibling", n) = Range(b)
      BY DEF Styles!Reaches, Styles!Range, Range
    <2> HIDE DEF b
    <2>2. (\E m \in Range(b) : class[m] = rule.left) <=> \E i \in DOMAIN f : f[i] = rule.left
      BY <1>1, <1>5 DEF Range
    <2> QED BY <1>2, <1>4, <1>8, <2>1, <2>2 DEF Styles!Matches, Fits, Styles!NoNode, f
  <1> QED BY <1>3, <1>6, <1>7, <1>8

LEMMA DeclarationsFit ==
  ASSUME Tree, NEW n \in Elements, NEW above, NEW p, Styles!Told(class[n], p)
  PROVE  Styles!Declarations(n, p) = FittingOf(Styles!Fingerprint(n, above), p)
  <1> DEFINE fp == Styles!Fingerprint(n, above)
  <1>1. fp.inline = inline[n] /\ fp.class = class[n]
    BY DEF Styles!Fingerprint
  <1>2. ASSUME NEW j \in DOMAIN Rules, Rules[j].property = p
        PROVE  Styles!Matches(Rules[j], n) <=> Fits(Rules[j], fp)
    <2>1. CASE Rules[j].class = class[n]
      <3>1. Styles!Covered(Rules[j])
        BY <1>2, <2>1 DEF Styles!Told
      <3> QED BY <3>1, MatchesFits
    <2>2. CASE Rules[j].class # class[n]
      <3> HIDE DEF fp
      <3> QED BY <1>1, <2>2 DEF Styles!Matches, Fits
    <2> QED BY <2>1, <2>2
  <1> HIDE DEF fp
  <1>3. {j \in DOMAIN Rules : Rules[j].property = p /\ Styles!Matches(Rules[j], n)}
          = {j \in DOMAIN Rules : Rules[j].property = p /\ Fits(Rules[j], fp)}
    BY <1>2
  <1>4. Styles!Declarations(n, p) = FittingOf(fp, p)
    BY <1>1, <1>3 DEF Styles!Declarations, FittingOf
  <1> QED BY <1>4 DEF fp

LEMMA ComputedIs ==
  ASSUME Tree, NEW n \in Elements, NEW above
  PROVE  Sound(Styles!Compute(n, above), Styles!Fingerprint(n, above))
  <1> DEFINE fp == Styles!Fingerprint(n, above)
  <1>1. fp.parent = above["color"] /\ fp.class = class[n]
    BY DEF Styles!Fingerprint
  <1>2. \A p : Styles!Told(class[n], p) => Styles!Declarations(n, p) = FittingOf(fp, p)
    BY DeclarationsFit
  <1> HIDE DEF fp
  <1>3. Styles!Compute(n, above) =
          [p \in Styles!Properties |->
             IF Styles!Declarations(n, p) # {} THEN Best(Styles!Declarations(n, p))
             ELSE IF p \in Styles!Inherited THEN above[p] ELSE Styles!Initial[p]]
    BY DEF Styles!Compute, Best
  <1>4. ASSUME NEW p \in Styles!Properties, Styles!Told(class[n], p)
        PROVE  Styles!Compute(n, above)[p] = StyleOf(fp)[p]
    <2>1. (IF p \in Styles!Inherited THEN above[p] ELSE Styles!Initial[p])
            = IF p = "color" THEN fp.parent ELSE "initial"
      BY <1>1, <1>4 DEF Styles!Told, Styles!Properties, Styles!Inherited, Styles!Initial
    <2>2. StyleOf(fp)[p] = IF FittingOf(fp, p) # {} THEN Best(FittingOf(fp, p))
                           ELSE IF p = "color" THEN fp.parent ELSE "initial"
      BY DEF StyleOf
    <2> QED BY <1>2, <1>3, <1>4, <2>1, <2>2
  <1>5. Sound(Styles!Compute(n, above), fp)
    BY <1>1, <1>4 DEF Sound
  <1> QED BY <1>5 DEF fp

\* What is kept from the cache is what the cascade gives, where the
\* fingerprint tells all.
LEMMA StyledIs ==
  ASSUME Tree, CacheSound, NEW n \in Elements, NEW above
  PROVE  Sound(Styles!Styled(n, above), Styles!Fingerprint(n, above))
  <1>1. CASE n \in DOMAIN cache /\ cache[n].fingerprint = Styles!Fingerprint(n, above)
    BY <1>1 DEF CacheSound, Styles!Styled
  <1>2. CASE ~(n \in DOMAIN cache /\ cache[n].fingerprint = Styles!Fingerprint(n, above))
    BY <1>2, ComputedIs DEF Styles!Styled
  <1> QED BY <1>1, <1>2

-----------------------------------------------------------------------------
(* What the refreshes keep: the retained styles are current unless a flag  *)
(* asks for a cascade.                                                     *)
Current ==
  /\ DOMAIN shown = Styles!Attached
  /\ \A n \in Styles!Attached :
       Sound(shown[n], Styles!Fingerprint(n, Styles!Above(shown, n)))

StylesInv ==
  /\ Tree
  /\ CacheSound
  /\ "style" \notin stale /\ "layout" \notin stale => Current

\* All elements but the root are listed once, under the root.
LEMMA ListOf ==
  ASSUME NEW S, IsFiniteSet(S)
  PROVE  SetToSeq(S) \in Seq(S)
  <1>1. Cardinality(S) \in Nat /\ \E f : f \in Bijection(1 .. Cardinality(S), S)
    BY FS_CardinalityType DEF ExistsBijection
  <1>2. \E f \in [1 .. Cardinality(S) -> S] : IsInjective(f)
    BY <1>1 DEF Bijection, Injection, IsInjective
  <1>3. SetToSeq(S) \in [1 .. Cardinality(S) -> S]
    BY <1>2 DEF SetToSeq
  <1> QED BY <1>1, <1>3

LEMMA TreeInit == Styles!Init => Tree
  <1> SUFFICES ASSUME Styles!Init PROVE Tree
    OBVIOUS
  <1> DEFINE S == Elements \ {RootElement}
             row == SetToSeq(S)
             e == <<>>
  <1>1. row \in Seq(S)
    <2>1. IsFiniteSet(Elements)
      BY CascadeAssumption DEF Styles!CascadeAssumption, Styles!IsFiniteSet, IsFiniteSet
    <2>2. IsFiniteSet(S)
      BY <2>1, FS_Subset
    <2> HIDE DEF S
    <2> QED BY <2>2, ListOf
  <1>2. \A n \in Elements : children[n] = IF n = RootElement THEN row ELSE e
    <2>1. row = Styles!SetToSeq(Elements \ {RootElement})
      BY DEF Styles!SetToSeq, SetToSeq, Styles!IsInjective, IsInjective, Styles!Cardinality, Cardinality
    <2> HIDE DEF row
    <2> QED BY <2>1 DEF Styles!Init
  <1>3. DOMAIN children = Elements /\ children = [n \in DOMAIN children |-> children[n]]
    BY DEF Styles!Init
  <1>4. e \in Seq(S) /\ DOMAIN e = {}
    OBVIOUS
  <1>5. Seq(S) \subseteq Seq(Elements)
    BY DEF S
  <1> HIDE DEF row, e
  <1>6. \A p, n \in Elements : Styles!IsParent(p, n) => p = RootElement /\ n \in S
    <2> SUFFICES ASSUME NEW p \in Elements, NEW n \in Elements, Styles!IsParent(p, n)
                 PROVE  p = RootElement /\ n \in S
      OBVIOUS
    <2>1. PICK i \in DOMAIN children[p] : children[p][i] = n
      BY DEF Styles!IsParent, Styles!Range
    <2>2. p = RootElement
      BY <1>2, <1>4, <2>1
    <2>3. n = row[i] /\ i \in DOMAIN row
      BY <1>2, <2>1, <2>2
    <2>4. row[i] \in S
      BY <1>1, <2>3, LenProperties, ElementOfSeq
    <2> QED BY <2>2, <2>3, <2>4
  <1>7. children \in [Elements -> Seq(Elements)]
    BY <1>1, <1>2, <1>3, <1>4, <1>5
  <1>8. \A p, m, n \in Elements : Styles!IsParent(p, n) /\ Styles!IsParent(m, n) => p = m
    BY <1>6
  <1>9. ~Styles!HasParent(RootElement)
    BY <1>6, RootIsElement DEF Styles!HasParent
  <1> QED BY <1>7, <1>8, <1>9 DEF Tree

LEMMA UnlinkedRange ==
  ASSUME Tree, NEW n \in Elements, NEW p \in Elements
  PROVE  /\ Styles!Unlinked(n)[p] \in Seq(Elements)
         /\ Range(Styles!Unlinked(n)[p]) = Range(children[p]) \ {n}
  <1>1. children[p] \in Seq(Elements)
    BY DEF Tree
  <1>2. Styles!Unlinked(n)[p] = Filtered(children[p], Elements \ {n})
    BY DEF Styles!Unlinked, Styles!Filtered, Filtered
  <1>3. Range(children[p]) \subseteq Elements
    BY <1>1, LenProperties, ElementOfSeq DEF Range
  <1> QED BY <1>1, <1>2, <1>3, FilteredRange

\* A tree whose lists are those of `t`, which drop n everywhere and may then
\* have it under one element.
LEMMA RelinkedTree ==
  ASSUME Tree, NEW n \in Elements, n # RootElement, NEW U \in SUBSET Elements, NEW t,
         \A a, b \in U : a = b,
         children' = t, t \in [Elements -> Seq(Elements)],
         \A p \in Elements : Range(t[p]) = (Range(children[p]) \ {n}) \cup (IF p \in U THEN {n} ELSE {})
  PROVE  Tree'
  <1>1. \A p, m \in Elements : Styles!IsParent(p, m)' <=> m \in Range(t[p])
    BY DEF Styles!IsParent, Styles!Range, Range
  <1>2. \A p, m \in Elements : Styles!IsParent(p, m) <=> m \in Range(children[p])
    BY DEF Styles!IsParent, Styles!Range, Range
  <1>3. ASSUME NEW p \in Elements, NEW q \in Elements, NEW m \in Elements,
               m \in Range(t[p]), m \in Range(t[q])
        PROVE  p = q
    BY <1>2, <1>3 DEF Tree
  <1>4. \A p \in Elements : RootElement \notin Range(t[p])
    BY <1>2, RootIsElement DEF Tree, Styles!HasParent
  <1> QED BY <1>1, <1>3, <1>4, RootIsElement DEF Tree, Styles!HasParent

LEMMA AppendedRange ==
  ASSUME NEW A, NEW s \in Seq(A), NEW e \in A
  PROVE  Append(s, e) \in Seq(A) /\ Range(Append(s, e)) = Range(s) \cup {e}
  <1> DEFINE t == Append(s, e)
  <1>1. /\ Len(s) \in Nat /\ DOMAIN s = 1 .. Len(s)
        /\ t \in Seq(A) /\ DOMAIN t = 1 .. (Len(s) + 1)
        /\ \A i \in 1 .. Len(s) : t[i] = s[i]
        /\ t[Len(s) + 1] = e
    BY AppendProperties, LenProperties
  <1> HIDE DEF t
  <1>2. Range(t) = Range(s) \cup {e}
    BY <1>1 DEF Range
  <1> QED BY <1>1, <1>2 DEF t

LEMMA AppendTree ==
  ASSUME Tree, NEW p \in Elements, NEW n \in Elements, Styles!AppendChild(p, n)
  PROVE  Tree'
  <1> DEFINE u == Styles!Unlinked(n)
             t == [u EXCEPT ![p] = Append(@, n)]
  <1>1. children' = t /\ n # RootElement
    BY DEF Styles!AppendChild
  <1>2. DOMAIN u = Elements
    BY DEF Styles!Unlinked
  <1>3. \A m \in Elements : u[m] \in Seq(Elements) /\ Range(u[m]) = Range(children[m]) \ {n}
    BY UnlinkedRange
  <1> HIDE DEF u
  <1>4. DOMAIN t = Elements /\ t = [m \in DOMAIN t |-> t[m]]
        /\ t[p] = Append(u[p], n) /\ \A m \in Elements \ {p} : t[m] = u[m]
    BY <1>2
  <1>5. Append(u[p], n) \in Seq(Elements) /\ Range(Append(u[p], n)) = Range(u[p]) \cup {n}
    BY <1>3, AppendedRange
  <1> HIDE DEF t
  <1>6. \A m \in Elements : t[m] \in Seq(Elements)
    BY <1>3, <1>4, <1>5
  <1>7. t \in [Elements -> Seq(Elements)]
    BY <1>4, <1>6
  <1>8. ASSUME NEW m \in Elements
        PROVE  Range(t[m]) = (Range(children[m]) \ {n}) \cup (IF m \in {p} THEN {n} ELSE {})
    <2>1. CASE m = p
      BY <1>3, <1>4, <1>5, <2>1
    <2>2. CASE m # p
      BY <1>3, <1>4, <2>2
    <2> QED BY <2>1, <2>2
  <1>9. {p} \in SUBSET Elements /\ \A a, b \in {p} : a = b
    OBVIOUS
  <1> QED BY <1>1, <1>7, <1>8, <1>9, RelinkedTree

LEMMA RemoveTree ==
  ASSUME Tree, NEW n \in Elements, Styles!RemoveChild(n)
  PROVE  Tree'
  <1> DEFINE t == Styles!Unlinked(n)
  <1>1. children' = t /\ n # RootElement
    BY DEF Styles!RemoveChild, Tree
  <1>2. DOMAIN t = Elements /\ t = [m \in DOMAIN t |-> t[m]]
    BY DEF Styles!Unlinked
  <1>3. \A m \in Elements : t[m] \in Seq(Elements) /\ Range(t[m]) = Range(children[m]) \ {n}
    BY UnlinkedRange
  <1> HIDE DEF t
  <1>4. t \in [Elements -> Seq(Elements)]
    BY <1>2, <1>3
  <1> DEFINE U == {}
  <1>5. U \in SUBSET Elements /\ \A a, b \in U : a = b
    OBVIOUS
  <1>6. \A m \in Elements :
          Range(t[m]) = (Range(children[m]) \ {n}) \cup (IF m \in U THEN {n} ELSE {})
    BY <1>3
  <1> HIDE DEF U
  <1> QED BY <1>1, <1>4, <1>5, <1>6, RelinkedTree

\* Where the fingerprint tells all, the data attributes are not read.
LEMMA CurrentKept ==
  ASSUME Tree, Current, UNCHANGED <<children, class, inline, shown>>
  PROVE  Current'
  <1>1. /\ \A n : Styles!HasParent(n)' = Styles!HasParent(n)
        /\ \A n : Styles!Parent(n)' = Styles!Parent(n)
    BY DEF Styles!HasParent, Styles!Parent, Styles!IsParent, Styles!Range
  <1>2. \A n : Styles!Siblings(n)' = Styles!Siblings(n)
    BY <1>1 DEF Styles!Siblings
  <1>3. \A n : Styles!Index(n)' = Styles!Index(n)
    BY <1>2 DEF Styles!Index
  <1>4. \A n : Styles!Before(n)' = Styles!Before(n)
    BY <1>2, <1>3 DEF Styles!Before
  <1>5. Styles!Attached' = Styles!Attached
    BY DEF Styles!Attached, Styles!Range
  <1>6. \A n : Styles!Above(shown, n)' = Styles!Above(shown, n)
    BY <1>1 DEF Styles!Above
  <1>7. ASSUME NEW n, Sound(shown[n], Styles!Fingerprint(n, Styles!Above(shown, n)))
        PROVE  Sound(shown[n], Styles!Fingerprint(n, Styles!Above(shown, n)))'
    <2> DEFINE old == Styles!Fingerprint(n, Styles!Above(shown, n))
               new == old'
    <2>1. /\ new.class = old.class /\ new.inline = old.inline /\ new.parent = old.parent
          /\ new.index = old.index /\ new.before = old.before
      BY <1>3, <1>4, <1>6 DEF Styles!Fingerprint
    <2>2. Sound(shown[n], old)
      BY <1>7
    <2> HIDE DEF old, new
    <2>3. \A rule : Fits(rule, new) <=> Fits(rule, old)
      BY <2>1 DEF Fits
    <2>4. \A p : FittingOf(new, p) = FittingOf(old, p)
      BY <2>1, <2>3 DEF FittingOf
    <2>5. StyleOf(new) = StyleOf(old)
      BY <2>1, <2>4 DEF StyleOf
    <2>6. Sound(shown[n], new)
      BY <2>1, <2>2, <2>5 DEF Sound
    <2>7. shown' = shown
      OBVIOUS
    <2>8. Sound(shown[n], old)' <=> Sound(shown'[n], new)
      BY DEF Sound, StyleOf, FittingOf, Fits, Styles!Told, new
    <2> QED BY <2>6, <2>7, <2>8 DEF old
  <1>8. DOMAIN shown' = Styles!Attached'
    BY <1>5 DEF Current
  <1>9. \A n \in Styles!Attached' :
          Sound(shown[n], Styles!Fingerprint(n, Styles!Above(shown, n)))'
    BY <1>5, <1>7 DEF Current
  <1> QED BY <1>8, <1>9 DEF Current

LEMMA CacheKept ==
  ASSUME CacheSound, cache' = cache
  PROVE  CacheSound'
  BY DEF CacheSound

\* A step that asks for a cascade owes the styles nothing else.
LEMMA MarkedStyles ==
  ASSUME CacheSound, Tree', NEW flags, "style" \in flags, Styles!Mark(flags), Styles!Retained
  PROVE  StylesInv'
  <1>1. CacheSound'
    BY CacheKept DEF Styles!Retained
  <1>2. "style" \in stale'
    BY DEF Styles!Mark
  <1> QED BY <1>1, <1>2 DEF StylesInv

LEMMA TreeKept ==
  ASSUME Tree, children' = children
  PROVE  Tree'
  BY DEF Tree, Styles!HasParent, Styles!IsParent, Styles!Range

LEMMA RefreshStyles ==
  ASSUME StylesInv, Styles!Refresh
  PROVE  StylesInv'
  <1> DEFINE w == Styles!Walked
  <1>0. Tree /\ CacheSound /\ UNCHANGED <<children, class, inline, data>>
    BY DEF StylesInv, Styles!Refresh, Styles!document
  <1>1. Tree'
    BY <1>0, TreeKept
  <1>2. CASE stale \cap {"style", "layout"} # {} \/ shown = <<>>
    <2>1. shown' = w /\ cache' = Styles!Cached(w)
      BY <1>2 DEF Styles!Refresh
    <2>2. w = Walk(w)
      BY <1>0, WalkedIs
    <2> HIDE DEF w
    <2>3. ASSUME NEW n \in Styles!Attached
          PROVE  Sound(w[n], Styles!Fingerprint(n, Styles!Above(w, n)))
      <3>1. w[n] = Styles!Styled(n, Styles!Above(w, n))
        BY <2>2 DEF Walk
      <3>2. n \in Elements
        BY <1>0, AttachedClosed
      <3> DEFINE above == Styles!Above(w, n)
      <3> HIDE DEF above
      <3> QED BY <1>0, <3>1, <3>2, StyledIs DEF above
    <2>4. ASSUME NEW n \in DOMAIN cache' PROVE Sound(cache'[n].style, cache'[n].fingerprint)
      <3> DEFINE fp == Styles!Fingerprint(n, Styles!Above(w, n))
      <3>1. CASE n \in Styles!Attached
        <4>1. cache'[n] = [fingerprint |-> fp, style |-> w[n]]
          BY <2>1, <3>1 DEF Styles!Cached
        <4>2. Sound(w[n], fp)
          BY <2>3, <3>1
        <4> HIDE DEF fp
        <4> QED BY <4>1, <4>2
      <3>2. CASE n \notin Styles!Attached
        <4>1. n \in DOMAIN cache /\ cache'[n] = cache[n]
          BY <2>1, <3>2 DEF Styles!Cached
        <4> QED BY <1>0, <4>1 DEF CacheSound
      <3> QED BY <3>1, <3>2
    <2>5. CacheSound'
      BY <2>4 DEF CacheSound, Sound, StyleOf, FittingOf, Fits, Styles!Told
    <2>6. DOMAIN w = Styles!Attached
      BY <2>2 DEF Walk
    <2>7. Current'
      <3>1. Styles!Attached' = Styles!Attached
        BY <1>0 DEF Styles!Attached, Styles!Range
      <3>2. ASSUME NEW n
            PROVE  Styles!Fingerprint(n, Styles!Above(shown, n))'
                     = Styles!Fingerprint(n, Styles!Above(w, n))
        BY <1>0, <2>1 DEF Styles!Fingerprint, Styles!Above, Styles!Before, Styles!Index,
           Styles!Siblings, Styles!HasParent, Styles!Parent, Styles!IsParent, Styles!Range
      <3>3. \A n \in Styles!Attached' :
              Sound(shown[n], Styles!Fingerprint(n, Styles!Above(shown, n)))'
        <4> TAKE n \in Styles!Attached'
        <4> DEFINE fp == Styles!Fingerprint(n, Styles!Above(shown, n))
        <4>1. Sound(w[n], fp')
          BY <2>3, <3>1, <3>2
        <4>2. shown'[n] = w[n]
          BY <2>1
        <4> HIDE DEF fp
        <4>3. Sound(shown[n], fp)' <=> Sound(shown'[n], fp')
          BY DEF Sound, StyleOf, FittingOf, Fits, Styles!Told
        <4> QED BY <4>1, <4>2, <4>3 DEF fp
      <3> QED BY <2>1, <2>6, <3>1, <3>3 DEF Current
    <2> QED BY <1>1, <2>5, <2>7 DEF StylesInv
  <1>3. CASE ~(stale \cap {"style", "layout"} # {} \/ shown = <<>>)
    <2>1. UNCHANGED <<cache, shown>>
      BY <1>3 DEF Styles!Refresh, Styles!Retained
    <2>2. CacheSound' /\ Current'
      BY <1>0, <1>3, <2>1, CacheKept, CurrentKept DEF StylesInv
    <2> QED BY <1>1, <2>2 DEF StylesInv
  <1> QED BY <1>2, <1>3

LEMMA NextStyles ==
  ASSUME StylesInv, Styles!Next
  PROVE  StylesInv'
  <1>0. Tree /\ CacheSound
    BY DEF StylesInv
  <1>1. CASE Styles!Refresh
    BY <1>1, RefreshStyles
  <1>2. ASSUME NEW n \in Elements, NEW p \in Elements, Styles!AppendChild(p, n) PROVE StylesInv'
    BY <1>0, <1>2, AppendTree, MarkedStyles DEF Styles!AppendChild, Styles!MarkAll
  <1>3. ASSUME NEW n \in Elements, Styles!RemoveChild(n) PROVE StylesInv'
    BY <1>0, <1>3, RemoveTree, MarkedStyles DEF Styles!RemoveChild, Styles!MarkAll
  <1>4. ASSUME NEW n, NEW c, Styles!SetClass(n, c) PROVE StylesInv'
    BY <1>0, <1>4, TreeKept, MarkedStyles DEF Styles!SetClass, Styles!MarkAll
  <1>5. ASSUME NEW n, NEW v, Styles!SetStyle(n, v) PROVE StylesInv'
    BY <1>0, <1>5, TreeKept, MarkedStyles DEF Styles!SetStyle
  <1>6. ASSUME NEW n, Styles!SetData(n) PROVE StylesInv'
    <2>1. UNCHANGED <<children, class, inline, cache, shown>> /\ stale' = stale \cup {"paint"}
      BY <1>6 DEF Styles!SetData, Styles!Mark, Styles!Retained
    <2>2. Tree' /\ CacheSound' /\ (Current => Current')
      BY <1>0, <2>1, TreeKept, CacheKept, CurrentKept
    <2> QED BY <2>1, <2>2 DEF StylesInv
  <1>7. CASE Styles!Call
    BY <1>2, <1>3, <1>4, <1>5, <1>6, <1>7 DEF Styles!Call
  <1> QED BY <1>1, <1>7 DEF Styles!Next

(* Whatever the sheet, every attached element has after a refresh, in each *)
(* property its fingerprint tells all of, the value that the cascade gives *)
(* it then under the style of its parent, whatever was moved, removed,     *)
(* changed while detached, or left out of a full cache.  The others may be *)
(* stale: those that a rule sets by an ancestor's class or an attribute of *)
(* no special meaning, and those inherited that are not the colour.        *)
THEOREM StylesStayCurrent == Styles!Spec => []StylesAreCurrent
  <1>1. Styles!Init => StylesInv
    <2> SUFFICES ASSUME Styles!Init PROVE StylesInv
      OBVIOUS
    <2> DEFINE e == <<>>
    <2>1. cache = e /\ DOMAIN e = {} /\ "style" \in stale
      BY DEF Styles!Init
    <2> HIDE DEF e
    <2>2. CacheSound
      BY <2>1 DEF CacheSound
    <2> QED BY <2>1, <2>2, TreeInit DEF StylesInv
  <1>2. StylesInv /\ [Styles!Next]_(Styles!vars) => StylesInv'
    <2>1. ASSUME StylesInv, UNCHANGED Styles!vars PROVE StylesInv'
      <3>1. UNCHANGED <<children, class, inline, cache, shown, stale>>
        BY <2>1 DEF Styles!vars, Styles!document
      <3>2. Tree' /\ CacheSound' /\ (Current => Current')
        BY <2>1, <3>1, TreeKept, CacheKept, CurrentKept DEF StylesInv
      <3> QED BY <2>1, <3>1, <3>2 DEF StylesInv
    <2> QED BY <2>1, NextStyles
  <1>3. StylesInv => StylesAreCurrent
    <2> SUFFICES ASSUME StylesInv, stale = {}
                 PROVE  /\ DOMAIN shown = Styles!Attached
                        /\ \A n \in Styles!Attached, p \in Styles!Properties :
                             Styles!Told(class[n], p)
                               => shown[n][p] = Styles!Compute(n, Styles!Above(shown, n))[p]
      BY DEF StylesAreCurrent, Styles!StylesAreCurrent
    <2>1. Tree /\ Current
      BY DEF StylesInv
    <2>2. ASSUME NEW n \in Styles!Attached, NEW p \in Styles!Properties, Styles!Told(class[n], p)
          PROVE  shown[n][p] = Styles!Compute(n, Styles!Above(shown, n))[p]
      <3> DEFINE above == Styles!Above(shown, n)
                 fp == Styles!Fingerprint(n, above)
      <3>1. n \in Elements
        BY <2>1, AttachedClosed
      <3>2. Sound(shown[n], fp)
        BY <2>1 DEF Current
      <3> HIDE DEF above
      <3>3. Sound(Styles!Compute(n, above), fp)
        BY <2>1, <3>1, ComputedIs
      <3>4. fp.class = class[n]
        BY DEF Styles!Fingerprint
      <3> HIDE DEF fp
      <3>5. shown[n][p] = Styles!Compute(n, above)[p]
        BY <2>2, <3>2, <3>3, <3>4 DEF Sound
      <3> QED BY <3>5 DEF above
    <2> QED BY <2>1, <2>2 DEF Current
  <1> QED BY <1>1, <1>2, <1>3, PTL DEF Styles!Spec
=============================================================================
