----------------------------- MODULE BoundedHeap -----------------------------
(***************************************************************************)
(* The object heap of a RuntimeRealm: slots with generations, byte and     *)
(* object budgets, and a mark-and-sweep collector whose mark loop is one   *)
(* step per handle it takes off its stack.  The mutator may use any handle *)
(* it was ever given, stale ones included.                                 *)
(***************************************************************************)
EXTENDS Naturals, FiniteSets, FiniteSetsExt

CONSTANTS Names,              \* property names a script uses
          Scalars,            \* values that are no object references
          ScalarCost,         \* property_cost of each scalar
          HandleCost,         \* property_cost of an object reference
          ObjectBase,         \* OBJECT_BASE_BYTES
          MaxObjects, MaxProperties, MaxHeapBytes,
          GenerationModulus,  \* 2^32: generations wrap
          MaxAllocations,     \* bound: allocations of a run
          MaxCollections,     \* bound: collections of a run
          DocumentName, WindowName,
          None

Slots == 1..MaxObjects
Generations == 0..(GenerationModulus - 1)
Handles == [slot : Slots, generation : Generations]
Values == Scalars \cup Handles
Cost(v) == IF v \in Scalars THEN ScalarCost[v] ELSE HandleCost
Total(f, S) == MapThenSumSet(LAMBDA x : f[x], S)

ASSUME HeapAssumption == /\ MaxObjects \in Nat /\ MaxObjects >= 2
                         /\ MaxProperties \in Nat /\ MaxProperties >= 2
                         /\ ObjectBase \in Nat \ {0} /\ HandleCost \in Nat \ {0}
                         /\ MaxHeapBytes \in Nat
                         /\ 2 * ObjectBase + 2 * HandleCost <= MaxHeapBytes
                         /\ MaxAllocations \in Nat /\ MaxCollections \in Nat
                         /\ MaxCollections < GenerationModulus
                         /\ GenerationModulus \in Nat \ {0}
                         /\ DocumentName # WindowName
                         /\ {DocumentName, WindowName} \subseteq Names
                         /\ ScalarCost \in [Scalars -> Nat \ {0}]
ASSUME ValuesAssumption == None \notin Values /\ Scalars \cap Handles = {}

Objects == [prototype : Handles \cup {None}, properties : [Names -> Values \cup {None}]]
ASSUME NoneIsNoObject == None \notin Objects

VARIABLES size,         \* slots.len()
          generation, object, bytes,  \* the slots
          free,         \* free_slots; which free slot is reused is left open
          usedBytes, liveObjects,
          phase,        \* "mutate", or "mark" inside collect_garbage
          marked, pending,            \* the mark bits and the mark stack
          issued, allocations,        \* history: the handles returned, and how often
          collections

vars == <<size, generation, object, bytes, free, usedBytes, liveObjects, phase,
          marked, pending, issued, allocations, collections>>
store == <<size, generation, object, bytes, free, usedBytes, liveObjects>>
history == <<issued, allocations, collections>>
collector == <<phase, marked, pending>>

Global == [slot |-> 1, generation |-> 0]
Document == [slot |-> 2, generation |-> 0]
Roots == {Global, Document}

Live == {s \in Slots : object[s] # None}
Resolves(h) == object[h.slot] # None /\ generation[h.slot] = h.generation
Properties(o) == {n \in Names : o.properties[n] # None}
NoProperties == [n \in Names |-> None]
Fresh == [prototype |-> None, properties |-> NoProperties]
References(o) == Handles \cap ({o.prototype} \cup {o.properties[n] : n \in Names})

(* RuntimeRealm::new: the global object and the document, linked.          *)
Init == /\ size = 2
        /\ generation = [s \in Slots |-> 0]
        /\ object = [s \in Slots |->
             CASE s = 1 -> [Fresh EXCEPT !.properties = [NoProperties EXCEPT
                              ![DocumentName] = Document, ![WindowName] = Global]]
               [] s = 2 -> Fresh
               [] OTHER -> None]
        /\ bytes = [s \in Slots |->
             CASE s = 1 -> ObjectBase + 2 * HandleCost
               [] s = 2 -> ObjectBase
               [] OTHER -> 0]
        /\ free = {}
        /\ usedBytes = 2 * ObjectBase + 2 * HandleCost
        /\ liveObjects = 2
        /\ phase = "mutate" /\ marked = {} /\ pending = {}
        /\ issued = Roots /\ allocations = 2 /\ collections = 0
-----------------------------------------------------------------------------

(* allocate(): a free slot is reused before the vector grows.              *)
Allocate(s) ==
    /\ phase = "mutate"
    /\ allocations < MaxAllocations
    /\ liveObjects < MaxObjects
    /\ usedBytes + ObjectBase <= MaxHeapBytes
    /\ \/ s \in free /\ free' = free \ {s} /\ UNCHANGED size
       \/ free = {} /\ s = size + 1 /\ size' = s /\ UNCHANGED free
    /\ object' = [object EXCEPT ![s] = Fresh]
    /\ bytes' = [bytes EXCEPT ![s] = ObjectBase]
    /\ usedBytes' = usedBytes + ObjectBase
    /\ liveObjects' = liveObjects + 1
    /\ issued' = issued \cup {[slot |-> s, generation |-> generation[s]]}
    /\ allocations' = allocations + 1
    /\ UNCHANGED <<generation, collections, collector>>

(* set_prototype(): both handles must resolve.                             *)
SetPrototype(h, p) ==
    /\ phase = "mutate"
    /\ Resolves(h)
    /\ p # None => Resolves(p)
    /\ object' = [object EXCEPT ![h.slot].prototype = p]
    /\ UNCHANGED <<size, generation, bytes, free, usedBytes, liveObjects, history, collector>>

OldCost(h, n) == LET v == object[h.slot].properties[n] IN IF v = None THEN 0 ELSE Cost(v)

(* set_property(): budgets first, then the insertion; the stored value is  *)
(* not checked, so a stale handle may be stored.                           *)
SetProperty(h, n, v) ==
    /\ phase = "mutate"
    /\ Resolves(h)
    /\ \/ n \in Properties(object[h.slot])
       \/ Cardinality(Properties(object[h.slot])) < MaxProperties
    /\ usedBytes - OldCost(h, n) + Cost(v) <= MaxHeapBytes
    /\ object' = [object EXCEPT ![h.slot].properties[n] = v]
    /\ bytes' = [bytes EXCEPT ![h.slot] = @ - OldCost(h, n) + Cost(v)]
    /\ usedBytes' = usedBytes - OldCost(h, n) + Cost(v)
    /\ UNCHANGED <<size, generation, free, liveObjects, history, collector>>

(* Mutant: the object's own share is refunded with the property.           *)
RemoveRefundsObject(h, n) ==
    /\ phase = "mutate"
    /\ Resolves(h)
    /\ n \in Properties(object[h.slot])
    /\ object' = [object EXCEPT ![h.slot].properties[n] = None]
    /\ bytes' = [bytes EXCEPT ![h.slot] = @ - OldCost(h, n)]
    /\ usedBytes' = usedBytes - OldCost(h, n) - ObjectBase
    /\ UNCHANGED <<size, generation, free, liveObjects, history, collector>>

RemoveProperty(h, n) ==
    /\ phase = "mutate"
    /\ Resolves(h)
    /\ n \in Properties(object[h.slot])
    /\ object' = [object EXCEPT ![h.slot].properties[n] = None]
    /\ bytes' = [bytes EXCEPT ![h.slot] = @ - OldCost(h, n)]
    /\ usedBytes' = usedBytes - OldCost(h, n)
    /\ UNCHANGED <<size, generation, free, liveObjects, history, collector>>
-----------------------------------------------------------------------------
(* Mutant: the document is no root, as the global object names it.         *)
BeginFromGlobal == /\ phase = "mutate"
                   /\ collections < MaxCollections
                   /\ phase' = "mark"
                   /\ marked' = {}
                   /\ pending' = {Global}
                   /\ collections' = collections + 1
                   /\ UNCHANGED <<store, issued, allocations>>

(* RuntimeRealm::collect_garbage: clear the marks, push the roots.         *)
BeginCollection == /\ phase = "mutate"
                   /\ collections < MaxCollections
                   /\ phase' = "mark"
                   /\ marked' = {}
                   /\ pending' = Roots
                   /\ collections' = collections + 1
                   /\ UNCHANGED <<store, issued, allocations>>

(* One turn of the mark loop; the order of the stack is left open.         *)
Mark(h) ==
    /\ phase = "mark"
    /\ h \in pending
    /\ \/ /\ Resolves(h) /\ h.slot \notin marked
          /\ marked' = marked \cup {h.slot}
          /\ pending' = (pending \ {h}) \cup References(object[h.slot])
       \/ /\ ~Resolves(h) \/ h.slot \in marked
          /\ pending' = pending \ {h}
          /\ UNCHANGED marked
    /\ UNCHANGED <<store, history, phase>>

(* Mutant: the slot keeps its generation when its object is reclaimed.     *)
SweepKeepsGeneration ==
    LET garbage == Live \ marked IN
    /\ phase = "mark"
    /\ pending = {}
    /\ phase' = "mutate"
    /\ object' = [s \in Slots |-> IF s \in garbage THEN None ELSE object[s]]
    /\ bytes' = [s \in Slots |-> IF s \in garbage THEN 0 ELSE bytes[s]]
    /\ free' = free \cup garbage
    /\ usedBytes' = usedBytes - Total(bytes, garbage)
    /\ liveObjects' = liveObjects - Cardinality(garbage)
    /\ UNCHANGED <<size, generation, marked, pending, history>>

Sweep ==
    LET garbage == Live \ marked IN
    /\ phase = "mark"
    /\ pending = {}
    /\ phase' = "mutate"
    /\ object' = [s \in Slots |-> IF s \in garbage THEN None ELSE object[s]]
    /\ bytes' = [s \in Slots |-> IF s \in garbage THEN 0 ELSE bytes[s]]
    /\ generation' = [s \in Slots |->
         IF s \in garbage THEN (generation[s] + 1) % GenerationModulus ELSE generation[s]]
    /\ free' = free \cup garbage
    /\ usedBytes' = usedBytes - Total(bytes, garbage)
    /\ liveObjects' = liveObjects - Cardinality(garbage)
    /\ UNCHANGED <<size, marked, pending, history>>
-----------------------------------------------------------------------------
Mutate == \/ \E s \in Slots : Allocate(s)
          \/ \E h \in issued, p \in issued \cup {None} : SetPrototype(h, p)
          \/ \E h \in issued, n \in Names, v \in issued \cup Scalars : SetProperty(h, n, v)
          \/ \E h \in issued, n \in Names : RemoveProperty(h, n)
Collect == (\E h \in pending : Mark(h)) \/ Sweep

Next == Mutate \/ BeginCollection \/ Collect

Spec == Init /\ [][Next]_vars
-----------------------------------------------------------------------------
TypeOK == /\ size \in 2..MaxObjects
          /\ generation \in [Slots -> Generations]
          /\ object \in [Slots -> Objects \cup {None}]
          /\ bytes \in [Slots -> Nat]
          /\ free \subseteq Slots
          /\ usedBytes \in Nat /\ liveObjects \in 0..MaxObjects
          /\ phase \in {"mutate", "mark"}
          /\ marked \subseteq Slots /\ pending \subseteq Handles
          /\ issued \subseteq Handles
          /\ allocations \in Nat /\ collections \in Nat

(* The budgets rest on running totals: they equal what is in the slots, so *)
(* no sequence of overwrites, removals and collections drifts.             *)
Costs(o) == [n \in Properties(o) |-> Cost(o.properties[n])]
ObjectBytes(o) == ObjectBase + Total(Costs(o), Properties(o))

Accounting == /\ usedBytes = Total(bytes, Slots)
              /\ \A s \in Slots : bytes[s] = IF s \in Live THEN ObjectBytes(object[s]) ELSE 0
              /\ liveObjects = Cardinality(Live)
              /\ usedBytes <= MaxHeapBytes

(* The free list holds exactly the empty slots of the vector.              *)
FreeListExact == free = (1..size) \ Live /\ Live \subseteq 1..size

(* No handle is returned twice, so a handle to a reclaimed object never    *)
(* resolves to the object that took its slot.                              *)
HandlesUnique == Cardinality(issued) = allocations

(* What a handle rests on: the free list names only empty slots, and no    *)
(* allocation gives an earlier handle again, so a handle that was kept     *)
(* across a collection never resolves to the object that took its slot     *)
(* (runtime_core.rs allocate, collect_garbage).                            *)
SlotsSound == FreeListExact /\ HandlesUnique

(* Reachability, defined without the mark loop: the slots in every set     *)
(* that holds the roots and follows the references that still resolve.     *)
Targets(H) == {h.slot : h \in {g \in H : Resolves(g)}}
Closed(C) == /\ Targets(Roots) \subseteq C
             /\ \A s \in C \cap Live : Targets(References(object[s])) \subseteq C
Reachable == {s \in Slots : \A C \in SUBSET Slots : Closed(C) => s \in C}

(* A collection keeps exactly the objects reachable from the global object *)
(* and the document, and leaves those untouched.                           *)
CollectsExactlyGarbage ==
    [][phase = "mark" /\ phase' = "mutate" =>
         /\ Live' = Reachable
         /\ \A s \in Reachable : object'[s] = object[s] /\ generation'[s] = generation[s]]_vars

=============================================================================
