---------------------------- MODULE ScriptObjects ----------------------------
(***************************************************************************)
(* The objects of the script engine and what scripts do with them:         *)
(* properties and prototypes, arrays, Map, Set, WeakMap, WeakSet, Reflect,  *)
(* iteration, and the operators that compare and add values, in             *)
(* src/src/javascript.rs.  A page has three references: "s", the subject,   *)
(* and two plain objects that serve as keys, values and prototypes.  It      *)
(* calls on them in any order, and may drop the two objects at any time;     *)
(* objects are counted (Rc), so one that nothing holds is freed at once,     *)
(* and a weak key does not hold.                                            *)
(*                                                                         *)
(* The reference is the history of the calls that were not refused: what a  *)
(* script reads is what the last call that bears on it wrote.               *)
(*                                                                         *)
(* A value is a pair: its type and its text, which for a reference is its   *)
(* name.  Getters, proxies, typed arrays and generators are left out: the    *)
(* parser and the constructors never make one.                               *)
(***************************************************************************)
EXTENDS Integers, Sequences, FiniteSets, TLC

CONSTANTS
    MaxItems,     \* MAX_ARRAY_ELEMENTS
    MaxEntries,   \* MAX_COLLECTION_ENTRIES
    MaxChain,     \* the 64 prototypes that a lookup visits
    LastCall      \* bound on the calls of a behaviour

ObjectsAssumption == {MaxItems, MaxEntries, MaxChain, LastCall} \subseteq Nat

VARIABLES
    heap,     \* reference -> object
    held,     \* the references that the page's variables hold
    log,      \* history: the calls that were not refused
    cursor,   \* the running forEach(): where it stands, where it ends, and when it began
    visits    \* history: the keys it has been given, and when

vars == <<heap, held, log, cursor, visits>>

Subject == "s"
Refs == {"s", "o1", "o2", "o3"}
NoRef == "none"

Undefined == <<"undefined", "">>
Null == <<"null", "">>
Error == <<"error", "">>
Num(x) == <<"number", x>>
Str(x) == <<"string", x>>
Bool(x) == <<"boolean", IF x THEN "true" ELSE "false">>
Ref(r) == <<"ref", r>>
Whole(i) == Num(ToString(i))

Nowhere == [k \in {} |-> Undefined]
Cell(kind, proto) ==
    [kind |-> kind, props |-> Nowhere, proto |-> proto, items |-> <<>>, pairs |-> <<>>]

Marker == "__ghita_non_extensible"

-----------------------------------------------------------------------------
(* Values and operators. *)

IsTruthy(v) ==
    /\ v[1] \notin {"null", "undefined"}
    /\ v # Bool(FALSE) /\ v \notin {Num("0"), Num("NaN")} /\ v # Str("")

ToDisplay(h, v) ==
    CASE v[1] \in {"null", "undefined"} -> v[1]
      [] v[1] = "ref" -> IF h[v[2]].kind = "object" THEN "[object Object]" ELSE h[v[2]].kind
      [] v[1] \in {"number", "string", "boolean"} -> v[2]

PropertyKey(h, v) == ToDisplay(h, v)

ToNumber(v) ==
    CASE v[1] = "number" -> v[2]
      [] v[1] = "boolean" -> IF v[2] = "true" THEN "1" ELSE "0"
      [] v[1] = "null" -> "0"
      [] v[1] = "string" -> IF v[2] = "" THEN "0" ELSE IF v[2] \in {"0", "1"} THEN v[2] ELSE "NaN"
      [] v[1] \in {"undefined", "ref"} -> "NaN"

SameNumber(x, y) == x = y /\ x # "NaN"
StrictEqual(l, r) == l = r /\ l # Num("NaN")

\* The equality of the keys of Map and Set.
SameValueZero(l, r) == l = r

Order == <<"", "0", "1", "NaN", "x">>
Place(text) == CHOOSE i \in 1..Len(Order) : Order[i] = text
TextBelow(x, y) == Place(x) < Place(y)
NumberBelow(x, y) == <<x, y>> = <<"0", "1">>
Sum(x, y) ==
    IF "NaN" \in {x, y} THEN "NaN"
    ELSE ToString((IF x = "1" THEN 1 ELSE 0) + (IF y = "1" THEN 1 ELSE 0))

NumericFallthrough(h, op, l, r) ==
    LET Coerced(v) == IF v[1] = "boolean" THEN Num(ToNumber(v)) ELSE v
        left == Coerced(l)
        right == Coerced(r)
        equal == IF {left[1], right[1]} = {"number", "string"} THEN SameNumber(ToNumber(left), ToNumber(right))
                 ELSE StrictEqual(left, right)
    IN  CASE op = "==" -> Bool(equal)
          [] op = "!=" -> Bool(~equal)
          [] op = "<" -> Bool(NumberBelow(ToNumber(l), ToNumber(r)))
          [] op = ">" -> Bool(NumberBelow(ToNumber(r), ToNumber(l)))
          [] op = "+" -> IF "string" \in {l[1], r[1]} THEN Str(ToDisplay(h, l) \o ToDisplay(h, r))
                         ELSE Num(Sum(ToNumber(l), ToNumber(r)))

ApplyBinaryOp(h, op, l, r) ==
    CASE op = "&&" -> IF IsTruthy(l) THEN r ELSE l
      [] op = "||" -> IF IsTruthy(l) THEN l ELSE r
      [] op = "??" -> IF l[1] \in {"null", "undefined"} THEN r ELSE l
      [] op = "===" -> Bool(StrictEqual(l, r))
      [] op = "!==" -> Bool(~StrictEqual(l, r))
      [] op \in {"==", "!=", "<", ">", "+"} ->
            CASE l[1] = "string" /\ r[1] = "string" /\ op \in {"<", ">"} ->
                    Bool(IF op = "<" THEN TextBelow(l[2], r[2]) ELSE TextBelow(r[2], l[2]))
              [] {l[1], r[1]} = {"null", "undefined"} ->
                    CASE op = "==" -> Bool(TRUE) [] op = "!=" -> Bool(FALSE) [] OTHER -> Error
              [] l[1] = "number" /\ r[1] # "number" /\ op = "+" -> Str(l[2] \o ToDisplay(h, r))
              [] OTHER -> NumericFallthrough(h, op, l, r)

-----------------------------------------------------------------------------
(* Properties. *)

RECURSIVE ObjectProperty(_, _, _, _)
ObjectProperty(h, r, key, left) ==
    IF r = NoRef \/ left = 0 THEN <<>>
    ELSE IF key \in DOMAIN h[r].props THEN <<h[r].props[key]>>
    ELSE ObjectProperty(h, h[r].proto, key, left - 1)

Found(h, r, key) == ObjectProperty(h, r, key, MaxChain)
OrUndefined(found) == IF found = <<>> THEN Undefined ELSE found[1]

\* parse::<usize>() of a key: -1 if it is not an index.
Index(key) ==
    IF \E i \in 0..MaxItems : ToString(i) = key THEN CHOOSE i \in 0..MaxItems : ToString(i) = key ELSE -1

Item(items, i) == IF i \in 0..Len(items) - 1 THEN items[i + 1] ELSE Undefined
Resized(items, n) == [i \in 1..n |-> IF i <= Len(items) THEN items[i] ELSE Undefined]

ReadProperty(h, r, name) ==
    CASE h[r].kind = "object" -> OrUndefined(Found(h, r, name))
      [] h[r].kind = "array" -> IF name = "length" THEN Whole(Len(h[r].items)) ELSE Undefined
      [] h[r].kind \in {"map", "set"} -> IF name = "size" THEN Whole(Len(h[r].pairs)) ELSE Undefined
      [] h[r].kind \in {"weakmap", "weakset"} -> Undefined

IndexRead(h, r, k) ==
    LET key == PropertyKey(h, k)
    IN  CASE h[r].kind = "object" -> OrUndefined(Found(h, r, key))
          [] h[r].kind = "array" -> IF key = "length" THEN Whole(Len(h[r].items))
                                    ELSE Item(h[r].items, Index(key))
          [] h[r].kind \notin {"object", "array"} -> Error

\* The operator `in'.
Contains(h, r, k) ==
    CASE h[r].kind = "object" -> Bool(Found(h, r, PropertyKey(h, k)) # <<>>)
      [] h[r].kind = "array" -> Bool(Index(PropertyKey(h, k)) \in 0..Len(h[r].items) - 1)
      [] h[r].kind \notin {"object", "array"} -> Error

\* l instanceof r, where r is a plain object.
RECURSIVE HasPrototype(_, _, _, _)
HasPrototype(h, l, r, left) ==
    /\ h[l].proto # NoRef /\ left > 0
    /\ h[l].proto = r \/ HasPrototype(h, h[l].proto, r, left - 1)

InstanceOf(h, l, r) == h[l].kind = "object" /\ HasPrototype(h, l, r, MaxChain)

\* Reflect.get() and Reflect.has() look at the object alone.
ReflectHas(h, r, key) == key \in DOMAIN h[r].props
ReflectGet(h, r, key) == IF ReflectHas(h, r, key) THEN h[r].props[key] ELSE Undefined

\* Reflect.isExtensible().
IsExtensible(cell) == Marker \notin DOMAIN cell.props

\* Object.keys(), as a set.
OwnKeys(h, r) == DOMAIN h[r].props

Give(cell, v) == [cell |-> cell, value |-> v]
Refuse(cell) == Give(cell, Error)

Insert(cell, key, v) == Give([cell EXCEPT !.props = (key :> v) @@ @], v)

WriteProperty(cell, name, v) ==
    CASE cell.kind = "object" -> Insert(cell, name, v)
      [] cell.kind = "array" -> IF name = "length" /\ v[1] = "number" /\ Index(v[2]) # -1
                                THEN Give([cell EXCEPT !.items = Resized(@, Index(v[2]))], v)
                                ELSE Refuse(cell)
      [] cell.kind \notin {"object", "array"} -> Refuse(cell)

IndexWrite(cell, key, v) ==
    CASE cell.kind = "object" -> Insert(cell, key, v)
      [] cell.kind = "array" ->
            IF Index(key) \notin 0..MaxItems - 1 THEN Refuse(cell)
            ELSE LET n == Index(key) + 1
                     room == Resized(cell.items, IF n > Len(cell.items) THEN n ELSE Len(cell.items))
                 IN  Give([cell EXCEPT !.items = [room EXCEPT ![n] = v]], v)
      [] cell.kind \notin {"object", "array"} -> Refuse(cell)

-----------------------------------------------------------------------------
(* Built-in methods: what is left in the object, and what the call returns. *)

ArrayMethod(f, cell, v) ==
    LET items == cell.items
        Leaves(new, result) == Give([cell EXCEPT !.items = new], result)
    IN  CASE f \in {"push", "unshift"} /\ Len(items) = MaxItems -> Refuse(cell)
          [] f = "push" /\ Len(items) < MaxItems -> Leaves(Append(items, v), Whole(Len(items) + 1))
          [] f = "unshift" /\ Len(items) < MaxItems -> Leaves(<<v>> \o items, Whole(Len(items) + 1))
          [] f \in {"pop", "shift"} /\ items = <<>> -> Give(cell, Undefined)
          [] f = "pop" /\ items # <<>> -> Leaves(SubSeq(items, 1, Len(items) - 1), items[Len(items)])
          [] f = "shift" /\ items # <<>> -> Leaves(Tail(items), Head(items))

\* map_index, set_index and the position() of the weak collections: 0 if there is none.
At(pairs, k) ==
    IF \E i \in DOMAIN pairs : SameValueZero(pairs[i][1], k)
    THEN CHOOSE i \in DOMAIN pairs : /\ SameValueZero(pairs[i][1], k)
                                     /\ \A j \in 1..i - 1 : ~SameValueZero(pairs[j][1], k)
    ELSE 0

\* Mutant: set() of a key that is there adds a second entry.
PutAtEnd(cell, k, v) ==
    IF Len(cell.pairs) >= MaxEntries THEN Refuse(cell)
    ELSE Give([cell EXCEPT !.pairs = Append(@, <<k, v>>)], Ref(Subject))

Put(cell, k, v) ==
    IF At(cell.pairs, k) # 0
    THEN Give(IF cell.kind \in {"map", "weakmap"}
              THEN [cell EXCEPT !.pairs[At(cell.pairs, k)][2] = v] ELSE cell, Ref(Subject))
    ELSE IF Len(cell.pairs) >= MaxEntries THEN Refuse(cell)
    ELSE Give([cell EXCEPT !.pairs = Append(@, <<k, v>>)], Ref(Subject))

Remove(cell, k) ==
    LET at == At(cell.pairs, k)
    IN  Give(IF at = 0 THEN cell
             ELSE [cell EXCEPT !.pairs = SubSeq(@, 1, at - 1) \o SubSeq(@, at + 1, Len(@))], Bool(at # 0))

Get(cell, k) == IF At(cell.pairs, k) = 0 THEN Undefined ELSE cell.pairs[At(cell.pairs, k)][2]
Has(cell, k) == Bool(At(cell.pairs, k) # 0)

CollectionMethod(f, cell, k, v) ==
    CASE f = "set" -> Put(cell, k, v)
      [] f = "add" -> Put(cell, k, k)
      [] f = "delete" -> Remove(cell, k)
      [] f = "clear" -> Give([cell EXCEPT !.pairs = <<>>], Undefined)

IsWeakKey(k) == k[1] = "ref"
\* retain(weak_key_alive).
Alive(h, cell) == [cell EXCEPT !.pairs = SelectSeq(@, LAMBDA p : h[p[1][2]].kind # "freed")]

WeakMethod(h, f, cell, k, v) ==
    IF ~IsWeakKey(k)
    THEN IF f = "delete" /\ cell.kind = "weakmap" THEN Give(cell, Bool(FALSE)) ELSE Refuse(cell)
    ELSE CollectionMethod(f, Alive(h, cell), k, v)

WeakRead(h, f, cell, k) ==
    IF ~IsWeakKey(k)
    THEN IF f = "get" THEN Undefined ELSE IF cell.kind = "weakmap" THEN Bool(FALSE) ELSE Error
    ELSE IF f = "get" THEN Get(Alive(h, cell), k) ELSE Has(Alive(h, cell), k)

ReflectMethod(f, cell, key, v) ==
    CASE f = "Reflect.set" ->
            IF ~IsExtensible(cell) /\ key \notin DOMAIN cell.props
            THEN Give(cell, Bool(FALSE)) ELSE Give(Insert(cell, key, v).cell, Bool(TRUE))
      [] f = "Reflect.deleteProperty" ->
            Give([cell EXCEPT !.props = [k \in DOMAIN @ \ {key} |-> @[k]]], Bool(TRUE))
      [] f = "Reflect.preventExtensions" -> Give(Insert(cell, Marker, Bool(TRUE)).cell, Bool(TRUE))

\* new Map(), new Set(), new WeakMap() and new WeakSet() of an array; nothing if they throw.
RECURSIVE Filled(_, _)
Filled(cell, seeds) ==
    IF seeds = <<>> THEN <<cell>>
    ELSE LET k == Head(seeds)[1]
             put == Put(cell, k, IF cell.kind \in {"map", "weakmap"} THEN Head(seeds)[2] ELSE k)
         IN  IF (cell.kind \in {"weakmap", "weakset"} /\ ~IsWeakKey(k)) \/ put.value = Error THEN <<>>
             ELSE Filled(put.cell, Tail(seeds))

-----------------------------------------------------------------------------
(* Counted references: an object is freed when the last variable or object   *)
(* that holds it lets go of it.                                              *)

StrongRefs(cell) ==
    {cell.proto} \cup
    {v[2] : v \in {cell.props[k] : k \in DOMAIN cell.props} \cup {cell.items[i] : i \in DOMAIN cell.items}
                 \cup (IF cell.kind = "weakset" THEN {}
                       ELSE {cell.pairs[i][2] : i \in DOMAIN cell.pairs})
                 \cup (IF cell.kind \in {"map", "set"}
                       THEN {cell.pairs[i][1] : i \in DOMAIN cell.pairs} ELSE {})}

RECURSIVE Released(_, _)
Released(h, holders) ==
    LET loose == {r \in Refs \ holders : h[r].kind # "freed"
                                        /\ \A o \in Refs : r \notin StrongRefs(h[o])}
    IN  IF loose = {} THEN h
        ELSE Released([r \in Refs |-> IF r \in loose THEN Cell("freed", NoRef) ELSE h[r]], holders)

-----------------------------------------------------------------------------
(* What the page does. *)

Now == Len(log) + 1
Names == {Str("x"), Num("1")}
Keys == {Num("NaN"), Num("1"), Str("1"), Ref("o1")}
Stamps == {Whole(Now)} \cup {Ref(r) : r \in held \cap {"o2"}}

Entry(r, f, k, v) == [on |-> r, f |-> f, key |-> k, value |-> v, out |-> Undefined, freed |-> {}]

\* The calls that a script can make on an object of this kind.
Calls(r) ==
    LET kind == heap[r].kind
    IN  CASE kind = "object" ->
                {Entry(r, ".", Str("x"), v) : v \in Stamps}
                \cup {Entry(r, "Reflect.set", k, Whole(Now)) : k \in Names}
                \cup {Entry(r, "[]", Num("1"), Whole(Now))}
                \cup {Entry(r, "Reflect.deleteProperty", Str("x"), Undefined)}
                \cup {Entry(r, "Reflect.preventExtensions", Undefined, Undefined)}
          [] kind = "array" ->
                {Entry(r, f, Undefined, Whole(Now)) : f \in {"push", "unshift"}}
                \cup {Entry(r, f, Undefined, Undefined) : f \in {"pop", "shift"}}
                \cup {Entry(r, "[]", k, Whole(Now)) : k \in {Num("0"), Num("1"), Num("2"), Str("x")}}
                \cup {Entry(r, ".", Str("length"), Whole(n)) : n \in {1, 2}}
          [] kind = "map" ->
                {Entry(r, "set", k, Whole(Now)) : k \in Keys}
                \cup {Entry(r, "delete", k, Undefined) : k \in Keys}
                \cup {Entry(r, "clear", Undefined, Undefined)}
          [] kind = "set" ->
                {Entry(r, f, k, Undefined) : f \in {"add", "delete"}, k \in Keys \ {Ref("o1")}}
                \cup {Entry(r, "clear", Undefined, Undefined)}
          [] kind = "weakmap" ->
                {Entry(r, "set", k, Whole(Now)) : k \in {Ref("o1"), Ref("o2"), Ref("o3"), Str("x")}}
                \cup {Entry(r, "set", Ref("o2"), Ref("o1"))}
                \cup {Entry(r, f, k, Undefined) : f \in {"get", "has", "delete"}, k \in {Ref("o1"), Ref("o2")}}
                \cup {Entry(r, "delete", Str("x"), Undefined)}
          [] kind = "weakset" ->
                {Entry(r, f, k, Undefined) :
                            f \in {"add", "has", "delete"}, k \in {Ref("o1"), Ref("o2"), Str("x")}}
                \cup {Entry(r, "add", Ref("o3"), Undefined)}
          [] kind = "freed" -> {}

\* What a call does to the object, by its dispatch.
Called(e) ==
    LET cell == heap[e.on]
        key == PropertyKey(heap, e.key)
    IN  CASE e.f = "." -> WriteProperty(cell, key, e.value)
          [] e.f = "[]" -> IndexWrite(cell, key, e.value)
          [] e.f \in {"Reflect.set", "Reflect.deleteProperty", "Reflect.preventExtensions"} ->
                ReflectMethod(e.f, cell, key, e.value)
          [] e.f \in {"push", "unshift", "pop", "shift"} -> ArrayMethod(e.f, cell, e.value)
          [] cell.kind \in {"map", "set"} /\ e.f \in {"set", "add", "delete", "clear"} ->
                CollectionMethod(e.f, cell, e.key, e.value)
          [] cell.kind \in {"weakmap", "weakset"} /\ e.f \in {"get", "has"} ->
                Give(IF IsWeakKey(e.key) THEN Alive(heap, cell) ELSE cell, WeakRead(heap, e.f, cell, e.key))
          [] cell.kind \in {"weakmap", "weakset"} /\ e.f \in {"set", "add", "delete"} ->
                WeakMethod(heap, e.f, cell, e.key, e.value)

\* The variables that a call names must still hold their objects.
Named(e) == {v[2] : v \in {x \in {e.key, e.value} : x[1] = "ref"}}

Freed == {r \in Refs : heap[r].kind = "freed"}

Call(e) ==
    /\ Len(log) < LastCall
    /\ Named(e) \subseteq held
    /\ \E did \in {Called(e)} :
        /\ heap' = Released([heap EXCEPT ![e.on] = did.cell], held)
        /\ log' = Append(log, [e EXCEPT !.out = did.value, !.freed = Freed])
    /\ UNCHANGED <<held, cursor, visits>>

\* A variable of the page is overwritten; what the other kinds hold, they hold for good.
Drop(r) ==
    /\ heap[Subject].kind \in {"weakmap", "weakset"}
    /\ held' = held \ {r}
    /\ heap' = Released(heap, held')
    /\ UNCHANGED <<log, cursor, visits>>

NoVisit == [at |-> 0, end |-> 0, since |-> 0]

\* forEach() of a Map or a Set: its callback runs between two Visits and may call anything.
StartForEach ==
    /\ heap[Subject].kind \in {"map", "set"} /\ cursor = NoVisit /\ Len(log) < LastCall
    /\ heap[Subject].pairs # <<>>
    /\ cursor' = [at |-> 1, end |-> Len(heap[Subject].pairs), since |-> Len(log)]
    /\ visits' = <<>>
    /\ UNCHANGED <<heap, held, log>>

Visit ==
    /\ cursor # NoVisit
    /\ IF cursor.at <= cursor.end /\ cursor.at <= Len(heap[Subject].pairs)
       THEN /\ visits' = Append(visits, [entry |-> heap[Subject].pairs[cursor.at], at |-> Len(log)])
            /\ cursor' = [cursor EXCEPT !.at = @ + 1]
       ELSE /\ cursor' = NoVisit
            /\ visits' = <<>>
    /\ UNCHANGED <<heap, held, log>>

\* The constructors are called with an array of entries, which count as calls.
Seeds(kind) ==
    CASE kind = "object" -> {<<>>}
      [] kind = "array" -> {<<>>, <<<<Whole(1), Whole(1)>>, <<Whole(2), Whole(2)>>>>}
      [] kind \in {"map", "set"} ->
            {<<>>, <<<<Num("NaN"), Whole(1)>>, <<Num("NaN"), Whole(2)>>>>}
      [] kind \in {"weakmap", "weakset"} -> {<<>>, <<<<Ref("o1"), Whole(1)>>, <<Ref("o1"), Whole(2)>>>>}

Seeded(kind, seeds) ==
    [i \in 1..Len(seeds) |->
        CASE kind = "array" -> [Entry(Subject, "push", Undefined, seeds[i][2]) EXCEPT !.out = Whole(i)]
          [] kind \in {"map", "weakmap"} -> [Entry(Subject, "set", seeds[i][1], seeds[i][2]) EXCEPT !.out = Ref(Subject)]
          [] kind \in {"set", "weakset"} -> [Entry(Subject, "add", seeds[i][1], Undefined) EXCEPT !.out = Ref(Subject)]]

Constructed(kind, seeds) ==
    IF kind = "array" THEN <<[Cell("array", NoRef) EXCEPT !.items = [i \in 1..Len(seeds) |-> seeds[i][2]]]>>
    ELSE Filled(Cell(kind, NoRef), seeds)

\* The objects that the page has in its variables.
Variables(kind) ==
    CASE kind \in {"array", "set"} -> {Subject}
      [] kind = "map" -> {Subject, "o1"}
      [] kind = "object" -> {Subject, "o2"}
      [] kind \in {"weakmap", "weakset"} -> Refs

\* Object.create() makes o2, and the subject if it is a plain object.
Init ==
    /\ \E kind \in {"object", "array", "map", "set", "weakmap", "weakset"} :
        \E seeds \in Seeds(kind), p \in {NoRef, "o1"} :
            /\ Constructed(kind, seeds) # <<>>
            /\ kind # "object" => p = NoRef
            /\ held = Variables(kind)
            /\ heap = Released([r \in Refs |->
                        CASE r \in {"o1", "o3"} -> Cell("object", NoRef)
                          [] r = "o2" -> Cell("object", p)
                          [] r = Subject -> [Constructed(kind, seeds)[1] EXCEPT
                                                !.proto = IF kind = "object" THEN "o2" ELSE NoRef]], held)
            /\ log = Seeded(kind, seeds)
    /\ cursor = NoVisit
    /\ visits = <<>>

Next ==
    \/ \E r \in held \cap (IF heap[Subject].kind = "object" THEN Refs ELSE {Subject}) :
            \E e \in Calls(r) : Call(e)
    \/ \E r \in held \cap {"o1", "o2"} : Drop(r)
    \/ StartForEach
    \/ Visit

Spec == Init /\ [][Next]_vars

-----------------------------------------------------------------------------
(* What ECMAScript says of the same calls, from their history. *)

\* The last call in L of one of these names that bears on the key; 0 if there is none.
LastIn(L, r, fs, keys) ==
    LET at == {i \in DOMAIN L : /\ L[i].on = r /\ L[i].f \in fs /\ L[i].key \in keys
                               /\ L[i].out # Error /\ (L[i].f = "Reflect.set" => L[i].out = Bool(TRUE))}
    IN  IF at = {} THEN 0 ELSE CHOOSE i \in at : \A j \in at : j <= i

Writers == {".", "[]", "Reflect.set", "set", "add"}

\* The write that a key's value comes from; 0 if the key is absent.
Wrote(L, r, keys) ==
    LET w == LastIn(L, r, Writers, keys)
        gone == LastIn(L, r, {"delete", "Reflect.deleteProperty"}, keys)
        cleared == LastIn(L, r, {"clear"}, {Undefined})
    IN  IF w > gone /\ w > cleared THEN w ELSE 0

\* When the key came in: the first write after it was last absent.
Born(L, r, keys) ==
    CHOOSE i \in 1..Wrote(L, r, keys) :
        /\ Wrote(SubSeq(L, 1, i), r, keys) # 0
        /\ \A j \in i..Wrote(L, r, keys) : Wrote(SubSeq(L, 1, j), r, keys) # 0
        /\ Wrote(SubSeq(L, 1, i - 1), r, keys) = 0

LiveKeys(L) == {k \in Keys \cup {Ref("o2"), Ref("o3")} : Wrote(L, Subject, {k}) # 0}

\* The entries of a Map or Set in the order in which they came in.
Entries(L) ==
    LET rank(k) == Cardinality({j \in LiveKeys(L) : Born(L, Subject, {j}) <= Born(L, Subject, {k})})
    IN  [n \in 1..Cardinality(LiveKeys(L)) |-> CHOOSE k \in LiveKeys(L) : rank(k) = n]

\* The spellings of a property name.
Spelled(text) == {Str(text), Num(text)}
Own(L, r, text) == Wrote(L, r, Spelled(text)) # 0
OwnValue(L, r, text) == L[Wrote(L, r, Spelled(text))].value

RECURSIVE Inherited(_, _, _)
Inherited(L, r, text) ==
    IF r = NoRef THEN Undefined
    ELSE IF Own(L, r, text) THEN OwnValue(L, r, text) ELSE Inherited(L, heap[r].proto, text)

RECURSIVE Prototypes(_)
Prototypes(r) == IF r = NoRef THEN {} ELSE {r} \cup Prototypes(heap[r].proto)

\* An array is a length and what its indices hold.
ArrayStep(list, e) ==
    LET shifted(by, n) == [i \in 0..n - 1 |-> IF i - by \in DOMAIN list THEN list[i - by] ELSE Undefined]
        n == Cardinality(DOMAIN list)
        i == IF e.key = Num("0") THEN 0 ELSE 1
    IN  CASE e.out = Error -> list
          [] e.out # Error /\ e.f = "push" -> (n :> e.value) @@ list
          [] e.out # Error /\ e.f = "unshift" -> (0 :> e.value) @@ shifted(1, n + 1)
          [] e.out # Error /\ e.f = "pop" -> shifted(0, IF n = 0 THEN 0 ELSE n - 1)
          [] e.out # Error /\ e.f = "shift" -> shifted(-1, IF n = 0 THEN 0 ELSE n - 1)
          [] e.out # Error /\ e.f = "." -> shifted(0, IF e.value = Whole(1) THEN 1 ELSE 2)
          [] e.out # Error /\ e.f = "[]" -> (i :> e.value) @@ shifted(0, IF i < n THEN n ELSE i + 1)

RECURSIVE ArrayOf(_)
ArrayOf(L) == IF L = <<>> THEN [i \in {} |-> Undefined]
              ELSE ArrayStep(ArrayOf(SubSeq(L, 1, Len(L) - 1)), L[Len(L)])

\* An array's length is bounded, and its only other property is its length.
ArrayRefuses(list, e) ==
    \/ e.f \in {"push", "unshift"} /\ Cardinality(DOMAIN list) = MaxItems
    \/ e.f = "[]" /\ e.key \notin {Whole(i) : i \in 0..MaxItems - 1}

\* Abstract equality, relational comparison and addition of ECMAScript, of two primitives.
RECURSIVE EsEqual(_, _)
EsEqual(l, r) ==
    CASE l[1] = r[1] -> l = r /\ l # Num("NaN")
      [] {l[1], r[1]} = {"null", "undefined"} -> TRUE
      [] l[1] # r[1] /\ "boolean" \in {l[1], r[1]} ->
            IF l[1] = "boolean" THEN EsEqual(Num(ToNumber(l)), r) ELSE EsEqual(l, Num(ToNumber(r)))
      [] {l[1], r[1]} = {"number", "string"} ->
            LET x == ToNumber(l) IN x # "NaN" /\ x = ToNumber(r)
      [] OTHER -> FALSE

EsBelow(l, r) ==
    IF l[1] = "string" /\ r[1] = "string" THEN l[2] # r[2] /\ \E i \in 1..Place(r[2]) : Order[i] = l[2]
    ELSE ToNumber(l) = "0" /\ ToNumber(r) = "1"

EsSum(h, l, r) ==
    IF l[1] = "string" \/ r[1] = "string" THEN Str(ToDisplay(h, l) \o ToDisplay(h, r))
    ELSE Num(Sum(ToNumber(l), ToNumber(r)))

-----------------------------------------------------------------------------
(* Properties. *)

Primitives == {Undefined, Null, Num("0"), Num("1"), Num("NaN"), Str(""), Str("1"), Str("x"),
               Bool(TRUE), Bool(FALSE)}

\* The operators are those of ECMAScript, except that comparing null with undefined is
\* refused and that a number on the left of + concatenates.
OperatorsAgree ==
    /\ \A l, r \in Primitives :
        LET op(o) == ApplyBinaryOp(heap, o, l, r)
            comparable == {l[1], r[1]} # {"null", "undefined"}
        IN  /\ op("==") = Bool(EsEqual(l, r)) /\ op("!=") = Bool(~EsEqual(l, r))
            /\ op("===") = Bool(EsEqual(l, r) /\ l[1] = r[1]) /\ op("!==") = Bool(~(EsEqual(l, r) /\ l[1] = r[1]))
            /\ comparable => op("<") = Bool(EsBelow(l, r)) /\ op(">") = Bool(EsBelow(r, l))
            /\ comparable /\ (l[1] = "number" => r[1] \in {"number", "string"}) => op("+") = EsSum(heap, l, r)
            /\ op("&&") \in {l, r} /\ op("||") \in {l, r} /\ (l # r => op("&&") # op("||"))
            /\ op("??") = IF l \in {Null, Undefined} THEN r ELSE l
    /\ \A l, r \in {Ref(x) : x \in Refs} : \A o \in {"==", "==="} :
            ApplyBinaryOp(heap, o, l, r) = Bool(l = r)

\* What the reads of the objects give is what the history says.
ReadsAgree ==
    LET s == heap[Subject]
    IN  CASE s.kind = "object" ->
                \A r \in {x \in Refs : heap[x].kind # "freed"}, text \in {"x", "1"} :
                    /\ IndexRead(heap, r, Str(text)) = Inherited(log, r, text)
                    /\ ReadProperty(heap, r, text) = Inherited(log, r, text)
                    /\ Contains(heap, r, Str(text)) = Bool(Inherited(log, r, text) # Undefined)
                    /\ (text \in OwnKeys(heap, r)) = Own(log, r, text)
                    /\ ReflectHas(heap, r, text) = Own(log, r, text)
                    /\ ReflectGet(heap, r, text) = IF Own(log, r, text) THEN OwnValue(log, r, text) ELSE Undefined
                    /\ IsExtensible(heap[r]) = (LastIn(log, r, {"Reflect.preventExtensions"}, {Undefined}) = 0)
                    /\ \A o \in Refs : InstanceOf(heap, r, o) = (o \in Prototypes(heap[r].proto))
          [] s.kind = "array" ->
                LET list == ArrayOf(log)
                IN  /\ ReadProperty(heap, Subject, "length") = Whole(Cardinality(DOMAIN list))
                    /\ \A i \in 0..MaxItems :
                        /\ IndexRead(heap, Subject, Whole(i)) = IF i \in DOMAIN list THEN list[i] ELSE Undefined
                        /\ Contains(heap, Subject, Whole(i)) = Bool(i \in DOMAIN list)
          [] s.kind \in {"map", "set"} ->
                /\ [i \in DOMAIN s.pairs |-> s.pairs[i][1]] = Entries(log)
                /\ ReadProperty(heap, Subject, "size") = Whole(Cardinality(LiveKeys(log)))
                /\ \A k \in Keys : /\ Has(s, k) = Bool(k \in LiveKeys(log))
                                   /\ (s.kind = "map" /\ k \in LiveKeys(log))
                                        => Get(s, k) = log[Wrote(log, Subject, {k})].value
          [] s.kind \in {"weakmap", "weakset"} ->
                \A k \in {Ref(r) : r \in held \ {Subject}} :
                    /\ WeakRead(heap, "has", s, k) = Bool(k \in LiveKeys(log))
                    /\ (s.kind = "weakmap" /\ k \in LiveKeys(log))
                         => WeakRead(heap, "get", s, k) = log[Wrote(log, Subject, {k})].value

\* Weak keys do not count when their object was gone at the call.
Existing(keys, e) == {k \in keys : k[2] \notin e.freed}

\* What the last call returned is what the history before it says.
ReturnAgrees ==
    log # <<>> =>
    LET e == log[Len(log)]
        before == SubSeq(log, 1, Len(log) - 1)
        list == ArrayOf(before)
        kind == heap[Subject].kind
        sealed == \E i \in DOMAIN before : before[i].on = e.on /\ before[i].f = "Reflect.preventExtensions"
    IN  CASE kind = "object" ->
                (e.out = Bool(FALSE)) =
                    (e.f = "Reflect.set" /\ sealed /\ ~Own(before, e.on, e.key[2]))
          [] kind = "array" ->
                /\ (e.out = Error) = ArrayRefuses(list, e)
                /\ e.f \in {"pop", "shift"} =>
                        e.out = (IF DOMAIN list = {} THEN Undefined
                                 ELSE list[IF e.f = "pop" THEN Cardinality(DOMAIN list) - 1 ELSE 0])
                /\ (e.f \in {"push", "unshift"} /\ e.out # Error) => e.out = Whole(Cardinality(DOMAIN list) + 1)
          [] kind \in {"map", "set"} ->
                /\ (e.out = Error) = (/\ e.f \in {"set", "add"} /\ e.key \notin LiveKeys(before)
                                     /\ Cardinality(LiveKeys(before)) = MaxEntries)
                /\ e.f = "delete" => e.out = Bool(e.key \in LiveKeys(before))
          [] kind \in {"weakmap", "weakset"} ->
                /\ e.f \in {"has", "delete"} /\ IsWeakKey(e.key) => e.out = Bool(e.key \in LiveKeys(before))
                /\ e.f \in {"set", "add"} =>
                    (e.out = Error) = (\/ ~IsWeakKey(e.key)
                                       \/ /\ e.key \notin LiveKeys(before)
                                          /\ Cardinality(Existing(LiveKeys(before), e)) = MaxEntries)

\* A visit whose collection loses nothing sees all the entries that it began with, in their
\* order; whatever happens, it sees no key twice that was not deleted in between, and nothing
\* that is not there.
VisitsAgree ==
    /\ \A i \in DOMAIN visits : visits[i].entry[1] \in LiveKeys(SubSeq(log, 1, visits[i].at))
    /\ \A i, j \in DOMAIN visits :
            i < j /\ visits[i].entry[1] = visits[j].entry[1] =>
                \E n \in visits[i].at + 1..visits[j].at : log[n].f \in {"delete", "clear"}
    /\ cursor # NoVisit /\ (\A n \in cursor.since + 1..Len(log) : log[n].f \notin {"delete", "clear"}) =>
            LET began == Entries(SubSeq(log, 1, cursor.since))
            IN  /\ cursor.end = Len(began)
                /\ [i \in DOMAIN visits |-> visits[i].entry[1]] = SubSeq(began, 1, Len(visits))
                /\ cursor.at > Len(heap[Subject].pairs) => Len(visits) = Len(began)

\* Nothing that the page can name is freed.
NothingDangles ==
    \A r \in held : heap[r].kind # "freed" /\ \A o \in StrongRefs(heap[r]) \ {NoRef} :
        o \in Refs => heap[o].kind # "freed"

\* What a script reads of its objects is what ECMAScript says that its calls left there.
ObjectsAgree ==
    /\ ReadsAgree /\ ReturnAgrees /\ VisitsAgree /\ NothingDangles
    /\ log = <<>> /\ heap[Subject].kind = "object" => OperatorsAgree
=============================================================================
