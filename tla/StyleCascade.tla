---------------------------- MODULE StyleCascade ----------------------------
(* How the elements of a live document get their styles (cascade_element in   *)
(* src/src/dynamic_render.rs, compute_computed_style_full in css_parser.rs).  *)
(* A refresh walks the tree from the root, and an element whose fingerprint   *)
(* is the one of its cached style keeps that style: the cascade is run for    *)
(* the others only.  The fingerprint stands for everything the style depends  *)
(* on, and here it is the record of what the code hashes.                     *)
EXTENDS Integers, Sequences, SequencesExt, FiniteSets, FiniteSetsExt

CONSTANTS
  Nodes,       \* the elements, Root among them
  Root,
  Classes,
  Rules,       \* the style sheet, a sequence of rules of one declaration
  Written,     \* the classes scripts write
  Inlines,     \* the colours scripts write into a style attribute
  MaxCache,    \* MAX_STYLE_CACHE_ENTRIES; 50,000 in the code
  LastCall     \* bound on the calls of a behaviour

NoNode == "none"
Properties == {"color", "spacing", "box"}
Inherited == {"color", "spacing"}
Initial == [p \in Properties |-> "initial"]
Combinators == {"descendant", "child", "adjacent", "sibling"}

\* A rule asks for a class of its target, perhaps for the first child of its
\* parent or an attribute of no special meaning, and perhaps, over one
\* combinator, for the class of another element.
Rule == [class : Classes, first : BOOLEAN, data : BOOLEAN,
         by : Combinators \cup {NoNode}, left : Classes,
         property : Properties, value : STRING, important : BOOLEAN]

CascadeAssumption ==
  /\ IsFiniteSet(Nodes) /\ Root \in Nodes
  /\ Rules \in Seq(Rule)
  /\ Written \subseteq Classes
  /\ MaxCache \in Nat /\ LastCall \in Nat

VARIABLES
  children,  \* element -> its child elements in order
  class,     \* element -> its class
  inline,    \* element -> the colour of its style attribute, or NoNode
  data,      \* the elements with an attribute such as data-state
  cache,     \* style_cache: element -> [fingerprint, style]
  shown,     \* the styles of the retained layout
  dirty,     \* the invalidation flags
  calls

document == <<children, class, inline, data>>
vars == <<document, cache, shown, dirty, calls>>

-----------------------------------------------------------------------------
(* The tree.                                                                 *)

IsParent(p, n) == n \in Range(children[p])
HasParent(n) == \E p \in Nodes : IsParent(p, n)
Parent(n) == CHOOSE p \in Nodes : IsParent(p, n)
Siblings(n) == IF HasParent(n) THEN children[Parent(n)] ELSE <<n>>
Index(n) == CHOOSE i \in DOMAIN Siblings(n) : Siblings(n)[i] = n
Before(n) == SubSeq(Siblings(n), 1, Index(n) - 1)

\* The least sets that hold the parent and every parent of theirs, and the root
\* and all children of theirs.
Ancestors(n) ==
  {m \in Nodes : \A S \in SUBSET Nodes :
     (\A c \in S \cup {n}, p \in Nodes : IsParent(p, c) => p \in S) => m \in S}
Attached ==
  {n \in Nodes : \A S \in SUBSET Nodes :
     Root \in S /\ (\A p \in S : Range(children[p]) \subseteq S) => n \in S}

\* The walk: an element before its children, and these in order.
PreOrder ==
  LET visit[k \in 0 .. Cardinality(Nodes)] ==    \* the elements of k levels
        [n \in Nodes |->
           IF k = 0 THEN <<>>
           ELSE <<n>> \o FlattenSeq([i \in DOMAIN children[n] |-> visit[k - 1][children[n][i]]])]
  IN  visit[Cardinality(Nodes)][Root]

-----------------------------------------------------------------------------
(* The cascade of one element, given the style of its parent.                *)

Reaches(by, n) ==
  CASE by = "descendant" -> Ancestors(n)
    [] by = "child"      -> IF HasParent(n) THEN {Parent(n)} ELSE {}
    [] by = "adjacent"   -> IF Before(n) = <<>> THEN {} ELSE {Last(Before(n))}
    [] by = "sibling"    -> Range(Before(n))

Matches(rule, n) ==
  /\ class[n] = rule.class
  /\ rule.first => Index(n) = 1
  /\ rule.data => n \in data
  /\ rule.by # NoNode => \E m \in Reaches(rule.by, n) : class[m] = rule.left

Specificity(rule) ==
  1 + (IF rule.first THEN 1 ELSE 0) + (IF rule.data THEN 1 ELSE 0)
    + (IF rule.by # NoNode THEN 1 ELSE 0)

\* cascade_rank, for one sheet without layers: the group of origin and
\* importance first, then specificity, then the order of the source.
Declarations(n, p) ==
  {[group |-> IF Rules[i].important THEN 5 ELSE 3, specificity |-> Specificity(Rules[i]),
    order |-> i, value |-> Rules[i].value] :
     i \in {j \in DOMAIN Rules : Rules[j].property = p /\ Matches(Rules[j], n)}}
  \cup
  {[group |-> 4, specificity |-> 0, order |-> 0, value |-> inline[n]] :
     x \in {y \in {p} : y = "color" /\ inline[n] # NoNode}}

Beats(d, e) ==
  \/ d.group > e.group
  \/ d.group = e.group /\ d.specificity > e.specificity
  \/ d.group = e.group /\ d.specificity = e.specificity /\ d.order >= e.order

Compute(n, above) ==
  [p \in Properties |->
     LET ds == Declarations(n, p)
     IN  IF ds # {} THEN (CHOOSE d \in ds : \A e \in ds : Beats(d, e)).value
         ELSE IF p \in Inherited THEN above[p] ELSE Initial[p]]

\* Mutant: the position among the siblings is not hashed.
FingerprintAnywhere(n, above) ==
  [class |-> class[n], inline |-> inline[n], data |-> n \in data, parent |-> above.color,
   index |-> 0, total |-> 0, before |-> <<>>]

\* fingerprint_element and inherited_style_fingerprint.
Fingerprint(n, above) ==
  [class |-> class[n], inline |-> inline[n], data |-> n \in data, parent |-> above.color,
   index |-> Index(n), total |-> Len(Siblings(n)),
   before |-> [i \in DOMAIN Before(n) |-> class[Before(n)[i]]]]

-----------------------------------------------------------------------------
(* Calls of a script.                                                        *)

Init ==
  /\ children = [n \in Nodes |-> IF n = Root THEN SetToSeq(Nodes \ {Root}) ELSE <<>>]
  /\ class \in [Nodes -> Classes]
  /\ inline = [n \in Nodes |-> NoNode]
  /\ data = {}
  /\ cache = <<>> /\ shown = <<>>
  /\ dirty = {"style", "layout", "paint"}
  /\ calls = 0

\* The elements of a sequence that are in S, in their order.
Filtered(seq, S) ==
  LET kept[i \in 0 .. Len(seq)] ==
        IF i = 0 THEN <<>>
        ELSE IF seq[i] \in S THEN Append(kept[i - 1], seq[i]) ELSE kept[i - 1]
  IN  kept[Len(seq)]

Unlinked(n) == [p \in Nodes |-> Filtered(children[p], Nodes \ {n})]
Mark(flags) == dirty' = dirty \cup flags
MarkAll == Mark({"style", "layout", "paint"})
Retained == UNCHANGED <<cache, shown>>

AppendChild(p, n) ==
  /\ n # Root /\ p # n /\ n \notin Ancestors(p)
  /\ children' = [Unlinked(n) EXCEPT ![p] = Append(@, n)]
  /\ MarkAll /\ Retained /\ UNCHANGED <<class, inline, data>>

RemoveChild(n) ==
  /\ HasParent(n)
  /\ children' = Unlinked(n)
  /\ MarkAll /\ Retained /\ UNCHANGED <<class, inline, data>>

\* mark_attribute_mutated: `class` changes anything, a colour changes no
\* layout, and an attribute of no special meaning only asks for a repaint.
SetClass(n, c) ==
  /\ class' = [class EXCEPT ![n] = c]
  /\ MarkAll /\ Retained /\ UNCHANGED <<children, inline, data>>

SetStyle(n, v) ==
  /\ inline' = [inline EXCEPT ![n] = v]
  /\ Mark({"style", "paint"}) /\ Retained /\ UNCHANGED <<children, class, data>>

SetData(n) ==
  /\ data' = data \cup {n}
  /\ Mark({"paint"}) /\ Retained /\ UNCHANGED <<children, class, inline>>

-----------------------------------------------------------------------------
(* The refresh.                                                              *)

Above(styles, n) == IF HasParent(n) THEN styles[Parent(n)] ELSE Initial

\* What the cache holds under the same print is kept.
Styled(n, above) ==
  IF n \in DOMAIN cache /\ cache[n].fingerprint = Fingerprint(n, above)
    THEN cache[n].style
    ELSE Compute(n, above)

Walked == LET styles[n \in Attached] == Styled(n, Above(styles, n)) IN styles

\* The entries after a walk: those of known elements are replaced, and new
\* ones are made in the order of the walk while there is room.
Cached(styles) ==
  LET new == Filtered(PreOrder, Nodes \ DOMAIN cache)
      room == IF MaxCache > Cardinality(DOMAIN cache)
                THEN MaxCache - Cardinality(DOMAIN cache) ELSE 0
      admitted == {n \in Attached : \E i \in DOMAIN new : i <= room /\ new[i] = n}
  IN  [n \in DOMAIN cache \cup admitted |->
         IF n \in Attached
           THEN [fingerprint |-> Fingerprint(n, Above(styles, n)), style |-> styles[n]]
           ELSE cache[n]]

Refresh ==
  /\ dirty # {}
  /\ dirty' = {}
  /\ IF dirty \cap {"style", "layout"} # {} \/ shown = <<>>
       THEN shown' = Walked /\ cache' = Cached(Walked)
       ELSE Retained
  /\ UNCHANGED <<document, calls>>

Call ==
  /\ calls < LastCall /\ calls' = calls + 1
  /\ \E n \in Nodes :
       \/ \E p \in Nodes : AppendChild(p, n)
       \/ RemoveChild(n)
       \/ \E c \in Written \ {class[n]} : SetClass(n, c)
       \/ \E v \in Inlines \ {inline[n]} : SetStyle(n, v)
       \/ n \notin data /\ SetData(n)

Next == Call \/ Refresh

Spec == Init /\ [][Next]_vars
-----------------------------------------------------------------------------

\* What a fingerprint tells of a property of the elements of a class: all of it,
\* unless a rule for them looks at an ancestor or at an attribute of no special
\* meaning, or the property is inherited and not the colour.
Covered(rule) == rule.by \in {NoNode, "adjacent", "sibling"} /\ ~rule.data

Told(c, p) ==
  /\ p # "spacing"
  /\ \A i \in DOMAIN Rules : Rules[i].property = p /\ Rules[i].class = c => Covered(Rules[i])

\* After a refresh, whatever the sheet, every attached element has in each
\* property that its fingerprint tells all of the value that the cascade gives it
\* now, under the style its parent is shown with: no cached value outlives what
\* it was computed from, whatever was moved, removed, changed while detached, or
\* left out of a full cache.  The other properties may be stale: a rule that
\* looks at an ancestor's class is not asked again when that alone changes.
StylesAreCurrent ==
  dirty = {} =>
    /\ DOMAIN shown = Attached
    /\ \A n \in Attached, p \in Properties :
         Told(class[n], p) => shown[n][p] = Compute(n, Above(shown, n))[p]
=============================================================================
