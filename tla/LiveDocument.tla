---------------------------- MODULE LiveDocument ----------------------------
(* The mutable document of a page (src/src/live_dom.rs): one store of nodes,  *)
(* linked by parent and children, that the page's script, the event dispatch  *)
(* and the renderer all read.  Shadow trees live in the same store: a shadow  *)
(* root is a child of its host, and only the records of `shadows` make it one.*)
(* Names, attributes and text are abstracted to what the composed tree tells  *)
(* apart: the tag of a node and whether it is named for a slot.               *)
EXTENDS Integers, Sequences, SequencesExt, FiniteSets

CONSTANTS
  MaxNodes,     \* MAX_LIVE_NODES: the nodes the store may hold
  MaxDepth,     \* MAX_LIVE_DEPTH: how far depth_budget_ok climbs
  MaxPath,      \* MAX_EVENT_PATH: how far is_ancestor climbs
  MaxShadows,   \* MAX_SHADOW_ROOTS
  LastId,       \* bound on the identities handed out; the code's is 2^64
  LastCall,     \* bound on the calls of a behaviour
  Markup        \* what parse_html may return: fragments [subs, text], where subs is a
                \* sequence of subtrees, each a sequence of items [tag, up]

NoNode == 0
Root == 1
Tags == {"div", "slot", "shadow-root", "text"}

\* An item of a subtree names an earlier one as its parent, or none.
Item == [tag : Tags, up : Nat]
DocumentAssumption ==
  /\ {MaxNodes, MaxDepth, MaxPath, MaxShadows, LastId, LastCall} \subseteq Nat \ {0}
  /\ MaxPath >= MaxDepth
  /\ \A f \in Markup :
       /\ f.text \in BOOLEAN
       /\ f.subs \in Seq(Seq(Item))
       /\ \A i \in DOMAIN f.subs :
            f.subs[i] # <<>> /\ \A j \in DOMAIN f.subs[i] : f.subs[i][j].up < j

VARIABLES
  nodes,      \* the store: identity -> parent, children, tag, named
  nextId,     \* next_node_id
  shadows,    \* host -> its shadow root
  dirty,      \* the invalidation flags, as the set of the stages to redo
  calls,      \* how many calls were made, the bound of the model
  render,     \* the element tree of the last refresh
  layout,     \* the element tree the retained layout was built from
  lost,       \* history: tops of the subtrees a failed call left behind
  torn        \* history: the tree changed and the flags do not say so

vars == <<nodes, nextId, shadows, dirty, calls, render, layout, lost, torn>>

Live == DOMAIN nodes
\* Styles, pixels and the accessibility tree are redone without touching the
\* shape of the layout: one stage, "paint", stands for the three.
Stages == {"layout", "paint"}
Shadowed == DOMAIN shadows
ShadowRoots == {shadows[h] : h \in Shadowed}
HostOf(r) == CHOOSE h \in Shadowed : shadows[h] = r

-----------------------------------------------------------------------------
(* Climbing and descending a store.                                          *)

Parent(store, n) == IF n \in DOMAIN store THEN store[n].parent ELSE NoNode

\* The ancestors of n, n first: Climb(store, n)[k] is reached after k steps.
Climb(store, n) ==
  LET up[k \in 0 .. MaxPath + LastId] ==
        IF k = 0 THEN n ELSE Parent(store, up[k - 1])
  IN  up

DepthOk(store, n) == Climb(store, n)[MaxDepth - 1] = NoNode

IsAncestor(store, a, n) == \E k \in 0 .. MaxPath - 1 : Climb(store, n)[k] = a

\* Everything reached from S along children.
Below(store, S) ==
  LET step(T) == T \cup UNION {Range(store[n].children) : n \in T \cap DOMAIN store}
      reach[k \in 0 .. LastId] == IF k = 0 THEN S ELSE step(reach[k - 1])
  IN  reach[LastId]

Free(store, S) ==
  [n \in DOMAIN store \ Below(store, S) |-> store[n]]

\* The elements of a sequence that are in S, in their order.
Filtered(seq, S) ==
  LET kept[i \in 0 .. Len(seq)] ==
        IF i = 0 THEN <<>>
        ELSE IF seq[i] \in S THEN Append(kept[i - 1], seq[i]) ELSE kept[i - 1]
  IN  kept[Len(seq)]

Without(seq, n) == Filtered(seq, Range(seq) \ {n})

Unlink(store, n) ==
  LET p == Parent(store, n)
  IN  IF p \notin DOMAIN store THEN store
      ELSE [store EXCEPT ![p].children = Without(@, n), ![n].parent = NoNode]

Link(store, p, n) ==
  [store EXCEPT ![p].children = Append(@, n), ![n].parent = p]

-----------------------------------------------------------------------------
(* Building.  A workspace is the store while one call is at work on it: `ok`  *)
(* is FALSE once a step failed and every later step was skipped, `made` lists *)
(* the identities of the call, `marked` that the flags were raised.           *)

Work == [node |-> nodes, next |-> nextId, ok |-> TRUE,
         made |-> <<>>, marked |-> FALSE]

Allocate(w, tag) ==
  IF ~w.ok \/ Cardinality(DOMAIN w.node) >= MaxNodes
    THEN [w EXCEPT !.ok = FALSE]
    ELSE [w EXCEPT
            !.node = [n \in DOMAIN w.node \cup {w.next} |->
                        IF n = w.next THEN [parent |-> NoNode, children |-> <<>>,
                                            tag |-> tag, named |-> FALSE]
                                      ELSE w.node[n]],
            !.next = @ + 1,
            !.made = Append(@, w.next)]

\* append_child_without_invalidation: it unlinks nothing and marks nothing.
Attach(w, p, n) ==
  IF ~w.ok \/ w.node[p].tag = "text" \/ ~DepthOk(w.node, p)
    THEN [w EXCEPT !.ok = FALSE]
    ELSE [w EXCEPT !.node = Link(@, p, n)]

ImportElement(w, subtree) ==
  LET item(v, i) ==
        LET a == Allocate(v, i.tag)
        IN  IF i.up = 0 THEN a ELSE Attach(a, a.made[i.up], Last(a.made))
      after[k \in 0 .. Len(subtree)] ==
        IF k = 0 THEN [w EXCEPT !.made = <<>>] ELSE item(after[k - 1], subtree[k])
  IN  after[Len(subtree)]

ImportSubtree(w, subtree) ==
  LET i == ImportElement(w, subtree)
  IN  IF w.ok /\ i.ok THEN [i EXCEPT !.marked = TRUE] ELSE i

AppendParsedFragment(w, fragment, p) ==
  LET one(v, subtree) ==
        LET i == ImportSubtree(v, subtree)
        IN  IF v.ok /\ i.ok THEN Attach(i, p, Head(i.made)) ELSE i
      after[k \in 0 .. Len(fragment.subs)] ==
        IF k = 0 THEN w ELSE one(after[k - 1], fragment.subs[k])
      all == after[Len(fragment.subs)]
      leaf == Allocate(all, "text")
  IN  IF ~all.ok \/ ~fragment.text THEN all
      ELSE IF leaf.ok THEN Attach(leaf, p, Last(leaf.made)) ELSE leaf

\* The nodes a call made or moved that hang from nothing when it has failed.
LeftBehind(w) ==
  {n \in DOMAIN w.node \ Live : w.node[n].parent = NoNode}

-----------------------------------------------------------------------------
(* The composed tree: what the page looks like.  A place is a node and the    *)
(* host whose slots it is exported for.                                       *)

LightChildren(store, h) ==
  Filtered(store[h].children,
           {c \in Range(store[h].children) :
              store[c].tag # "shadow-root" /\ ~store[c].named})

For(host, seq) == [i \in DOMAIN seq |-> <<seq[i], host>>]

SlotContent(store, slot, h) ==
  IF LightChildren(store, h) # <<>> THEN LightChildren(store, h)
                                    ELSE store[slot].children

ShadowContent(store, h, r) ==
  LET light == LightChildren(store, h)
      place(c) == IF store[c].tag # "slot" THEN <<<<c, h>>>>
                  ELSE IF light # <<>> THEN For(NoNode, light)
                  ELSE <<<<c, NoNode>>>>
  IN  FlattenSeq([i \in DOMAIN store[r].children |-> place(store[r].children[i])])

Exportable(store, shadow, n) ==
  /\ n \in DOMAIN store
  /\ n \in DOMAIN shadow => shadow[n] \in DOMAIN store
  /\ store[n].tag = "shadow-root" => n \in DOMAIN shadow

Content(store, shadow, place) ==
  LET n == place[1]  h == place[2]
  IN  IF ~Exportable(store, shadow, n) THEN <<>>
      ELSE IF store[n].tag = "slot" /\ h # NoNode
        THEN For(NoNode, SlotContent(store, n, h))
      ELSE IF n \in DOMAIN shadow THEN ShadowContent(store, n, shadow[n])
      ELSE For(h, store[n].children)

Blank == << >>

\* to_element: one node that cannot be exported blanks the whole page.
Export(store, shadow) ==
  LET step(P) == P \cup UNION {Range(Content(store, shadow, q)) : q \in P}
      reach[k \in 0 .. 2 * LastId] ==
        IF k = 0 THEN {<<Root, NoNode>>} ELSE step(reach[k - 1])
      places == reach[2 * LastId]
  IN  IF \E q \in places : ~Exportable(store, shadow, q[1]) THEN Blank
      ELSE [q \in places |-> Content(store, shadow, q)]

Composed == Export(nodes, shadows)
-----------------------------------------------------------------------------
(* The calls.                                                                *)

\* The bound of the model: no call may run out of identities.
Room(k) == nextId + k <= LastId + 1
Size(fragment) == Len(FlattenSeq(fragment.subs)) + 1

\* Nodes the page can name: all but what failed calls left behind.
Known == {n \in Live : \A k \in 0 .. LastId : Climb(nodes, n)[k] \notin lost}

ElementNodes == {n \in Known : nodes[n].tag # "text"}

Marked == /\ dirty' = Stages
          /\ torn' = FALSE

\* What a call leaves when it is done, or when it returned an error half-way.
Settle(w) ==
  /\ nodes' = w.node
  /\ nextId' = w.next
  /\ IF w.ok \/ w.marked
       THEN Marked
       ELSE /\ UNCHANGED dirty
            /\ torn' = (torn \/ \E n \in Live : n \notin DOMAIN w.node
                                                  \/ w.node[n] # nodes[n])
  /\ lost' = (lost \cap DOMAIN w.node) \cup (IF w.ok THEN {} ELSE LeftBehind(w))

\* An allocation marks nothing: the node hangs from nothing yet.
Create(tag) ==
  LET w == Allocate(Work, tag)
  IN  /\ Room(1)
      /\ w.ok
      /\ nodes' = w.node
      /\ nextId' = w.next
      /\ UNCHANGED <<shadows, dirty, render, layout, lost, torn>>

\* A template fragment becomes a detached subtree of fresh identities.
ImportTemplate(fragment) ==
  /\ fragment.subs # <<>>
  /\ Room(Size(fragment))
  /\ Settle(ImportSubtree(Work, Head(fragment.subs)))
  /\ UNCHANGED <<shadows, render, layout>>

\* clone_node(deep), the copies in the order the code makes them.  The copy of
\* a shadow root is an ordinary element: no record is copied.
PreOrder(n) ==
  LET visit[k \in 0 .. LastId] ==    \* preorder, k levels deep
        [m \in Live |-> IF k = 0 THEN <<m>>
          ELSE <<m>> \o FlattenSeq([i \in DOMAIN nodes[m].children |->
                                      visit[k - 1][nodes[m].children[i]]])]
  IN  visit[Cardinality(Live)][n]

\* Every copy is allocated before the copies of its children, and appended to
\* the copy of its parent once it is complete.
CloneNode(n, deep) ==
  LET order == IF deep THEN PreOrder(n) ELSE <<n>>
      room == MaxNodes - Cardinality(Live)
      made == SubSeq(order, 1, IF Len(order) < room THEN Len(order) ELSE room)
      copy(m) == nextId - 1 + (CHOOSE i \in DOMAIN made : made[i] = m)
      ok == Len(made) = Len(order)
      done(m) == ok \/ \A c \in Below(nodes, {m}) : c \in Range(made)
      kept(m) == Filtered(nodes[m].children, {c \in Range(made) : done(c)})
      copied == [i \in {copy(m) : m \in Range(made)} |->
        LET m == made[i - nextId + 1]
        IN  [parent |-> IF m = n \/ ~done(m) THEN NoNode ELSE copy(nodes[m].parent),
             children |-> IF deep THEN [j \in DOMAIN kept(m) |-> copy(kept(m)[j])]
                                  ELSE <<>>,
             tag |-> nodes[m].tag,
             named |-> nodes[m].named]]
  IN  /\ Room(Len(order))
      /\ made # <<>>
      /\ nodes' = [i \in Live \cup DOMAIN copied |->
                     IF i \in Live THEN nodes[i] ELSE copied[i]]
      /\ nextId' = nextId + Len(made)
      /\ IF ok \/ \E m \in Range(made) : done(m) THEN Marked ELSE UNCHANGED <<dirty, torn>>
      /\ lost' = lost \cup (IF ok THEN {} ELSE {i \in DOMAIN copied : copied[i].parent = NoNode})
      /\ UNCHANGED <<shadows, render, layout>>

\* Mutant: append_child without the depth check.
AppendAnywhere(p, c) ==
  /\ p # c
  /\ ~IsAncestor(nodes, c, p)
  /\ nodes' = Link(Unlink(nodes, c), p, c)
  /\ Marked
  /\ UNCHANGED <<nextId, shadows, render, layout, lost>>

AppendChild(p, c) ==
  /\ DepthOk(nodes, p)
  /\ p # c
  /\ ~IsAncestor(nodes, c, p)
  /\ nodes' = Link(Unlink(nodes, c), p, c)
  /\ Marked
  /\ UNCHANGED <<nextId, shadows, render, layout, lost>>

\* Mutant: a removal that only asks for a repaint.
RemoveQuietly(p, c) ==
  /\ c \in Range(nodes[p].children)
  /\ nodes' = [nodes EXCEPT ![p].children = Without(@, c), ![c].parent = NoNode]
  /\ dirty' = dirty \cup {"paint"}
  /\ UNCHANGED <<nextId, shadows, render, layout, lost, torn>>

RemoveChild(p, c) ==
  /\ c \in Range(nodes[p].children)
  /\ nodes' = [nodes EXCEPT ![p].children = Without(@, c), ![c].parent = NoNode]
  /\ Marked
  /\ UNCHANGED <<nextId, shadows, render, layout, lost>>

Emptied(n) ==
  [Work EXCEPT !.node = [Free(nodes, Range(nodes[n].children))
                           EXCEPT ![n].children = <<>>]]

\* On an element; the text of a text node is not in the model.
SetTextContent(n, text) ==
  LET w == Emptied(n)
      t == Allocate(w, "text")
  IN  /\ Room(1)
      /\ Settle(IF ~text THEN w ELSE IF t.ok THEN Attach(t, n, Last(t.made)) ELSE t)
      /\ UNCHANGED <<shadows, render, layout>>

\* innerHTML, of an element or a shadow root: both are nodes of the store, and of
\* one that was freed it only throws.  set_shadow_html, which looks for the record
\* of the root alone and would index the store with a freed root, is called by a
\* test only and is not modelled.
SetInnerHtml(n, fragment) ==
  /\ Room(Size(fragment))
  /\ Settle(AppendParsedFragment(Emptied(n), fragment, n))
  /\ UNCHANGED <<shadows, render, layout>>

\* The attribute `slot` decides where a light child is shown, yet it raises
\* the flags of an attribute that only repaints.
SetSlot(n) ==
  /\ nodes' = [nodes EXCEPT ![n].named = ~@]
  /\ dirty' = dirty \cup {"paint"}
  /\ torn' = (torn \/ "layout" \notin dirty)
  /\ UNCHANGED <<nextId, shadows, render, layout, lost>>

\* Any other attribute, by what mark_attribute_mutated raises for it.
\* class, id, hidden, value, checked, src and a style that moves something
\* redo the layout; aria-*, href, data-* and any other style do not.
AttributeStages == {{"paint"}, Stages}

SetAttribute(n, stages) ==
  /\ dirty' = dirty \cup stages
  /\ torn' = (torn /\ dirty' # Stages)
  /\ UNCHANGED <<nodes, nextId, shadows, render, layout, lost>>

AttachShadow(h) ==
  LET w == Allocate(Work, "shadow-root")
      a == Attach(w, h, nextId)
  IN  /\ Room(1)
      /\ Cardinality(Shadowed) < MaxShadows
      /\ nodes[h].tag # "shadow-root"
      /\ h \notin Shadowed
      /\ w.ok
      /\ Settle(a)
      /\ shadows' = IF a.ok THEN [x \in Shadowed \cup {h} |->
                                    IF x = h THEN nextId ELSE shadows[x]]
                            ELSE shadows
      /\ UNCHANGED <<render, layout>>

\* A clean document serves the retained frame.  A style change alone
\* restyles the retained layout, which keeps its shape.
Redrawn(tree) == IF "layout" \in dirty THEN tree ELSE layout

Refresh ==
  /\ dirty # {}
  /\ render' = Composed
  /\ layout' = Redrawn(Composed)
  /\ dirty' = {}
  /\ UNCHANGED <<nodes, nextId, shadows, lost, torn>>

Init ==
  /\ nodes = [n \in {Root} |-> [parent |-> NoNode, children |-> <<>>,
                                tag |-> "div", named |-> FALSE]]
  /\ nextId = Root + 1
  /\ shadows = << >>
  /\ dirty = {}
  /\ calls = 0
  /\ render = Composed
  /\ layout = Composed
  /\ lost = {}
  /\ torn = FALSE

Call ==
  \/ \E tag \in Tags \ {"shadow-root"} : Create(tag)
  \/ \E f \in Markup : ImportTemplate(f)
  \/ \E n \in Known, deep \in BOOLEAN : CloneNode(n, deep)
  \/ \E p \in ElementNodes, c \in Known : AppendChild(p, c)
  \/ \E p \in ElementNodes, c \in Known : RemoveChild(p, c)
  \/ \E n \in ElementNodes, text \in BOOLEAN : SetTextContent(n, text)
  \/ \E n \in ElementNodes, f \in Markup : SetInnerHtml(n, f)
  \/ \E n \in ElementNodes : SetSlot(n)
  \/ \E n \in ElementNodes, stages \in AttributeStages : SetAttribute(n, stages)
  \/ \E h \in ElementNodes : AttachShadow(h)

Next ==
  \/ calls < LastCall /\ calls' = calls + 1 /\ Call
  \/ Refresh /\ UNCHANGED calls

Spec == Init /\ [][Next]_vars
-----------------------------------------------------------------------------
(* Properties.                                                               *)

\* The store is a forest whatever sequence of calls built it: parents and
\* children agree, nothing is shared, and no chain of parents closes on itself.
\* The cycle check of append_child climbs a bounded way only, and is enough
\* because the depth check before it refuses every longer chain.
TreeSound ==
  \A n \in Live :
    /\ IsInjective(nodes[n].children)
    /\ nodes[n].parent \in Live \cup {NoNode}
    /\ \A c \in Range(nodes[n].children) : c \in Live /\ nodes[c].parent = n
    /\ nodes[n].parent # NoNode => n \in Range(nodes[nodes[n].parent].children)
    /\ Climb(nodes, n)[LastId] = NoNode

\* A document without a dirty flag has been drawn as it is: unless a call
\* failed half-way or a child was given to another slot, the retained element
\* tree and the tree under the retained layout are the composed tree.
RenderIsCurrent ==
  dirty = {} /\ ~torn => render = Composed /\ layout = Composed

\* The way of an event from its target up to a listener, and the shadow roots on it.
WayUp(target, current) ==
  LET up == Climb(nodes, target)
  IN  {k \in 0 .. LastId : \A j \in 0 .. k : up[j] # current}
CrossedAt(target, current) ==
  {k \in WayUp(target, current) : Climb(nodes, target)[k] \in ShadowRoots}
Outermost(target, current) ==
  LET at == CrossedAt(target, current)
  IN  Climb(nodes, target)[CHOOSE k \in at : \A j \in at : j <= k]

\* Mutant: the first boundary crossed decides, not the last.
InnermostTarget(target, current) ==
  LET at == CrossedAt(target, current)
  IN  IF at = {} THEN target
      ELSE HostOf(Climb(nodes, target)[CHOOSE k \in at : \A j \in at : k <= j])

\* effective_target: the node a listener of `current` sees as the target.
EffectiveTarget(target, current) ==
  IF CrossedAt(target, current) = {} THEN target ELSE HostOf(Outermost(target, current))

\* A shadow boundary hides what is inside: a listener on the path of an event
\* but outside a shadow tree is never shown a node of that tree, however the
\* trees are nested, as long as the outermost shadow root on the way from the
\* target was not taken from its host.
BoundaryHides ==
  \A h \in Shadowed :
    LET inside == Below(nodes, {shadows[h]})
    IN  \A t \in inside, c \in Live \ inside :
          LET r == Outermost(t, c)
          IN  IsAncestor(nodes, c, t) /\ nodes[r].parent = HostOf(r)
                => EffectiveTarget(t, c) \notin inside

=============================================================================
