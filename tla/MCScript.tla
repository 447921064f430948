------------------------------- MODULE MCScript -------------------------------
(* What scripts work on, each part beside the others: the heap, with three   *)
(* slots, one object besides the global object and the document at a time    *)
(* and one string value; the live document, with three fragments a page may  *)
(* write; the promises of a page; and the styles of a root and three         *)
(* elements under a sheet whose rules look at positions, siblings, ancestors *)
(* and an attribute.  They share no state: `part` says which of them a       *)
(* behaviour is about.                                                       *)
EXTENDS EngineState, TLC

CONSTANT text
MCScalarCost == text :> 3

VARIABLE part

Entry(tag, up) == [tag |-> tag, up |-> up]
Fragments ==
  {[subs |-> <<>>, text |-> TRUE],
   [subs |-> <<<<Entry("div", 0), Entry("slot", 1)>>>>, text |-> FALSE],
   [subs |-> <<<<Entry("div", 0)>>, <<Entry("slot", 0)>>>>, text |-> FALSE]}

SheetRule(class_, first, data_, by, left, property, value, important) ==
  [class |-> class_, first |-> first, data |-> data_, by |-> by, left |-> left,
   property |-> property, value |-> value, important |-> important]

\* The fingerprint tells all of the colour of both classes and of the box of the
\* first, and not of the box of the second nor of the spacing.
SheetRules ==
  <<SheetRule("a", TRUE, FALSE, "none", "a", "color", "red", FALSE),
    SheetRule("a", FALSE, FALSE, "adjacent", "b", "box", "blue", FALSE),
    SheetRule("b", FALSE, FALSE, "sibling", "b", "color", "green", TRUE),
    SheetRule("b", FALSE, FALSE, "descendant", "b", "box", "gray", FALSE),
    SheetRule("b", FALSE, TRUE, "none", "b", "box", "gold", FALSE),
    SheetRule("a", FALSE, FALSE, "child", "b", "spacing", "wide", FALSE)>>

allVars == <<part, vars, documentVars, jobVars, styleVars>>
InHeap == part = "heap" /\ UNCHANGED <<part, documentVars, jobVars, styleVars>>
InDocument == part = "document" /\ UNCHANGED <<part, vars, jobVars, styleVars>>
InJobs == part = "promises" /\ UNCHANGED <<part, vars, documentVars, styleVars>>
InStyles == part = "styles" /\ UNCHANGED <<part, vars, documentVars, jobVars>>

\* The class of the root plays no part in the rules for the others; a call
\* gives the last element another.
MCInit == /\ part \in {"heap", "document", "promises", "styles"}
          /\ Init /\ Promises!Init /\ Styles!Init
          /\ IF part = "document" THEN Dom!Init
             ELSE /\ nodes = <<>> /\ nextId = 0 /\ shadows = <<>> /\ dirty = {"paint"} /\ calls = 0
                  /\ render = <<>> /\ layout = <<>> /\ lost = {} /\ torn = FALSE
          /\ class["r"] = "a" /\ class["z"] = "a"
          /\ part # "styles" => \A n \in DOMAIN class : class[n] = "a"
MCNext == \/ InHeap /\ Next
          \/ InDocument /\ Dom!Next
          \/ InJobs /\ Promises!Next
          \/ InStyles /\ Styles!Next
MCSpec == MCInit /\ [][MCNext]_allVars
=============================================================================
