--------------------------- MODULE BoundedService ---------------------------
(***************************************************************************)
(* What the network scheduler promises its callers: at most Capacity       *)
(* requests are being worked on, every request is answered at most once,   *)
(* work never starts for a withdrawn request, a withdrawn request is never *)
(* answered with data, and "cancelled" is only answered to the withdrawn.  *)
(***************************************************************************)
EXTENDS Naturals, FiniteSets

CONSTANTS Requests, Capacity, Outcomes, None

VARIABLES inService, outcome, withdrawn

vars == <<inService, outcome, withdrawn>>

Init == /\ inService = {}
        /\ outcome = [r \in Requests |-> None]
        /\ withdrawn = {}

Withdraw(S) == /\ withdrawn' = withdrawn \cup S
               /\ UNCHANGED <<inService, outcome>>

Enter(r) == /\ outcome[r] = None
            /\ r \notin inService \cup withdrawn
            /\ Cardinality(inService) < Capacity
            /\ inService' = inService \cup {r}
            /\ UNCHANGED <<outcome, withdrawn>>

Answer(r, o) == /\ outcome[r] = None
                /\ o = "ok" => r \in inService \ withdrawn
                /\ o = "cancelled" => r \in withdrawn
                /\ outcome' = [outcome EXCEPT ![r] = o]
                /\ inService' = inService \ {r}
                /\ UNCHANGED withdrawn

Next == \/ \E S \in SUBSET Requests : Withdraw(S)
        \/ \E r \in Requests : Enter(r)
        \/ \E r \in Requests, o \in Outcomes : Answer(r, o)

Spec == Init /\ [][Next]_vars
=============================================================================
