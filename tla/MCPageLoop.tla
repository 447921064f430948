----------------------------- MODULE MCPageLoop -----------------------------
(* A page's turns, with two nodes of which the first has the number of the   *)
(* second for its handle: a new page, or one that has been drawn with an     *)
(* observer of each kind on its first node, so that Redraw has scheduled the *)
(* layout observer for the next pump, and that runs a script, two calls of   *)
(* which are made.                                                           *)
EXTENDS PageLoop

MCNodes == {1, 2}
MCHandle == [n \in MCNodes |-> n + 1]

Drawn ==
  /\ Quiet
  /\ watches = Observers \X {1}
  /\ records = [o \in Observers |-> IF o \in LayoutObservers THEN 1 ELSE 0]
  /\ notify \in SetToSeqs(LayoutObservers)
  /\ at = "round" /\ running = <<"script", 0>> /\ calls = 2

MCSpec == (Init \/ Drawn) /\ [][Next]_vars /\ Fairness
=============================================================================
