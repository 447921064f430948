--------------------------- MODULE MCSourceBuffers --------------------------
(* A sample, and a segment that replaces it and then exceeds the budget.     *)
EXTENDS SourceBuffers

At(time, bytes) == [track |-> 1, at |-> time, length |-> 1, bytes |-> bytes]

TwoSegments == {<<At(0, 1)>>, <<At(0, 2), At(1, 2)>>}
=============================================================================
