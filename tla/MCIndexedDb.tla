---------------------------- MODULE MCIndexedDb ----------------------------
(* Values that collide in the index, miss its key path, or fill the store.   *)
EXTENDS IndexedDb, TLC

MCValues ==
  {[indexed |-> TRUE, keys |-> {1}, size |-> 1],
   [indexed |-> TRUE, keys |-> {1, 2}, size |-> 2],
   [indexed |-> FALSE, keys |-> {}, size |-> 1]}
=============================================================================
