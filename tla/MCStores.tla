------------------------------- MODULE MCStores -------------------------------
(* The files of the program with small bounds: two pages of an origin with   *)
(* values that collide in the index, miss its key path, or fill the store.   *)
(* While the updater is at rest its version plays no part.                   *)
EXTENDS DurableFiles, TLC

MCValues ==
  {[indexed |-> TRUE, keys |-> {1}, size |-> 1],
   [indexed |-> TRUE, keys |-> {1, 2}, size |-> 2],
   [indexed |-> FALSE, keys |-> {}, size |-> 1]}

MCInit == FilesInit /\ (part # "updater" => version = 1)
MCSpec == MCInit /\ [][FilesNext]_allVars /\ WF_allVars(InUpdater /\ Proceeds)
=============================================================================
