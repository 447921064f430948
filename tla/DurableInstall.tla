---------------------------- MODULE DurableInstall ----------------------------
(***************************************************************************)
(* What a transactional updater promises of the installation, whatever     *)
(* crashes or fails: `version` and `tree` are what the next start of the   *)
(* program ends up with.  They change together and upwards only.  A time   *)
(* during which nothing is promised is called exposed.                     *)
(***************************************************************************)
EXTENDS Integers

CONSTANTS Versions, Release(_)

VARIABLES version, tree, exposed

Init == /\ version \in Versions /\ tree = Release(version)
        /\ exposed = FALSE

\* An update takes effect in one step.
Update == /\ ~exposed /\ exposed' = FALSE
          /\ version' \in Versions /\ version' > version
          /\ tree' = Release(version')

Expose == exposed' = TRUE

\* The exposed time ends with nothing lost.
Cover == /\ exposed /\ exposed' = FALSE
         /\ version' = version /\ tree' = Release(version)

Next == Update \/ Expose \/ Cover

Spec == Init /\ [][Next]_<<version, tree, exposed>>
=============================================================================
