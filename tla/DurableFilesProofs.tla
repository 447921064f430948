---------------------------- MODULE DurableFilesProofs --------------------------
(***************************************************************************)
(* What the program keeps in files, for every set of files, every number   *)
(* of releases and any number of crashes and failures.  Outside the named  *)
(* windows an update is atomic; a completed save of the profile is found   *)
(* again; a unique index of a database stays unique.                       *)
(***************************************************************************)
EXTENDS DurableFiles, TLAPS

Unfinished == journal # None /\ journal.phase \in {"BackedUp", "Applying"}
Committed == journal # None /\ journal.phase = "Committed"

(* Where a call is says what the journal holds.                            *)
Staging == {"backup", "backingUp"}
Replacing == {"retake", "retaking", "replacing", "undo", "undoing"}
Finishing == {"settled", "clearing"}

Progress ==
  /\ call.step = "staged" => call.to > version
  /\ call.step \in Staging \cup {"backedUp"} \cup Replacing =>
       journal # None /\ journal.from = version /\ journal.to = call.to
  /\ call.step \in Staging => journal.phase = "Staged"
  /\ call.step = "backedUp" => journal.phase = "BackedUp"
  /\ call.step \in Replacing => journal.phase = "Applying"
  /\ call.step \in Finishing => journal # None
  /\ call.step \in {"restore", "restoring"} => Unfinished
  /\ call.step = "clearing" => saved = version
  /\ call.step \in {"backingUp", "backedUp", "retaking", "replacing", "undoing", "restoring",
                   "roll", "rolling"} => backup # None
  /\ call.step \in {"undo", "undoing"} => call.tries \in {1, 2}
  /\ call.step = "undo" /\ call.tries = 2 => backup # None
  /\ call.step \in {"roll", "rolling"} => holes # {}

(* What is on the disk, as long as no unprotected window was interrupted.  *)
Disk ==
  /\ ~Unfinished => install = Release(RestartVersion)
  /\ Unfinished /\ ~Unprotected => backup = Release(journal.from)
  /\ ~Committed => saved = RestartVersion
  /\ call.step # "down" => version = RestartVersion

(* How far the copy under way has come.                                    *)
Copy ==
  /\ call.step = "staged" /\ ~JournalNeeded => call.candidate = Release(call.to)
  /\ call.step \in Staging \cup {"backedUp", "retake"} => install = Release(version)
  /\ call.step = "retaking" /\ call.left # {} => install = Release(version)
  /\ call.step \in Staging \cup {"backedUp", "retake", "retaking"} =>
       call.candidate = Release(call.to)
  /\ call.step = "replacing" =>
       /\ call.candidate = Release(call.to)
       /\ \A f \in Files \ call.left : install[f] = call.candidate[f]
  /\ call.step \in {"backingUp", "retaking"} =>
       \A f \in Files \ call.left : backup[f] = Release(version)[f]
  /\ call.step \in {"undoing", "restoring"} =>
       \A f \in Files \ call.left : install[f] = backup[f]
  /\ call.step \in Finishing => install = Release(version)
  /\ call.step = "repairing" => call.to = version

IInv == TypeOK /\ Progress /\ (holes = {} => Disk /\ Copy)
-----------------------------------------------------------------------------
LEMMA TreeFacts ==
  /\ \A v \in Versions : Release(v) \in Trees /\ Present(Release(v)) = Files
  /\ Empty \in Trees /\ \A f \in Files : Empty[f] = None
  /\ \A t \in Trees : t # None /\ Present(t) \subseteq Files
  <1>1. \A v \in Versions : v \in Nat /\ v # None
    BY UpdaterAssumption DEF Versions
  <1>2. 0 # None
    BY UpdaterAssumption
  <1>3. \A v \in Versions : Release(v) \in Trees
    BY DEF Release, Trees
  <1>4. ASSUME NEW v \in Versions PROVE Present(Release(v)) = Files
    BY <1>1, <1>2 DEF Release, Present
  <1>5. Empty \in Trees /\ \A f \in Files : Empty[f] = None
    BY DEF Empty, Trees
  <1>6. \A t \in Trees : t # None
    BY UpdaterAssumption
  <1>7. \A t \in Trees : Present(t) \subseteq Files
    BY DEF Present
  <1> QED BY <1>3, <1>4, <1>5, <1>6, <1>7

LEMMA SameTree ==
  ASSUME NEW s \in Trees, NEW t \in Trees, \A f \in Files : s[f] = t[f]
  PROVE  s = t
  BY DEF Trees

LEMMA JournalFacts ==
  /\ \A j \in Journals : /\ j # None /\ j.from \in Versions /\ j.to \in Versions
                         /\ j.phase \in Phases
                         /\ \A ph \in Phases : [j EXCEPT !.phase = ph] \in Journals
  /\ \A v, w \in Versions : [from |-> v, to |-> w, phase |-> "Staged"] \in Journals
  <1>1. \A j \in Journals : j # None
    BY UpdaterAssumption
  <1>2. "Staged" \in Phases
    BY DEF Phases
  <1> QED BY <1>1, <1>2 DEF Journals

LEMMA CallFacts ==
  /\ Idle \in Calls /\ Down \in Calls
  /\ Idle.step = "idle" /\ Down.step = "down" /\ Idle.left = {} /\ Down.left = {}
  /\ \A c \in Calls : /\ c.op \in {"none", "apply", "start"} /\ c.step \in Steps
                      /\ c.to \in Versions /\ c.candidate \in Trees
                      /\ c.left \subseteq Files /\ c.tries \in 0..2
  <1>1. 1 \in Versions
    BY UpdaterAssumption DEF Versions
  <1>2. Empty \in Trees
    BY TreeFacts
  <1>3. Idle \in Calls
    BY <1>1, <1>2 DEF Calls, Idle, Steps
  <1>4. Down \in Calls
    BY <1>3 DEF Calls, Down, Steps
  <1>5. Idle.step = "idle" /\ Down.step = "down" /\ Idle.left = {} /\ Down.left = {}
    BY DEF Idle, Down
  <1>6. \A c \in Calls : /\ c.op \in {"none", "apply", "start"} /\ c.step \in Steps
                         /\ c.to \in Versions /\ c.candidate \in Trees
                         /\ c.left \subseteq Files /\ c.tries \in 0..2
    BY DEF Calls
  <1> QED BY <1>3, <1>4, <1>5, <1>6
-----------------------------------------------------------------------------
LEMMA InitInv == Init => IInv
  <1> SUFFICES ASSUME Init PROVE IInv
    OBVIOUS
  <1>1. TypeOK
    BY TreeFacts, CallFacts, UpdaterAssumption DEF Init, TypeOK
  <1>2. call.step = "idle" /\ journal = None /\ ~Unfinished /\ ~Committed
    BY CallFacts DEF Init, Unfinished, Committed
  <1>3. Progress
    BY <1>2 DEF Progress, Staging, Replacing, Finishing
  <1>4. Disk
    BY <1>2 DEF Init, Disk, RestartVersion
  <1>5. Copy
    BY <1>2 DEF Copy, Staging, Finishing
  <1> QED BY <1>1, <1>3, <1>4, <1>5 DEF IInv

(* The fields of a call after a step.                                      *)
LEMMA GotoFields ==
  ASSUME NEW c \in Calls, NEW st \in Steps, NEW d, d = [c EXCEPT !.step = st]
  PROVE  /\ d \in Calls /\ d.step = st /\ d.op = c.op /\ d.to = c.to
         /\ d.candidate = c.candidate /\ d.left = c.left /\ d.tries = c.tries
  BY DEF Calls

LEMMA CopiedFields ==
  ASSUME NEW c \in Calls, NEW f \in Files, NEW d, d = [c EXCEPT !.left = @ \ {f}]
  PROVE  /\ d \in Calls /\ d.step = c.step /\ d.left = c.left \ {f}
         /\ d.to = c.to /\ d.candidate = c.candidate /\ d.tries = c.tries
  BY DEF Calls

LEMMA UndoFields ==
  ASSUME NEW c \in Calls, NEW n \in {1, 2}, NEW d,
         d = [c EXCEPT !.step = "undo", !.tries = n]
  PROVE  /\ d \in Calls /\ d.step = "undo" /\ d.tries = n
         /\ d.to = c.to /\ d.candidate = c.candidate /\ d.left = c.left
  <1>1. "undo" \in Steps /\ n \in 0..2
    BY DEF Steps
  <1> QED BY <1>1 DEF Calls

LEMMA BeginFields ==
  ASSUME NEW c \in Calls, NEW v \in Versions, NEW t \in Trees, NEW d,
         d = [c EXCEPT !.op = "apply", !.step = "staged", !.to = v, !.candidate = t]
  PROVE  d \in Calls /\ d.step = "staged" /\ d.to = v /\ d.candidate = t /\ d.left = c.left
  <1>1. "staged" \in Steps
    BY DEF Steps
  <1> QED BY <1>1 DEF Calls

(* Every step of a call, by what it does to `call`.                        *)
LEMMA CallStep ==
  ASSUME TypeOK
  PROVE  /\ \A st \in Steps : Goto(st) =>
              /\ call' \in Calls /\ call'.step = st /\ call'.op = call.op
              /\ call'.to = call.to /\ call'.candidate = call.candidate
              /\ call'.left = call.left /\ call'.tries = call.tries
         /\ \A st \in Steps, t \in Trees : Copying(st, t) =>
              /\ call' \in Calls /\ call'.step = st /\ call'.left = Present(t)
              /\ call'.to = call.to /\ call'.candidate = call.candidate
              /\ call'.tries = call.tries
         /\ \A f \in Files : Copied(f) =>
              /\ call' \in Calls /\ call'.step = call.step /\ call'.left = call.left \ {f}
              /\ call'.to = call.to /\ call'.candidate = call.candidate
              /\ call'.tries = call.tries
         /\ \A n \in {1, 2} : RestoreAgain(n) =>
              /\ call' \in Calls /\ call'.step = "undo" /\ call'.tries = n
              /\ call'.to = call.to /\ call'.candidate = call.candidate
              /\ call'.left = call.left
  <1>1. call \in Calls
    BY DEF TypeOK
  <1>2. \A st \in Steps : Goto(st) =>
              /\ call' \in Calls /\ call'.step = st /\ call'.op = call.op
              /\ call'.to = call.to /\ call'.candidate = call.candidate
              /\ call'.left = call.left /\ call'.tries = call.tries
    BY <1>1, GotoFields DEF Goto
  <1>3. \A st \in Steps, t \in Trees : Copying(st, t) =>
              /\ call' \in Calls /\ call'.step = st /\ call'.left = Present(t)
              /\ call'.to = call.to /\ call'.candidate = call.candidate
              /\ call'.tries = call.tries
    <2> SUFFICES ASSUME NEW st \in Steps, NEW t \in Trees, Copying(st, t)
                 PROVE  /\ call' \in Calls /\ call'.step = st /\ call'.left = Present(t)
                        /\ call'.to = call.to /\ call'.candidate = call.candidate
                        /\ call'.tries = call.tries
      OBVIOUS
    <2>1. Present(t) \subseteq Files
      BY TreeFacts
    <2>2. call' = [call EXCEPT !.step = st, !.left = Present(t)]
      BY DEF Copying
    <2> QED BY <1>1, <2>1, <2>2 DEF Calls
  <1>4. \A f \in Files : Copied(f) =>
              /\ call' \in Calls /\ call'.step = call.step /\ call'.left = call.left \ {f}
              /\ call'.to = call.to /\ call'.candidate = call.candidate
              /\ call'.tries = call.tries
    BY <1>1, CopiedFields DEF Copied
  <1>5. \A n \in {1, 2} : RestoreAgain(n) =>
              /\ call' \in Calls /\ call'.step = "undo" /\ call'.tries = n
              /\ call'.to = call.to /\ call'.candidate = call.candidate
              /\ call'.left = call.left
    BY <1>1, UndoFields DEF RestoreAgain
  <1> QED BY ONLY <1>2, <1>3, <1>4, <1>5

LEMMA TypeStep == ASSUME TypeOK, Progress, [Next]_vars PROVE TypeOK'
  <1> USE DEF At, Done, disk
  <1>1. ASSUME NEW v \in Versions, NEW delta \in BOOLEAN, Begin(v, delta) PROVE TypeOK'
    <2>1. [f \in Files |-> IF f \in Hot THEN v ELSE install[f]] \in Trees /\ Release(v) \in Trees
      BY TreeFacts DEF Trees, TypeOK
    <2>3. PICK t \in Trees :
            call' = [call EXCEPT !.op = "apply", !.step = "staged", !.to = v, !.candidate = t]
      BY <1>1, <2>1 DEF Begin
    <2>4. call \in Calls
      BY DEF TypeOK
    <2>2. call' \in Calls
      BY ONLY <2>3, <2>4, v \in Versions, t \in Trees, BeginFields, ZenonT(60)
    <2> QED BY <1>1, <2>2 DEF Begin, TypeOK
  <1>2. CASE WriteStaged
    <2>1. "backup" \in Steps
      BY DEF Steps
    <2>2. call' \in Calls
      BY <1>2, <2>1, CallStep DEF WriteStaged
    <2>3. call.to \in Versions /\ version \in Versions /\ version < call.to
      BY <1>2, CallFacts DEF TypeOK, Progress, WriteStaged, Versions
    <2>4. journal' = [from |-> version, to |-> call.to, phase |-> "Staged"]
      BY <1>2 DEF WriteStaged
    <2>5. journal' \in Journals /\ journal'.from < journal'.to
      BY <2>3, <2>4, JournalFacts
    <2> QED BY <1>2, <2>2, <2>5 DEF WriteStaged, TypeOK, JournalNeeded
  <1>3. CASE Backup \/ Retake
    <2>1. {"backingUp", "retaking"} \subseteq Steps
      BY DEF Steps
    <2>2. call' \in Calls
      BY <1>3, <2>1, CallStep DEF Backup, Retake, TypeOK
    <2>3. backup' \in Trees
      BY <1>3, TreeFacts DEF Backup, Retake
    <2> QED BY <1>3, <2>2, <2>3 DEF Backup, Retake, TypeOK
  <1>20. ASSUME NEW f \in Files, RemoveFromBackup(f) PROVE TypeOK'
    <2>1. backup \in Trees /\ backup' = [backup EXCEPT ![f] = None]
      BY <1>20 DEF RemoveFromBackup, TypeOK
    <2>2. backup' \in Trees
      BY <2>1 DEF Trees
    <2> QED BY <1>20, <2>2 DEF RemoveFromBackup, TypeOK
  <1>21. CASE RemoveBackup
    BY <1>21 DEF RemoveBackup, TypeOK
  <1>22. ASSUME NEW f \in Files, RemoveFromInstall(f) PROVE TypeOK'
    <2>1. install \in Trees /\ install' = [install EXCEPT ![f] = None]
      BY <1>22 DEF RemoveFromInstall, TypeOK
    <2>2. install' \in Trees
      BY <2>1 DEF Trees
    <2> QED BY <1>22, <2>2 DEF RemoveFromInstall, TypeOK
  <1>4. ASSUME NEW f \in Files, CopyToBackup(f) PROVE TypeOK'
    <2>1. call' \in Calls
      BY <1>4, CallStep DEF CopyToBackup
    <2>2. backup \in Trees
      BY <1>4 DEF CopyToBackup, TypeOK, Progress, Replacing
    <2>3. backup' \in Trees
      BY <1>4, <2>2 DEF CopyToBackup, TypeOK, Trees
    <2> QED BY <1>4, <2>1, <2>3 DEF CopyToBackup, TypeOK
  <1>5. CASE MarkBackedUp \/ MarkApplying \/ Commit
    <2>1. {"backedUp", "retake", "settled"} \subseteq Steps /\ {"BackedUp", "Applying", "Committed"} \subseteq Phases
      BY DEF Steps, Phases
    <2>2. call' \in Calls
      BY <1>5, <2>1, CallStep DEF MarkBackedUp, MarkApplying, Commit
    <2>3. journal \in Journals
      BY <1>5 DEF MarkBackedUp, MarkApplying, Commit, TypeOK, Progress, Staging, Replacing
    <2>4. journal' \in Journals
      BY <1>5, <2>1, <2>3, JournalFacts DEF MarkBackedUp, MarkApplying, Commit
    <2>5. journal'.from = journal.from /\ journal'.to = journal.to /\ journal # None
      BY <1>5, <2>3, JournalFacts DEF MarkBackedUp, MarkApplying, Commit, Journals
    <2>6. version' \in Versions
      BY <1>5, CallFacts DEF MarkBackedUp, MarkApplying, Commit, TypeOK
    <2> QED BY <1>5, <2>2, <2>4, <2>5, <2>6 DEF MarkBackedUp, MarkApplying, Commit, TypeOK
  <1>6. CASE Replace \/ Undo \/ Recover \/ RollOut
    <2>1. {"replacing", "undoing", "restoring", "rolling"} \subseteq Steps
      BY DEF Steps
    <2>2. call.candidate \in Trees
      BY CallFacts DEF TypeOK
    <2>3. Undo \/ Recover \/ RollOut => backup \in Trees
      BY DEF Undo, Recover, RollOut, Restore, TypeOK
    <2>4. call' \in Calls
      BY <1>6, <2>1, <2>2, <2>3, CallStep DEF Replace, Undo, Recover, RollOut, Restore
    <2> QED BY <1>6, <2>4 DEF Replace, Undo, Recover, RollOut, Restore, TypeOK
  <1>7. ASSUME NEW f \in Files, CopyCandidate(f) \/ CopyBack(f) \/ RepairFile(f) PROVE TypeOK'
    <2>1. call' \in Calls
      BY <1>7, CallStep DEF CopyCandidate, CopyBack, RepairFile
    <2>2. call.candidate \in Trees /\ Release(call.to) \in Trees
      BY CallFacts, TreeFacts DEF TypeOK
    <2>3. CopyBack(f) => backup \in Trees
      BY DEF CopyBack, Restoring, Progress, Replacing, TypeOK
    <2>4. install' \in Trees
      BY <1>7, <2>2, <2>3 DEF CopyCandidate, CopyBack, RepairFile, TypeOK, Trees
    <2> QED BY <1>7, <2>1, <2>4 DEF CopyCandidate, CopyBack, RepairFile, TypeOK
  <1>8. CASE PersistState
    <2>1. "clearing" \in Steps
      BY DEF Steps
    <2>2. call' \in Calls
      BY <1>8, <2>1, CallStep DEF PersistState
    <2> QED BY <1>8, <2>2 DEF PersistState, TypeOK
  <1>9. CASE \/ Clear \/ Undone \/ UndoWithoutBackup \/ RecoverWithoutBackup \/ RolledBack
            \/ Repaired \/ Quit
    BY <1>9, CallFacts DEF Clear, Undone, UndoWithoutBackup, RecoverWithoutBackup, RolledBack,
                           Repaired, Quit, TypeOK
  <1>10. CASE UndoAgain
    <2>1. "undo" \in Steps
      BY DEF Steps
    <2>2. call' \in Calls
      BY <1>10, CallStep DEF UndoAgain, RestoreAgain
    <2> QED BY <1>10, <2>2 DEF UndoAgain, TypeOK
  <1>11. CASE RollBack
    <2>1. "roll" \in Steps
      BY DEF Steps
    <2>2. call' \in Calls
      BY <1>11, <2>1, CallStep DEF RollBack
    <2> QED BY <1>11, <2>2 DEF RollBack, TypeOK
  <1>12. ASSUME NEW v \in Versions, Repair(v) PROVE TypeOK'
    <2>3. call' = [call EXCEPT !.step = "repairing", !.to = v,
                     !.left = {f \in Files : install[f] # Release(v)[f]}]
      BY <1>12 DEF Repair
    <2>4. call \in Calls /\ {f \in Files : install[f] # Release(v)[f]} \subseteq Files
      BY DEF TypeOK
    <2>1. call' \in Calls
      <3> DEFINE L == {f \in Files : install[f] # Release(v)[f]}
      <3>1. L \subseteq Files /\ call' = [call EXCEPT !.step = "repairing", !.to = v, !.left = L]
        BY <2>3
      <3>2. "repairing" \in Steps
        BY DEF Steps
      <3> HIDE DEF L
      <3> QED BY <2>4, <3>1, <3>2 DEF Calls
    <2> QED BY <1>12, <2>1 DEF Repair, TypeOK
  <1>13. CASE Start
    <2>1. {"restore", "settled"} \subseteq Steps
      BY DEF Steps
    <2>2. call' \in Calls
      BY <1>13, <2>1, CallStep, CallFacts DEF Start
    <2>3. version' \in Versions
      BY <1>13, JournalFacts DEF Start, TypeOK
    <2> QED BY <1>13, <2>2, <2>3 DEF Start, TypeOK
  <1>14. CASE Recovered
    <2>1. "settled" \in Steps
      BY DEF Steps
    <2>2. call' \in Calls
      BY <1>14, <2>1, CallStep DEF Recovered
    <2>3. version' \in Versions
      BY <1>14, JournalFacts DEF Recovered, TypeOK, Progress, Unfinished
    <2> QED BY <1>14, <2>2, <2>3 DEF Recovered, TypeOK
  <1>15. ASSUME Interrupted
         PROVE  /\ faults' \in 0..MaxFaults
                /\ holes' \subseteq {"retake", "retry", "rollback", "repair"}
    BY <1>15, UpdaterAssumption DEF Interrupted, TypeOK
  <1>16. CASE Crash
    BY <1>16, <1>15, CallFacts DEF Crash, TypeOK
  <1>17. CASE FailureUndone
    <2>1. "undo" \in Steps
      BY DEF Steps
    <2>2. call' \in Calls
      BY <1>17, <2>1, CallStep DEF FailureUndone, RestoreAgain
    <2> QED BY <1>17, <1>15, <2>2 DEF FailureUndone, TypeOK
  <1>18. CASE FailureReturned
    <2>1. call' \in Calls
      BY <1>18, CallFacts DEF FailureReturned
    <2>2. saved' \in Versions
      BY <1>18 DEF FailureReturned, TypeOK
    <2>3. journal' = journal \/ journal' = None
      BY <1>18 DEF FailureReturned
    <2> QED BY <1>18, <1>15, <2>1, <2>2, <2>3 DEF FailureReturned, TypeOK
  <1>19. CASE UNCHANGED vars
    BY <1>19 DEF vars, TypeOK
  <1> QED
    BY <1>1, <1>2, <1>3, <1>4, <1>5, <1>6, <1>7, <1>8, <1>9, <1>10, <1>11, <1>12, <1>13,
       <1>14, <1>16, <1>17, <1>18, <1>19, <1>20, <1>21, <1>22 DEF Next, Requests, Proceeds
-----------------------------------------------------------------------------
(* A phase change touches nothing else in the journal.                      *)
LEMMA PhaseFacts ==
  ASSUME NEW j \in Journals, NEW ph \in Phases
  PROVE  /\ [j EXCEPT !.phase = ph].from = j.from /\ [j EXCEPT !.phase = ph].to = j.to
         /\ [j EXCEPT !.phase = ph].phase = ph /\ [j EXCEPT !.phase = ph] # None
         /\ j # None
  <1>1. [j EXCEPT !.phase = ph] # None /\ j # None
    BY JournalFacts
  <1> QED BY <1>1 DEF Journals

LEMMA ProgressStep ==
  ASSUME TypeOK, Progress, [Next]_vars, TypeOK'
  PROVE  Progress'
  <1> USE DEF At, Done, disk, Staging, Replacing, Finishing, Unfinished
  <1>1. ASSUME NEW v \in Versions, NEW delta \in BOOLEAN, Begin(v, delta) PROVE Progress'
    <2>1. [f \in Files |-> IF f \in Hot THEN v ELSE install[f]] \in Trees /\ Release(v) \in Trees
      BY TreeFacts DEF Trees, TypeOK
    <2>2. PICK t \in Trees :
            call' = [call EXCEPT !.op = "apply", !.step = "staged", !.to = v, !.candidate = t]
      BY <1>1, <2>1 DEF Begin
    <2>3. call'.step = "staged" /\ call'.to = v
      <3>1. call \in Calls
        BY DEF TypeOK
      <3> QED BY <2>2, <3>1 DEF Calls
    <2>4. v > version /\ UNCHANGED <<disk, version, holes>>
      BY <1>1 DEF Begin
    <2> QED BY <2>3, <2>4 DEF Progress
  <1>2. CASE WriteStaged
    <2>1. call'.step = "backup" /\ call'.to = call.to
      BY <1>2, CallStep DEF WriteStaged, Steps
    <2>2. journal' = [from |-> version, to |-> call.to, phase |-> "Staged"] /\ journal' # None
      BY <1>2, CallFacts, JournalFacts DEF WriteStaged, TypeOK
    <2> QED BY <1>2, <2>1, <2>2 DEF WriteStaged, Progress
  <1>3. CASE Backup \/ Retake
    <2>1. call'.step = (IF At("backup") THEN "backingUp" ELSE "retaking") /\ call'.to = call.to
      BY <1>3, CallStep DEF Backup, Retake, Steps, TypeOK
    <2>2. backup' # None
      BY <1>3, TreeFacts DEF Backup, Retake
    <2> QED BY <1>3, <2>1, <2>2 DEF Backup, Retake, Progress
  <1>20. ASSUME NEW f \in Files, RemoveFromBackup(f) \/ RemoveFromInstall(f) PROVE Progress'
    <2>1. UNCHANGED <<journal, saved, version, call, holes>>
      BY <1>20 DEF RemoveFromBackup, RemoveFromInstall
    <2>2. backup' = backup \/ call.step \in {"backup", "retake"}
      BY <1>20 DEF RemoveFromBackup, RemoveFromInstall, TakesBackup
    <2> QED BY <2>1, <2>2 DEF Progress
  <1>21. CASE RemoveBackup
    <2>1. UNCHANGED <<journal, saved, version, call, holes>> /\ call.step \in {"backup", "retake"}
      BY <1>21 DEF RemoveBackup, TakesBackup
    <2> QED BY <2>1 DEF Progress
  <1>4. ASSUME NEW f \in Files, CopyToBackup(f) PROVE Progress'
    <2>1. call'.step = call.step /\ call'.to = call.to /\ call'.tries = call.tries
      BY <1>4, CallStep DEF CopyToBackup
    <2>2. backup \in Trees
      BY <1>4 DEF CopyToBackup, TypeOK, Progress
    <2>3. backup' # None
      <3>1. backup' \in Trees
        BY <1>4, <2>2 DEF CopyToBackup, TypeOK, Trees
      <3> QED BY <3>1, TreeFacts
    <2> QED BY <1>4, <2>1, <2>3 DEF CopyToBackup, Progress
  <1>5. CASE MarkBackedUp \/ MarkApplying \/ Commit
    <2>1. journal \in Journals
      BY <1>5 DEF MarkBackedUp, MarkApplying, Commit, TypeOK, Progress
    <2>2. {"BackedUp", "Applying", "Committed"} \subseteq Phases
      BY DEF Phases
    <2>3. CASE MarkBackedUp
      <3>1. call'.step = "backedUp" /\ call'.to = call.to
        BY <2>3, CallStep DEF MarkBackedUp, Steps
      <3>2. journal'.from = journal.from /\ journal'.to = journal.to
            /\ journal'.phase = "BackedUp" /\ journal' # None
        BY <2>1, <2>2, <2>3, PhaseFacts DEF MarkBackedUp
      <3> QED BY <2>3, <3>1, <3>2 DEF MarkBackedUp, Progress
    <2>4. CASE MarkApplying
      <3>1. call'.step = "retake" /\ call'.to = call.to
        BY <2>4, CallStep DEF MarkApplying, Steps
      <3>2. journal'.from = journal.from /\ journal'.to = journal.to
            /\ journal'.phase = "Applying" /\ journal' # None
        BY <2>1, <2>2, <2>4, PhaseFacts DEF MarkApplying
      <3> QED BY <2>4, <3>1, <3>2 DEF MarkApplying, Progress
    <2>5. CASE Commit
      <3>1. call'.step = "settled"
        BY <2>5, CallStep DEF Commit, Steps
      <3>2. journal'.phase = "Committed" /\ journal' # None
        BY <2>1, <2>2, <2>5, PhaseFacts DEF Commit
      <3> QED BY <2>5, <3>1, <3>2 DEF Commit, Progress
    <2> QED BY <1>5, <2>3, <2>4, <2>5
  <1>6. CASE Replace
    <2>1. call'.step = "replacing" /\ call'.to = call.to
      BY <1>6, CallStep, CallFacts DEF Replace, Steps, TypeOK
    <2> QED BY <1>6, <2>1 DEF Replace, Progress
  <1>7. CASE Undo \/ Recover \/ RollOut
    <2>1. backup \in Trees /\ backup # None /\ UNCHANGED <<backup, journal, saved, version, holes>>
      BY <1>7, TreeFacts DEF Undo, Recover, RollOut, Restore, TypeOK
    <2>2. call'.to = call.to /\ call'.tries = call.tries
          /\ \/ At("undo") /\ call'.step = "undoing"
             \/ At("restore") /\ call'.step = "restoring"
             \/ At("roll") /\ call'.step = "rolling"
      BY <1>7, <2>1, CallStep DEF Undo, Recover, RollOut, Restore, Steps
    <2> QED BY <2>1, <2>2 DEF Progress
  <1>8. ASSUME NEW f \in Files, CopyCandidate(f) \/ CopyBack(f) \/ RepairFile(f) PROVE Progress'
    <2>1. call'.step = call.step /\ call'.to = call.to /\ call'.tries = call.tries
      BY <1>8, CallStep DEF CopyCandidate, CopyBack, RepairFile
    <2>2. UNCHANGED <<backup, journal, saved, version, holes>>
      BY <1>8 DEF CopyCandidate, CopyBack, RepairFile
    <2> QED BY <2>1, <2>2 DEF Progress
  <1>9. CASE PersistState
    <2>1. call'.step = "clearing"
      BY <1>9, CallStep DEF PersistState, Steps
    <2> QED BY <1>9, <2>1 DEF PersistState, Progress
  <1>10. CASE Clear \/ Undone \/ UndoWithoutBackup \/ RolledBack \/ Repaired
    <2>1. call'.step = "idle"
      BY <1>10, CallFacts DEF Clear, Undone, UndoWithoutBackup, RolledBack, Repaired
    <2> QED BY <2>1 DEF Progress
  <1>11. CASE Quit \/ Crash \/ RecoverWithoutBackup
    <2>1. call'.step = "down"
      BY <1>11, CallFacts DEF Quit, Crash, RecoverWithoutBackup
    <2> QED BY <2>1 DEF Progress
  <1>12. CASE UndoAgain
    <2>1. call'.step = "undo" /\ call'.to = call.to /\ call'.tries = 1
      BY <1>12, CallStep DEF UndoAgain, RestoreAgain
    <2> QED BY <1>12, <2>1 DEF UndoAgain, Progress
  <1>13. CASE RollBack
    <2>1. backup # None /\ holes' # {}
      BY <1>13 DEF RollBack
    <2>2. call'.step = "roll"
      BY <1>13, CallStep DEF RollBack, Steps
    <2> QED BY <1>13, <2>1, <2>2 DEF RollBack, Progress
  <1>14. ASSUME NEW v \in Versions, Repair(v) PROVE Progress'
    <2>1. call'.step = "repairing"
      BY <1>14 DEF Repair, TypeOK, Calls
    <2>2. UNCHANGED <<backup, journal>>
      BY <1>14 DEF Repair
    <2> QED BY <2>1, <2>2 DEF Progress
  <1>15. CASE Start
    <2>1. CASE journal = None
      <3>1. call'.step = "idle" /\ UNCHANGED <<backup, journal>>
        BY <1>15, <2>1, CallFacts DEF Start
      <3> QED BY <2>1, <3>1 DEF Progress
    <2>2. CASE Unfinished
      <3>1. call'.step = "restore" /\ UNCHANGED <<backup, journal>>
        BY <1>15, <2>2, CallStep DEF Start, Steps
      <3> QED BY <2>2, <3>1 DEF Progress
    <2>3. CASE journal # None /\ ~Unfinished
      <3>1. call'.step = "settled" /\ UNCHANGED <<backup, journal>>
        BY <1>15, <2>3, CallStep DEF Start, Steps
      <3> QED BY <2>3, <3>1 DEF Progress
    <2> QED BY <2>1, <2>2, <2>3
  <1>16. CASE Recovered
    <2>1. call'.step = "settled" /\ UNCHANGED <<backup, journal>>
      BY <1>16, CallStep DEF Recovered, Steps
    <2> QED BY <1>16, <2>1 DEF Recovered, Progress
  <1>17. CASE FailureUndone
    <2>1. call'.step = "undo" /\ call'.to = call.to /\ call'.tries \in {1, 2}
      BY <1>17, CallStep DEF FailureUndone, RestoreAgain
    <2>2. UNCHANGED <<backup, journal, version>> /\ call.step \in Replacing
      BY <1>17 DEF FailureUndone
    <2>3. call'.tries = 2 => backup # None
      <3>1. call \in Calls
        BY DEF TypeOK
      <3>2. RestoreAgain(1) => call'.tries = 1
        BY <3>1 DEF RestoreAgain, Calls
      <3>3. call.step = "replacing" \/ RestoreAgain(1)
        BY <1>17 DEF FailureUndone
      <3>4. call.step = "replacing" => backup # None
        BY DEF Progress
      <3> QED BY <3>2, <3>3, <3>4
    <2> QED BY <2>1, <2>2, <2>3 DEF Progress
  <1>18. CASE FailureReturned
    <2>1. call'.step \in {"down", "idle"}
      BY <1>18, CallFacts DEF FailureReturned
    <2>2. UNCHANGED backup /\ journal' \in {journal, None}
      BY <1>18 DEF FailureReturned
    <2> QED BY <2>1, <2>2 DEF Progress
  <1>19. CASE UNCHANGED vars
    BY <1>19 DEF vars, Progress
  <1> QED
    BY <1>1, <1>2, <1>3, <1>4, <1>5, <1>6, <1>7, <1>8, <1>9, <1>10, <1>11, <1>12, <1>13,
       <1>14, <1>15, <1>16, <1>17, <1>18, <1>19, <1>20, <1>21 DEF Next, Requests, Proceeds
-----------------------------------------------------------------------------
(* A step that leaves the disk and the version alone, and the second       *)
(* backup complete, keeps Disk.                                            *)
LEMMA DiskUnchanged ==
  ASSUME Disk, UNCHANGED disk, ~Unprotected, call.step # "down" => UNCHANGED version,
         call.step = "down" => call'.step = "down"
  PROVE  Disk'
  <1>1. RestartVersion' = RestartVersion /\ (Unfinished <=> Unfinished')
        /\ (Committed <=> Committed')
    BY DEF disk, RestartVersion, Unfinished, Committed
  <1> QED BY <1>1 DEF Disk, disk

LEMMA DataStep ==
  ASSUME IInv, [Next]_vars, TypeOK', Progress', holes' = {}
  PROVE  Disk' /\ Copy'
  <1> USE DEF At, Done, Staging, Replacing, Finishing, Unfinished, Committed
  <1>a. TypeOK /\ Progress
    BY DEF IInv
  <1>b. version \in Versions /\ saved \in Versions
    BY <1>a DEF TypeOK
  <1>c. \A v \in Versions : Release(v) \in Trees /\ Present(Release(v)) = Files
    BY TreeFacts
  <1>d. Files # {}
    BY UpdaterAssumption DEF Files
  <1>e. call \in Calls /\ call.to \in Versions /\ call.candidate \in Trees /\ call.left \subseteq Files
    BY <1>a, CallFacts DEF TypeOK
  <1>f. journal # None => journal \in Journals /\ journal.from \in Versions /\ journal.to \in Versions
                          /\ journal.phase \in Phases
    BY <1>a, JournalFacts DEF TypeOK
  <1>g. RestartVersion \in Versions
    BY <1>b, <1>f DEF RestartVersion
  <1>1. ASSUME NEW v \in Versions, NEW delta \in BOOLEAN, Begin(v, delta) PROVE Disk' /\ Copy'
    <2>1. UNCHANGED <<disk, version, holes>> /\ At("idle")
      BY <1>1 DEF Begin
    <2>2. Disk
      BY <2>1 DEF IInv
    <2> DEFINE delta_ == [f \in Files |-> IF f \in Hot THEN v ELSE install[f]]
    <2>3. delta_ \in Trees
      BY <1>a DEF Trees, TypeOK
    <2>4. PICK t \in {delta_, Release(v)} :
            call' = [call EXCEPT !.op = "apply", !.step = "staged", !.to = v, !.candidate = t]
      BY <1>1 DEF Begin
    <2>5. call'.step = "staged" /\ call'.to = v /\ call'.candidate = t
      BY <2>4, <1>e DEF Calls
    <2>6. Disk'
      BY <2>1, <2>2, <2>5, DiskUnchanged DEF Unprotected
    <2>7. ASSUME ~JournalNeeded PROVE delta_ = Release(v)
      <3>1. PICK w \in Versions : install = Release(w)
        BY <2>2, <2>7, <1>f, <1>g DEF Disk, JournalNeeded
      <3>2. \A f \in Files : install[f] = IF f \in Hot THEN w ELSE 0
        BY <3>1 DEF Release
      <3> QED BY <3>2 DEF Release
    <2>8. JournalNeeded' <=> JournalNeeded
      BY <2>1 DEF JournalNeeded, disk
    <2> QED BY <2>4, <2>5, <2>6, <2>7, <2>8 DEF Copy
  <1>2. CASE WriteStaged
    <2>1. ~JournalNeeded /\ holes = {} /\ UNCHANGED <<install, backup, saved, version>>
      BY <1>2 DEF WriteStaged
    <2>2. Disk /\ Copy /\ call.step = "staged"
      BY <1>2, <2>1 DEF IInv, WriteStaged
    <2>3. call'.step = "backup" /\ call'.to = call.to /\ call'.candidate = call.candidate
      BY <1>2, <1>a, CallStep DEF WriteStaged, Steps
    <2>4. journal' # None /\ journal'.phase = "Staged" /\ journal'.from = version
      BY <1>2, <1>b, <1>e, JournalFacts DEF WriteStaged
    <2>5. install = Release(version) /\ saved = version
      BY <2>1, <2>2, <1>f DEF Disk, JournalNeeded, RestartVersion, Phases
    <2>6. RestartVersion' = saved
      BY <2>1, <2>4 DEF RestartVersion
    <2>7. Disk'
      BY <2>1, <2>4, <2>5, <2>6 DEF Disk
    <2>8. Copy'
      BY <2>1, <2>2, <2>3, <2>5 DEF Copy
    <2> QED BY <2>7, <2>8
  <1>3. CASE Backup
    <2>1. holes = {} /\ UNCHANGED <<install, journal, saved, version>> /\ At("backup")
      BY <1>3 DEF Backup
    <2>2. Disk /\ Copy /\ journal # None /\ journal.phase = "Staged"
      BY <2>1, <1>a DEF IInv, Progress
    <2>3. install \in Trees /\ Present(install) = Files
      BY <2>1, <2>2, <1>a, <1>b, <1>c DEF Copy, TypeOK
    <2>4. call'.step = "backingUp" /\ call'.left = Files /\ call'.candidate = call.candidate
          /\ call'.to = call.to
      BY <1>3, <1>a, <2>3, CallStep DEF Backup, Steps
    <2>5. RestartVersion' = RestartVersion
      BY <2>1 DEF RestartVersion
    <2>6. Disk'
      BY <2>1, <2>2, <2>4, <2>5 DEF Disk
    <2>7. Copy'
      BY <2>1, <2>2, <2>4 DEF Copy
    <2> QED BY <2>6, <2>7
  <1>26. CASE RemoveBackup \/ \E f \in Files : RemoveFromBackup(f)
    <2>1. holes = {} /\ UNCHANGED <<install, journal, saved, version, call>>
          /\ call.step \in {"backup", "retake"}
      BY <1>26 DEF RemoveBackup, RemoveFromBackup, TakesBackup
    <2>2. Disk /\ Copy
      BY <2>1 DEF IInv
    <2>3. RestartVersion' = RestartVersion
      BY <2>1 DEF RestartVersion
    <2>4. call.step = "backup" => ~Unfinished
      BY <1>a DEF Progress
    <2>5. call.step = "retake" => install = Release(journal.from)
      BY <1>a, <2>2 DEF Progress, Copy
    <2>6. Disk'
      BY <2>1, <2>2, <2>3, <2>4, <2>5 DEF Disk, Unprotected
    <2>7. Copy'
      BY <2>1, <2>2 DEF Copy
    <2> QED BY <2>6, <2>7
  <1>27. ASSUME NEW f \in Files, RemoveFromInstall(f) PROVE Disk' /\ Copy'
    <2>1. holes = {} /\ UNCHANGED <<backup, journal, saved, version, call>>
          /\ (Done("retaking") \/ call.step \in {"undo", "restore", "roll"})
      BY <1>27 DEF RemoveFromInstall
    <2>2. Disk /\ Copy /\ Unfinished
      BY <2>1, <1>a DEF IInv, Progress
    <2>3. RestartVersion' = RestartVersion
      BY <2>1 DEF RestartVersion
    <2>4. ~Unprotected
      BY <2>1 DEF Unprotected
    <2>5. Disk'
      BY <2>1, <2>2, <2>3, <2>4 DEF Disk
    <2>6. Copy'
      BY <2>1, <2>2 DEF Copy
    <2> QED BY <2>5, <2>6
  <1>4. ASSUME NEW f \in Files, CopyToBackup(f) PROVE Disk' /\ Copy'
    <2>1. holes = {} /\ UNCHANGED <<install, journal, saved, version>>
          /\ call.step \in {"backingUp", "retaking"}
      BY <1>4 DEF CopyToBackup
    <2>2. Disk /\ Copy /\ journal # None /\ backup \in Trees /\ install \in Trees
          /\ install = Release(version) /\ f \in call.left
      BY <1>4, <2>1, <1>a DEF IInv, Progress, TypeOK, CopyToBackup, Copy
    <2>3. call'.step = call.step /\ call'.left = call.left \ {f} /\ call'.candidate = call.candidate
          /\ call'.to = call.to
      BY <1>4, <1>a, CallStep DEF CopyToBackup
    <2>4. RestartVersion' = RestartVersion
      BY <2>1 DEF RestartVersion
    <2>5. backup' \in Trees /\ \A g \in Files \ call'.left : backup'[g] = Release(version)[g]
      <3>1. backup' = [backup EXCEPT ![f] = install[f]]
        BY <1>4 DEF CopyToBackup
      <3>2. backup' \in Trees
        BY <3>1, <2>2 DEF Trees
      <3>3. ASSUME NEW g \in Files \ call'.left PROVE backup'[g] = Release(version)[g]
        BY <3>1, <2>1, <2>2, <2>3 DEF Copy, Trees
      <3> QED BY <3>2, <3>3
    <2>6. ASSUME ~Unprotected', At("retaking") PROVE backup' = Release(journal.from)
      <3>1. \A g \in Files : backup'[g] = Release(version)[g]
        BY <2>3, <2>5, <2>6 DEF Unprotected
      <3>2. backup' = Release(version)
        BY <3>1, <2>5, <1>b, <1>c, SameTree
      <3> QED BY <3>2, <2>6, <1>a DEF Progress
    <2>7. Disk'
      BY <2>1, <2>2, <2>3, <2>4, <2>6, <1>a DEF Disk, Progress
    <2>8. Copy'
      BY <2>1, <2>2, <2>3, <2>5 DEF Copy
    <2> QED BY <2>7, <2>8
  <1>5. CASE MarkBackedUp
    <2>1. holes = {} /\ UNCHANGED <<install, backup, saved, version>> /\ Done("backingUp")
      BY <1>5 DEF MarkBackedUp
    <2>2. Disk /\ Copy /\ journal \in Journals /\ journal.from = version /\ journal.phase = "Staged"
          /\ journal # None /\ backup \in Trees /\ install \in Trees
      BY <2>1, <1>a DEF IInv, Progress, TypeOK
    <2>3. call'.step = "backedUp" /\ call'.candidate = call.candidate /\ call'.to = call.to
      BY <1>5, <1>a, CallStep DEF MarkBackedUp, Steps
    <2>4. journal' # None /\ journal'.from = version /\ journal'.phase = "BackedUp"
      BY <1>5, <2>2, PhaseFacts DEF MarkBackedUp, Phases
    <2>5. backup = install /\ install = Release(version)
      <3>1. install = Release(version) /\ \A f \in Files : backup[f] = Release(version)[f]
        BY <2>1, <2>2 DEF Copy
      <3> QED BY <3>1, <2>2, <1>b, <1>c, SameTree
    <2>6. RestartVersion' = version /\ RestartVersion = version /\ saved = version
      BY <2>1, <2>2, <2>4 DEF RestartVersion, Disk
    <2>7. Disk'
      BY <2>1, <2>2, <2>4, <2>5, <2>6 DEF Disk
    <2>8. Copy'
      BY <2>1, <2>2, <2>3, <2>5 DEF Copy
    <2> QED BY <2>7, <2>8
  <1>6. CASE MarkApplying
    <2>1. holes = {} /\ UNCHANGED <<install, backup, saved, version>> /\ At("backedUp")
      BY <1>6 DEF MarkApplying
    <2>2. Disk /\ Copy /\ journal \in Journals /\ journal.from = version
          /\ journal.phase = "BackedUp" /\ journal # None /\ ~Unprotected
          /\ install = Release(version)
      BY <2>1, <1>a DEF IInv, Progress, TypeOK, Unprotected, Copy
    <2>3. call'.step = "retake" /\ call'.candidate = call.candidate /\ call'.to = call.to
      BY <1>6, <1>a, CallStep DEF MarkApplying, Steps
    <2>4. journal' # None /\ journal'.from = version /\ journal'.phase = "Applying"
      BY <1>6, <2>2, PhaseFacts DEF MarkApplying, Phases
    <2>5. RestartVersion' = version /\ RestartVersion = version
      BY <2>1, <2>2, <2>4 DEF RestartVersion
    <2>6. Disk'
      BY <2>1, <2>2, <2>4, <2>5 DEF Disk
    <2>7. Copy'
      BY <2>1, <2>2, <2>3 DEF Copy
    <2> QED BY <2>6, <2>7
  <1>7. CASE Retake
    <2>1. holes = {} /\ UNCHANGED <<install, journal, saved, version>> /\ At("retake")
      BY <1>7 DEF Retake
    <2>2. Disk /\ Copy /\ journal # None /\ journal.phase = "Applying"
      BY <2>1, <1>a DEF IInv, Progress
    <2>3. install \in Trees /\ Present(install) = Files
      BY <2>1, <2>2, <1>b, <1>c DEF Copy
    <2>4. call'.step = "retaking" /\ call'.left = Files /\ call'.candidate = call.candidate
          /\ call'.to = call.to
      BY <1>7, <1>a, <2>3, CallStep DEF Retake, Steps
    <2>5. RestartVersion' = RestartVersion /\ Unprotected'
      BY <2>1, <2>4, <1>d DEF RestartVersion, Unprotected
    <2>6. Disk'
      BY <2>1, <2>2, <2>4, <2>5 DEF Disk
    <2>7. Copy'
      BY <2>1, <2>2, <2>4 DEF Copy
    <2> QED BY <2>6, <2>7
  <1>8. CASE Replace
    <2>1. holes = {} /\ UNCHANGED <<install, backup, journal, saved, version>> /\ Done("retaking")
      BY <1>8 DEF Replace, disk
    <2>2. Disk /\ Copy /\ journal # None /\ journal.phase = "Applying" /\ ~Unprotected
      BY <2>1, <1>a DEF IInv, Progress, Unprotected
    <2>3. call.candidate = Release(call.to) /\ Present(call.candidate) = Files
      BY <2>1, <2>2, <1>c, <1>e DEF Copy
    <2>4. call'.step = "replacing" /\ call'.left = Files /\ call'.candidate = call.candidate
          /\ call'.to = call.to
      BY <1>8, <1>a, <1>e, <2>3, CallStep DEF Replace, Steps
    <2>5. RestartVersion' = RestartVersion
      BY <2>1 DEF RestartVersion
    <2>6. Disk'
      BY <2>1, <2>2, <2>4, <2>5 DEF Disk
    <2>7. Copy'
      BY <2>1, <2>3, <2>4 DEF Copy
    <2> QED BY <2>6, <2>7
  <1>9. ASSUME NEW f \in Files, CopyCandidate(f) PROVE Disk' /\ Copy'
    <2>1. holes = {} /\ UNCHANGED <<backup, journal, saved, version>> /\ At("replacing")
          /\ install' = [install EXCEPT ![f] = call.candidate[f]]
      BY <1>9 DEF CopyCandidate
    <2>2. Disk /\ Copy /\ journal # None /\ journal.phase = "Applying" /\ ~Unprotected
          /\ install \in Trees
      BY <2>1, <1>a DEF IInv, Progress, Unprotected, TypeOK
    <2>3. call'.step = call.step /\ call'.left = call.left \ {f}
          /\ call'.candidate = call.candidate /\ call'.to = call.to
      BY <1>9, <1>a, CallStep DEF CopyCandidate
    <2>4. RestartVersion' = RestartVersion
      BY <2>1 DEF RestartVersion
    <2>5. \A g \in Files \ call'.left : install'[g] = call.candidate[g]
      BY <2>1, <2>2, <2>3 DEF Copy, Trees
    <2>6. Disk'
      BY <2>1, <2>2, <2>3, <2>4 DEF Disk
    <2>7. Copy'
      BY <2>1, <2>2, <2>3, <2>5 DEF Copy
    <2> QED BY <2>6, <2>7
  <1>10. CASE Commit
    <2>1. holes = {} /\ UNCHANGED <<install, backup, saved>> /\ Done("replacing")
          /\ version' = call.to
      BY <1>10 DEF Commit
    <2>2. Copy /\ journal \in Journals /\ journal.to = call.to /\ install \in Trees
      BY <2>1, <1>a DEF IInv, Progress, TypeOK
    <2>3. call'.step = "settled"
      BY <1>10, <1>a, CallStep DEF Commit, Steps
    <2>4. journal' # None /\ journal'.to = call.to /\ journal'.phase = "Committed"
      BY <1>10, <2>2, PhaseFacts DEF Commit, Phases
    <2>5. install = Release(call.to)
      <3>1. \A f \in Files : install[f] = Release(call.to)[f]
        BY <2>1, <2>2 DEF Copy
      <3> QED BY <3>1, <2>2, <1>c, <1>e, SameTree
    <2>6. RestartVersion' = call.to
      BY <2>4 DEF RestartVersion
    <2>7. Disk'
      BY <2>1, <2>4, <2>5, <2>6 DEF Disk
    <2>8. Copy'
      BY <2>1, <2>3, <2>5 DEF Copy
    <2> QED BY <2>7, <2>8
  <1>11. CASE PersistState
    <2>1. holes = {} /\ UNCHANGED <<install, backup, journal, version>> /\ At("settled")
          /\ saved' = version
      BY <1>11 DEF PersistState
    <2>2. Disk /\ Copy /\ ~Unprotected
      BY <2>1 DEF IInv, Unprotected
    <2>3. call'.step = "clearing"
      BY <1>11, <1>a, CallStep DEF PersistState, Steps
    <2>4. RestartVersion' = RestartVersion
      BY <2>1, <2>2 DEF RestartVersion, Disk
    <2>5. Disk'
      BY <2>1, <2>2, <2>3, <2>4 DEF Disk
    <2>6. Copy'
      BY <2>1, <2>2, <2>3 DEF Copy
    <2> QED BY <2>5, <2>6
  <1>12. CASE Clear
    <2>1. holes = {} /\ UNCHANGED <<install, backup, saved, version>> /\ At("clearing")
          /\ journal' = None
      BY <1>12 DEF Clear
    <2>2. Copy /\ saved = version
      BY <2>1, <1>a DEF IInv, Progress
    <2>3. call'.step = "idle"
      BY <1>12, CallFacts DEF Clear
    <2>4. RestartVersion' = version /\ install = Release(version)
      BY <2>1, <2>2 DEF RestartVersion, Copy
    <2>5. Disk'
      BY <2>1, <2>2, <2>4 DEF Disk
    <2>6. Copy'
      BY <2>3 DEF Copy
    <2> QED BY <2>5, <2>6
  <1>13. CASE Undo \/ Recover
    <2>1. holes = {} /\ UNCHANGED <<backup, journal, saved, version>>
          /\ call.step \in {"undo", "restore"} /\ UNCHANGED install
      BY <1>13 DEF Undo, Recover, Restore, disk
    <2>2. Disk /\ Unfinished /\ ~Unprotected
      BY <2>1, <1>a DEF IInv, Progress, Unprotected
    <2>3. backup \in Trees /\ Present(backup) = Files
      BY <2>2, <1>c, <1>f DEF Disk
    <2>4. call'.step \in {"undoing", "restoring"} /\ call'.left = Files
      BY <1>13, <1>a, <2>3, CallStep DEF Undo, Recover, Restore, Steps
    <2>5. RestartVersion' = RestartVersion
      BY <2>1 DEF RestartVersion
    <2>6. Disk'
      BY <2>1, <2>2, <2>4, <2>5 DEF Disk
    <2>7. Copy'
      BY <2>4 DEF Copy
    <2> QED BY <2>6, <2>7
  <1>14. ASSUME NEW f \in Files, CopyBack(f) PROVE Disk' /\ Copy'
    <2>1. holes = {} /\ UNCHANGED <<backup, journal, saved, version>>
          /\ call.step \in {"undoing", "restoring"}
          /\ install' = [install EXCEPT ![f] = backup[f]]
      BY <1>14, <1>a DEF CopyBack, Restoring, Progress
    <2>2. Disk /\ Copy /\ Unfinished /\ ~Unprotected /\ install \in Trees
      BY <2>1, <1>a DEF IInv, Progress, Unprotected, TypeOK
    <2>3. call'.step = call.step /\ call'.left = call.left \ {f}
      BY <1>14, <1>a, CallStep DEF CopyBack
    <2>4. RestartVersion' = RestartVersion
      BY <2>1 DEF RestartVersion
    <2>5. \A g \in Files \ call'.left : install'[g] = backup[g]
      BY <2>1, <2>2, <2>3 DEF Copy, Trees
    <2>6. Disk'
      BY <2>1, <2>2, <2>3, <2>4 DEF Disk
    <2>7. Copy'
      BY <2>1, <2>3, <2>5 DEF Copy
    <2> QED BY <2>6, <2>7
  <1>15. CASE UndoAgain
    <2>1. holes = {} /\ UNCHANGED <<disk, version>> /\ At("undoing")
      BY <1>15 DEF UndoAgain
    <2>2. call'.step = "undo"
      BY <1>15, <1>a, CallStep DEF UndoAgain, RestoreAgain
    <2>3. Disk'
      BY <2>1, <2>2, DiskUnchanged DEF IInv, Unprotected
    <2> QED BY <2>2, <2>3 DEF Copy
  <1>16. CASE Undone \/ Repaired
    <2>1. holes = {} /\ UNCHANGED <<install, backup, journal, version>> /\ saved' = version
          /\ call.step \in {"undoing", "repairing"}
      BY <1>16 DEF Undone, Repaired
    <2>2. Disk /\ ~Unprotected
      BY <2>1 DEF IInv, Unprotected
    <2>3. call'.step = "idle"
      BY <1>16, CallFacts DEF Undone, Repaired
    <2>4. RestartVersion' = RestartVersion
      BY <2>1, <2>2 DEF RestartVersion, Disk
    <2>5. Disk'
      BY <2>1, <2>2, <2>3, <2>4 DEF Disk
    <2> QED BY <2>3, <2>5 DEF Copy
  <1>17. CASE RollBack
    BY <1>17 DEF RollBack
  <1>18. CASE RollOut \/ RolledBack
    BY <1>18, <1>a DEF RollOut, Restore, RolledBack, Progress
  <1>28. CASE UndoWithoutBackup \/ RecoverWithoutBackup
    <2>1. holes = {} /\ backup = None /\ Unfinished /\ ~Unprotected
      BY <1>28, <1>a DEF UndoWithoutBackup, RecoverWithoutBackup, Progress, Unprotected
    <2>2. backup = Release(journal.from)
      BY <2>1 DEF IInv, Disk
    <2> QED BY <2>1, <2>2, <1>c, <1>f, TreeFacts
  <1>19. ASSUME NEW v \in Versions, Repair(v) PROVE Disk' /\ Copy'
    <2>1. holes = {} /\ UNCHANGED <<disk, version>> /\ At("idle") /\ v = version
      BY <1>19 DEF Repair
    <2>2. call'.step = "repairing" /\ call'.to = v
      BY <1>19, <1>e DEF Repair, Calls
    <2>3. Disk'
      BY <2>1, <2>2, DiskUnchanged DEF IInv, Unprotected
    <2> QED BY <2>1, <2>2, <2>3 DEF Copy
  <1>20. ASSUME NEW f \in Files, RepairFile(f) PROVE Disk' /\ Copy'
    <2>1. holes = {} /\ UNCHANGED <<backup, journal, saved, version>> /\ At("repairing")
          /\ install' = [install EXCEPT ![f] = Release(call.to)[f]]
      BY <1>20 DEF RepairFile
    <2>2. Disk /\ Copy /\ ~Unprotected /\ install \in Trees /\ call.to = version
          /\ version = RestartVersion
      BY <2>1, <1>a DEF IInv, Unprotected, TypeOK, Disk, Copy
    <2>3. call'.step = call.step /\ call'.to = call.to
      BY <1>20, <1>a, CallStep DEF RepairFile
    <2>4. RestartVersion' = RestartVersion
      BY <2>1 DEF RestartVersion
    <2>5. install = Release(version) => install' = install
      BY <2>1, <2>2 DEF Trees
    <2>6. Disk'
      BY <2>1, <2>2, <2>3, <2>4, <2>5 DEF Disk
    <2>7. Copy'
      BY <2>1, <2>2, <2>3 DEF Copy
    <2> QED BY <2>6, <2>7
  <1>21. CASE Start
    <2>1. holes = {} /\ UNCHANGED disk /\ At("down")
      BY <1>21 DEF Start
    <2>2. Disk /\ ~Unprotected
      BY <2>1 DEF IInv, Unprotected
    <2>3. RestartVersion' = RestartVersion
      BY <2>1 DEF RestartVersion, disk
    <2>4. version' = RestartVersion
      BY <1>21, <2>2, <1>f DEF Start, Disk, RestartVersion
    <2>5. call'.step \in {"idle", "restore", "settled"}
          /\ (call'.step = "settled" => ~Unfinished)
      BY <1>21, <1>a, CallStep, CallFacts DEF Start, Steps
    <2>6. Disk'
      BY <2>1, <2>2, <2>3, <2>4 DEF Disk, disk
    <2>7. Copy'
      BY <2>1, <2>2, <2>4, <2>5 DEF Copy, Disk, disk
    <2> QED BY <2>6, <2>7
  <1>22. CASE Recovered
    <2>1. holes = {} /\ UNCHANGED disk /\ Done("restoring") /\ version' = journal.from
      BY <1>22 DEF Recovered
    <2>2. Disk /\ Copy /\ ~Unprotected /\ Unfinished /\ install \in Trees
      BY <2>1, <1>a DEF IInv, Unprotected, Progress, TypeOK
    <2>3. RestartVersion' = RestartVersion /\ RestartVersion = journal.from
      BY <2>1, <2>2 DEF RestartVersion, disk
    <2>4. call'.step = "settled"
      BY <1>22, <1>a, CallStep DEF Recovered, Steps
    <2>5. install = Release(journal.from)
      <3>1. backup = Release(journal.from) /\ backup \in Trees
        BY <2>2, <1>c, <1>f DEF Disk
      <3>2. \A f \in Files : install[f] = backup[f]
        BY <2>1, <2>2 DEF Copy
      <3> QED BY <3>1, <3>2, <2>2, SameTree
    <2>6. Disk'
      BY <2>1, <2>2, <2>3 DEF Disk, disk
    <2>7. Copy'
      BY <2>1, <2>4, <2>5 DEF Copy, disk
    <2> QED BY <2>6, <2>7
  <1>23. CASE Quit \/ Crash \/ FailureUndone
    <2>1. holes = {} /\ ~Unprotected /\ UNCHANGED <<disk, version>>
      BY <1>23 DEF Quit, Crash, FailureUndone, Interrupted, Unprotected
    <2>2. call'.step = "down" \/ (call'.step = "undo" /\ call.step # "down")
      BY <1>23, <1>a, CallStep, CallFacts DEF Quit, Crash, FailureUndone
    <2>3. Disk'
      BY <2>1, <2>2, DiskUnchanged DEF IInv
    <2> QED BY <2>2, <2>3 DEF Copy
  <1>24. CASE FailureReturned
    <2>1. holes = {} /\ ~Unprotected /\ UNCHANGED <<install, backup, version>>
          /\ call.step # "down"
      BY <1>24 DEF FailureReturned, Interrupted, LastUndo
    <2>2. Disk /\ Copy
      BY <2>1 DEF IInv
    <2>3. call'.step \in {"down", "idle"}
      BY <1>24, CallFacts DEF FailureReturned
    <2>4. RestartVersion = version /\ (saved' = saved \/ (saved' = version /\ ~Committed))
          /\ (journal' = journal \/ (journal' = None /\ At("clearing")))
      BY <1>24, <1>a, <2>1, <2>2 DEF FailureReturned, LastUndo, Disk, Progress
    <2>5. ~Committed => saved' = saved
      BY <2>2, <2>4 DEF Disk
    <2>6. saved' = saved
      BY <2>4, <2>5
    <2>7. CASE journal' = journal
      <3>1. RestartVersion' = RestartVersion
        BY <2>6, <2>7 DEF RestartVersion
      <3> QED BY <2>1, <2>2, <2>3, <2>6, <2>7, <3>1 DEF Disk, Copy
    <2>8. CASE journal' = None /\ At("clearing")
      <3>1. saved = version /\ install = Release(version)
        BY <2>2, <2>8, <1>a DEF Progress, Copy
      <3>2. RestartVersion' = version
        BY <2>6, <2>8, <3>1 DEF RestartVersion
      <3> QED BY <2>1, <2>3, <2>6, <2>8, <3>1, <3>2 DEF Disk, Copy
    <2> QED BY <2>4, <2>7, <2>8
  <1>25. CASE UNCHANGED vars
    <2>1. UNCHANGED <<disk, version, call, holes>>
      BY <1>25 DEF vars
    <2>2. Disk /\ Copy
      BY <2>1 DEF IInv
    <2>3. RestartVersion' = RestartVersion /\ (Unprotected' <=> Unprotected)
          /\ (JournalNeeded' <=> JournalNeeded)
      BY <2>1 DEF disk, RestartVersion, Unprotected, JournalNeeded
    <2> QED BY <2>1, <2>2, <2>3 DEF Disk, Copy, disk
  <1> QED
    BY <1>1, <1>2, <1>3, <1>4, <1>5, <1>6, <1>7, <1>8, <1>9, <1>10, <1>11, <1>12, <1>13,
       <1>14, <1>15, <1>16, <1>17, <1>18, <1>19, <1>20, <1>21, <1>22, <1>23, <1>24, <1>25,
       <1>26, <1>27, <1>28
       DEF Next, Requests, Proceeds
-----------------------------------------------------------------------------
LEMMA HolesGrow == ASSUME TypeOK, [Next]_vars PROVE holes \subseteq holes'
  BY DEF Next, Requests, Proceeds, vars, disk, Begin, WriteStaged, Backup, CopyToBackup,
     RemoveFromBackup, RemoveBackup, MarkBackedUp, MarkApplying, Retake, RemoveFromInstall,
     Replace, CopyCandidate, Commit, PersistState, Clear, Undo, Recover, RollOut, Restore,
     UndoWithoutBackup, RecoverWithoutBackup, CopyBack, UndoAgain, Undone, RollBack, RolledBack,
     Repair,
     RepairFile, Repaired, Start, Recovered, Crash, Quit, FailureUndone, FailureReturned,
     Interrupted

LEMMA InvStep == IInv /\ [Next]_vars => IInv'
  <1> SUFFICES ASSUME IInv, [Next]_vars PROVE IInv'
    OBVIOUS
  <1>1. TypeOK /\ Progress
    BY DEF IInv
  <1>2. TypeOK'
    BY <1>1, TypeStep
  <1>3. Progress'
    BY <1>1, <1>2, ProgressStep
  <1>4. holes' = {} => Disk' /\ Copy'
    BY <1>2, <1>3, DataStep
  <1> QED BY <1>2, <1>3, <1>4 DEF IInv

LEMMA Invariance == Spec => []IInv
  BY InitInv, InvStep, PTL DEF Spec

(* Every variable has its type, and a journal records an upgrade           *)
(* (check_update refuses a downgrade).                                     *)
THEOREM TypeCorrect == Spec => []TypeOK
  <1>1. IInv => TypeOK
    BY DEF IInv
  <1> QED BY Invariance, <1>1, PTL

LEMMA InvRestart == IInv => RestartIsSound
  <1> SUFFICES ASSUME IInv, holes = {}, ~Unprotected
               PROVE  RestartTree = Release(RestartVersion)
    BY DEF RestartIsSound, Exposed
  <1>1. Disk
    BY DEF IInv
  <1>2. CASE Unfinished
    BY <1>1, <1>2 DEF Disk, Unfinished, RestartTree, RestartVersion
  <1>3. CASE ~Unfinished
    BY <1>1, <1>3 DEF Disk, Unfinished, RestartTree
  <1> QED BY <1>2, <1>3

(* Whatever crashes or fails, outside the four windows a restart ends with *)
(* one complete release (apply_update, recover_interrupted_update).        *)
THEOREM RestartSound == Spec => []RestartIsSound
  BY Invariance, InvRestart, PTL

(* Outside the windows an idle updater knows the installed version         *)
(* (current_version, which check_update compares with).                    *)
THEOREM VersionIsKnown == Spec => []VersionKnown
  <1>1. IInv => VersionKnown
    BY DEF IInv, Disk, VersionKnown, At
  <1> QED BY Invariance, <1>1, PTL
-----------------------------------------------------------------------------
(* The version a restart finds moves at Commit only, and up.               *)
LEMMA VersionStep ==
  ASSUME IInv, [Next]_vars, IInv', holes' = {}
  PROVE  /\ RestartVersion' = RestartVersion \/ RestartVersion' > RestartVersion
         /\ Unprotected => RestartVersion' = RestartVersion
  <1> USE DEF At, Done, disk
  <1>a. TypeOK /\ Progress /\ Disk /\ TypeOK' /\ Disk'
    BY HolesGrow DEF IInv
  <1>1. CASE UNCHANGED <<journal, saved>>
    BY <1>1 DEF RestartVersion
  <1>2. CASE UNCHANGED version /\ call.step # "down" /\ call'.step # "down"
    BY <1>2, <1>a DEF Disk
  <1>3. CASE WriteStaged \/ MarkBackedUp \/ MarkApplying \/ PersistState
    <2>1. call' = [call EXCEPT !.step = call'.step] /\ call'.step # "down"
      BY <1>3, <1>a, CallStep DEF WriteStaged, MarkBackedUp, MarkApplying, PersistState, Steps, Goto
    <2> QED BY <1>2, <1>3, <2>1 DEF WriteStaged, MarkBackedUp, MarkApplying, PersistState
  <1>4. CASE Commit
    <2>1. journal # None /\ journal.from = version /\ journal.to = call.to /\ version' = call.to
          /\ call.step = "replacing"
      BY <1>4, <1>a DEF Commit, Progress, Replacing
    <2>2. call'.step = "settled"
      BY <1>4, <1>a, CallStep DEF Commit, Steps
    <2>3. RestartVersion = version /\ RestartVersion' = version'
      BY <1>a, <2>1, <2>2 DEF Disk
    <2>4. version' > version
      BY <1>a, <2>1 DEF TypeOK, Versions
    <2> QED BY <2>1, <2>3, <2>4 DEF Unprotected
  <1>5. CASE Clear \/ Undone \/ UndoWithoutBackup \/ RolledBack \/ Repaired
    <2>1. call'.step = "idle"
      BY <1>5, CallFacts DEF Clear, Undone, UndoWithoutBackup, RolledBack, Repaired
    <2> QED BY <1>2, <1>5, <2>1 DEF Clear, Undone, UndoWithoutBackup, RolledBack, Repaired
  <1>6. CASE FailureReturned
    <2>1. UNCHANGED version /\ call.step # "down" /\ RestartVersion = version
      BY <1>6, <1>a DEF FailureReturned, LastUndo, Disk
    <2>2. CASE At("clearing")
      <3>1. saved = version /\ saved' = saved /\ journal' \in {journal, None}
        BY <1>6, <2>2, <1>a DEF FailureReturned, LastUndo, Progress
      <3> QED BY <2>1, <3>1 DEF RestartVersion
    <2>3. CASE LastUndo
      <3>1. journal' = journal /\ journal # None /\ journal.phase = "Applying"
        BY <1>6, <2>3, <1>a DEF FailureReturned, LastUndo, Progress, Replacing
      <3> QED BY <3>1 DEF RestartVersion
    <2>4. CASE ~At("clearing") /\ ~LastUndo
      BY <1>1, <1>6, <2>4 DEF FailureReturned
    <2> QED BY <2>2, <2>3, <2>4
  <1> QED
    BY <1>1, <1>3, <1>4, <1>5, <1>6
       DEF Next, Requests, Proceeds, vars, Begin, RemoveFromBackup, RemoveBackup, Backup,
           CopyToBackup, Retake, RemoveFromInstall, Replace, CopyCandidate, Undo, Recover,
           RollOut, Restore, RecoverWithoutBackup, CopyBack, UndoAgain, RollBack, Repair,
           RepairFile, Start, Recovered, Crash, Quit, FailureUndone

LEMMA DurableStep ==
  IInv /\ [Next]_vars /\ IInv'
  => [Durable!Next]_<<RestartVersion, RestartTree, Exposed>>
  <1> SUFFICES ASSUME IInv, [Next]_vars, IInv'
               PROVE  [Durable!Next]_<<RestartVersion, RestartTree, Exposed>>
    OBVIOUS
  <1>1. RestartIsSound /\ RestartIsSound'
    <2>1. RestartIsSound
      BY InvRestart
    <2>2. RestartIsSound'
      BY InvRestart, PTL
    <2> QED BY <2>1, <2>2
  <1>2. CASE Exposed'
    <2>1. Exposed' = TRUE
      BY <1>2 DEF Exposed
    <2> QED BY <2>1 DEF Durable!Next, Durable!Expose
  <1>3. CASE ~Exposed'
    <2>1. holes' = {} /\ holes = {}
      BY <1>3, HolesGrow DEF Exposed, IInv
    <2>2. RestartTree' = Release(RestartVersion')
      BY <1>1, <1>3 DEF RestartIsSound
    <2>3. Exposed' = FALSE
      BY <1>3 DEF Exposed
    <2>4. CASE Exposed
      <3>1. RestartVersion' = RestartVersion
        BY <2>1, <2>4, VersionStep DEF Exposed
      <3> QED BY <2>2, <2>3, <2>4, <3>1 DEF Durable!Next, Durable!Cover
    <2>5. CASE ~Exposed
      <3>1. RestartTree = Release(RestartVersion)
        BY <1>1, <2>5 DEF RestartIsSound
      <3>2. Exposed = FALSE
        BY <2>5 DEF Exposed
      <3>3. CASE RestartVersion' = RestartVersion
        BY <2>2, <2>3, <3>1, <3>2, <3>3
      <3>4. CASE RestartVersion' > RestartVersion
        <4>1. RestartVersion' \in Versions
          BY JournalFacts DEF IInv, TypeOK, RestartVersion
        <4> QED BY <2>2, <2>3, <2>5, <3>4, <4>1 DEF Durable!Next, Durable!Update
      <3> QED BY <2>1, <3>3, <3>4, VersionStep
    <2> QED BY <2>4, <2>5
  <1> QED BY <1>2, <1>3

(* The updater implements the durable installation: outside the windows an *)
(* update happens at one instant and no restart finds an older version.    *)
THEOREM Refinement == Spec => IsDurable
  <1>1. Init => Durable!Init
    <2> SUFFICES ASSUME Init PROVE Durable!Init
      OBVIOUS
    <2>1. RestartVersion = version /\ RestartTree = install /\ version \in Versions
          /\ install = Release(version)
      BY DEF Init, RestartVersion, RestartTree
    <2>2. Exposed = FALSE
      BY CallFacts DEF Init, Exposed, Unprotected, At
    <2> QED BY <2>1, <2>2 DEF Durable!Init
  <1> QED BY <1>1, DurableStep, Invariance, PTL DEF Spec, IsDurable, Durable!Spec
-----------------------------------------------------------------------------
(* The profile.  What a completed save has written is either the profile   *)
(* itself or, while it is being replaced or after the last rename failed,  *)
(* its backup.                                                             *)
IsProfile(p) ==
  /\ DOMAIN p = {"running", "edit", "flat", "tree"}
  /\ p.running = TRUE /\ p.edit \in Nat

IsFile(f) == f = Profile!Absent \/ f = Profile!Torn \/ IsProfile(f)

ProfileTyped ==
  /\ live = Profile!Off \/ IsProfile(live)
  /\ IsFile(main) /\ IsFile(spare)
  /\ step \in {"idle", "create", "write", "drop", "aside", "install"}
  /\ edits \in Nat /\ committed \in Nat /\ previous \in Nat
  /\ crashes \in Nat /\ failures \in Nat /\ damages \in Nat

(* What the step of a save says of the files it works on.                  *)
SaveUnderWay ==
  /\ live = Profile!Off => step = "idle"
  /\ step \in {"drop", "aside", "install"} => tmp = live
  /\ step \in {"drop", "aside"} => main # Profile!Absent
  /\ step = "aside" => spare = Profile!Absent
  /\ step = "install" => main = Profile!Absent

(* Without damage from outside.                                            *)
LastSaveKept ==
  damages = 0 =>
    /\ main # Profile!Torn /\ spare # Profile!Torn
    /\ main # Profile!Absent => main.edit = committed
    /\ main = Profile!Absent =>
         IF spare = Profile!Absent THEN committed = 0 ELSE spare.edit = committed

SpareIsPrevious ==
  IF spare = Profile!Absent THEN previous = 0
  ELSE IsProfile(spare) /\ spare.edit = previous

(* With no fault so far, or one damage and nothing else.                   *)
SaveBeforeKept ==
  /\ crashes + failures + damages = 0 =>
       /\ main = Profile!Absent /\ step # "install" =>
            spare = Profile!Absent /\ previous = 0
       /\ main # Profile!Absent /\ step # "aside" => SpareIsPrevious
  /\ crashes + failures = 0 /\ damages = 1 =>
       /\ main = Profile!Absent => step = "install"
       /\ IsProfile(main) => main.edit = committed
       /\ main = Profile!Torn /\ step \in {"idle", "create", "write"} => SpareIsPrevious

ProfileInv == ProfileTyped /\ SaveUnderWay /\ LastSaveKept /\ SaveBeforeKept

LEMMA ProfileKinds ==
  /\ \A p : IsProfile(p) => /\ p # Profile!Absent /\ p # Profile!Torn /\ p # Profile!Off
                            /\ Profile!Good(p)
  /\ Profile!Absent # Profile!Torn
  /\ IsProfile(Profile!Defaults) /\ Profile!Defaults.edit = 0
  <1>1. \A p : IsProfile(p) => p # Profile!Absent /\ p # Profile!Torn /\ p # Profile!Off
    <2>1. DOMAIN Profile!Absent = {"file"} /\ DOMAIN Profile!Torn = {"file"}
      BY DEF Profile!Absent, Profile!Torn
    <2>2. Profile!Off.running = FALSE
      BY DEF Profile!Off
    <2> QED BY <2>1, <2>2 DEF IsProfile
  <1>2. Profile!Absent # Profile!Torn
    <2>1. Profile!Absent.file # Profile!Torn.file
      BY DEF Profile!Absent, Profile!Torn
    <2> QED BY <2>1
  <1>3. IsProfile(Profile!Defaults) /\ Profile!Defaults.edit = 0
    BY DEF Profile!Defaults, Profile!Profile, IsProfile
  <1> QED BY <1>1, <1>2, <1>3 DEF Profile!Good

(* Reading a file back changes the tree of bookmarks only.                 *)
LEMMA RestoredKeepsEdit ==
  ASSUME NEW p, IsProfile(p)
  PROVE  IsProfile(Profile!Restored(p)) /\ Profile!Restored(p).edit = p.edit
  <1> DEFINE r == Profile!Restored(p)
  <1>1. \E t : r = [p EXCEPT !.tree = t]
    BY DEF Profile!Restored
  <1>2. PICK t : r = [p EXCEPT !.tree = t]
    BY <1>1
  <1>3. DOMAIN r = DOMAIN p /\ r.running = p.running /\ r.edit = p.edit
    BY <1>2 DEF IsProfile
  <1> QED BY <1>3 DEF IsProfile

LEMMA ProfileInitially == Profile!Init => ProfileInv
  <1> SUFFICES ASSUME Profile!Init PROVE ProfileInv
    OBVIOUS
  <1>1. ProfileTyped /\ SaveUnderWay
    BY ProfileKinds DEF Profile!Init, ProfileTyped, SaveUnderWay, IsFile
  <1>2. LastSaveKept /\ SaveBeforeKept
    BY ProfileKinds DEF Profile!Init, LastSaveKept, SaveBeforeKept
  <1> QED BY <1>1, <1>2 DEF ProfileInv

(* The edits, and the step that only starts a save.                        *)
LEMMA EditKeepsProfileInv ==
  ASSUME ProfileInv, step = "idle", live # Profile!Off,
         step' \in {"idle", "create"}, IsProfile(live'), edits' \in Nat,
         UNCHANGED <<main, spare, tmp, committed, previous, crashes, failures, damages>>
  PROVE  ProfileInv'
  <1>1. ProfileTyped'
    BY DEF ProfileInv, ProfileTyped, IsFile, IsProfile
  <1>2. SaveUnderWay'
    BY ProfileKinds DEF ProfileInv, SaveUnderWay
  <1>3. LastSaveKept'
    BY DEF ProfileInv, LastSaveKept
  <1>4. SaveBeforeKept'
    BY DEF ProfileInv, SaveBeforeKept, SpareIsPrevious, IsProfile
  <1> QED BY <1>1, <1>2, <1>3, <1>4 DEF ProfileInv

(* A call that fails, and a crash.                                         *)
LEMMA FaultKeepsProfileInv ==
  ASSUME ProfileInv, step' = "idle", live' \in {live, Profile!Off}, crashes' \in Nat,
         failures' \in Nat, crashes' + failures' > 0,
         \/ UNCHANGED <<main, spare>>
         \/ /\ spare # Profile!Absent /\ main = Profile!Absent
            /\ main' = spare /\ spare' = Profile!Absent,
         UNCHANGED <<edits, committed, previous, damages>>
  PROVE  ProfileInv'
  <1>1. ProfileTyped'
    BY DEF ProfileInv, ProfileTyped, IsFile, IsProfile
  <1>2. SaveUnderWay'
    BY DEF ProfileInv, SaveUnderWay
  <1>3. LastSaveKept'
    BY ProfileKinds DEF ProfileInv, LastSaveKept
  <1>4. SaveBeforeKept'
    <2>1. \A a, b, c \in Nat : a + b > 0 => ~(a + b = 0) /\ ~(a + b + c = 0)
      OBVIOUS
    <2>2. damages' \in Nat
      BY DEF ProfileInv, ProfileTyped
    <2>3. ~(crashes' + failures' = 0) /\ ~(crashes' + failures' + damages' = 0)
      BY <2>1, <2>2
    <2> QED BY <2>3 DEF SaveBeforeKept
  <1> QED BY <1>1, <1>2, <1>3, <1>4 DEF ProfileInv

LEMMA InstallKeepsProfileInv ==
  ASSUME ProfileInv, Profile!Install
  PROVE  ProfileInv'
  <1>1. /\ IsProfile(live) /\ tmp = live /\ main' = live /\ spare' = spare
        /\ committed' = live.edit /\ previous' = committed
        /\ live' \in {live, Profile!Off} /\ step' = "idle"
        /\ UNCHANGED <<edits, crashes, failures, damages>>
    <2>1. live # Profile!Off /\ step = "install"
      BY DEF Profile!Install, Profile!At, Profile!Off
    <2> QED BY <2>1 DEF Profile!Install, Profile!Returned, Profile!faults, ProfileInv,
                        ProfileTyped, SaveUnderWay
  <1>2. main' # Profile!Absent /\ main' # Profile!Torn /\ main'.edit = committed'
    BY <1>1, ProfileKinds
  <1>3. ProfileTyped'
    BY <1>1 DEF ProfileInv, ProfileTyped, IsFile, IsProfile
  <1>4. SaveUnderWay'
    BY <1>1 DEF SaveUnderWay
  <1>5. LastSaveKept'
    BY <1>1, <1>2 DEF ProfileInv, LastSaveKept
  <1>6. SaveBeforeKept'
    <2>1. main = Profile!Absent /\ step = "install"
      BY DEF ProfileInv, SaveUnderWay, Profile!Install, Profile!At
    <2>2. ASSUME (crashes + failures + damages = 0)' PROVE SpareIsPrevious'
      <3>1. damages = 0
        BY <1>1, <2>2 DEF ProfileInv, ProfileTyped
      <3>2. spare = Profile!Absent \/ IsProfile(spare)
        BY <3>1 DEF ProfileInv, ProfileTyped, LastSaveKept, IsFile
      <3>3. IF spare = Profile!Absent THEN committed = 0 ELSE spare.edit = committed
        BY <2>1, <3>1 DEF ProfileInv, LastSaveKept
      <3> QED BY <1>1, <3>2, <3>3 DEF SpareIsPrevious, IsProfile
    <2> QED BY <1>1, <1>2, <2>2 DEF SaveBeforeKept
  <1> QED BY <1>3, <1>4, <1>5, <1>6 DEF ProfileInv

LEMMA SaveStepKeepsProfileInv ==
  ASSUME ProfileInv, \/ Profile!CreateTemporary \/ Profile!WriteAndSync
                     \/ Profile!RemoveBackup \/ Profile!MoveAside
  PROVE  ProfileInv'
  <1> USE DEF Profile!At, Profile!faults
  <1>0. /\ live' = live /\ step # "idle" /\ live # Profile!Off /\ live.running
        /\ UNCHANGED <<edits, committed, previous, crashes, failures, damages>>
    BY DEF Profile!CreateTemporary, Profile!WriteAndSync, Profile!RemoveBackup,
           Profile!MoveAside, Profile!Off
  <1>1. CASE Profile!CreateTemporary
    <2>1. step = "create" /\ step' = "write" /\ UNCHANGED <<main, spare>>
      BY <1>1 DEF Profile!CreateTemporary
    <2>2. ProfileTyped'
      BY <1>0, <2>1 DEF ProfileInv, ProfileTyped, IsFile, IsProfile
    <2>3. SaveUnderWay'
      BY <1>0, <2>1 DEF SaveUnderWay
    <2>4. LastSaveKept'
      BY <1>0, <2>1 DEF ProfileInv, LastSaveKept
    <2>5. SaveBeforeKept'
      BY <1>0, <2>1 DEF ProfileInv, SaveBeforeKept, SpareIsPrevious, IsProfile
    <2> QED BY <2>2, <2>3, <2>4, <2>5 DEF ProfileInv
  <1>2. CASE Profile!WriteAndSync
    <2>1. /\ step = "write" /\ tmp' = live /\ UNCHANGED <<main, spare>>
          /\ step' = IF main = Profile!Absent THEN "install"
                     ELSE IF spare = Profile!Absent THEN "aside" ELSE "drop"
      BY <1>2 DEF Profile!WriteAndSync
    <2>2. ProfileTyped'
      BY <1>0, <2>1 DEF ProfileInv, ProfileTyped, IsFile, IsProfile
    <2>3. SaveUnderWay'
      BY <1>0, <2>1 DEF SaveUnderWay
    <2>4. LastSaveKept'
      BY <1>0, <2>1 DEF ProfileInv, LastSaveKept
    <2>5. SaveBeforeKept'
      BY <1>0, <2>1 DEF ProfileInv, SaveBeforeKept, SpareIsPrevious, IsProfile
    <2> QED BY <2>2, <2>3, <2>4, <2>5 DEF ProfileInv
  <1>3. CASE Profile!RemoveBackup
    <2>1. /\ step = "drop" /\ step' = "aside" /\ spare' = Profile!Absent
          /\ UNCHANGED <<main, tmp>>
      BY <1>3 DEF Profile!RemoveBackup
    <2>2. ProfileTyped'
      BY <1>0, <2>1 DEF ProfileInv, ProfileTyped, IsFile, IsProfile
    <2>3. SaveUnderWay'
      BY <1>0, <2>1 DEF ProfileInv, SaveUnderWay
    <2>4. main # Profile!Absent
      BY <2>1 DEF ProfileInv, SaveUnderWay
    <2>5. LastSaveKept'
      BY <1>0, <2>1, <2>4, ProfileKinds DEF ProfileInv, LastSaveKept
    <2>6. SaveBeforeKept'
      BY <1>0, <2>1, <2>4 DEF ProfileInv, SaveBeforeKept, IsProfile
    <2> QED BY <2>2, <2>3, <2>5, <2>6 DEF ProfileInv
  <1>4. CASE Profile!MoveAside
    <2>1. /\ step = "aside" /\ step' = "install" /\ spare' = main
          /\ main' = Profile!Absent /\ UNCHANGED tmp
      BY <1>4 DEF Profile!MoveAside
    <2>2. ProfileTyped'
      BY <1>0, <2>1 DEF ProfileInv, ProfileTyped, IsFile, IsProfile
    <2>3. SaveUnderWay'
      BY <1>0, <2>1 DEF ProfileInv, SaveUnderWay
    <2>4. main # Profile!Absent
      BY <2>1 DEF ProfileInv, SaveUnderWay
    <2>5. LastSaveKept'
      BY <1>0, <2>1, <2>4, ProfileKinds DEF ProfileInv, LastSaveKept
    <2>6. SaveBeforeKept'
      BY <1>0, <2>1, ProfileKinds DEF ProfileInv, SaveBeforeKept, IsProfile
    <2> QED BY <2>2, <2>3, <2>5, <2>6 DEF ProfileInv
  <1> QED BY <1>1, <1>2, <1>3, <1>4

LEMMA DamageKeepsProfileInv ==
  ASSUME ProfileInv, Profile!Damage
  PROVE  ProfileInv'
  <1>1. /\ step = "idle" /\ IsProfile(main) /\ main' = Profile!Torn /\ damages' = damages + 1
        /\ UNCHANGED <<live, spare, tmp, step, edits, committed, previous, crashes, failures>>
    BY DEF Profile!Damage, Profile!Good, ProfileInv, ProfileTyped, SaveUnderWay, IsFile
  <1>2. damages \in Nat /\ damages' # 0
    BY <1>1 DEF ProfileInv, ProfileTyped
  <1>3. ProfileTyped'
    BY <1>1, <1>2 DEF ProfileInv, ProfileTyped, IsFile, IsProfile
  <1>4. SaveUnderWay'
    BY <1>1, ProfileKinds DEF ProfileInv, SaveUnderWay
  <1>5. LastSaveKept'
    BY <1>2 DEF LastSaveKept
  <1>6. SaveBeforeKept'
    <2>1. ~(crashes + failures + damages = 0)'
      BY <1>1 DEF ProfileInv, ProfileTyped
    <2>2. ASSUME (crashes + failures = 0 /\ damages = 1)' PROVE SpareIsPrevious'
      <3>1. crashes + failures + damages = 0
        BY <1>1, <2>2 DEF ProfileInv, ProfileTyped
      <3>2. SpareIsPrevious
        BY <1>1, <3>1, ProfileKinds DEF ProfileInv, SaveBeforeKept
      <3> QED BY <1>1, <3>2 DEF SpareIsPrevious, IsProfile
    <2>3. main' # Profile!Absent /\ ~IsProfile(main')
      BY <1>1, ProfileKinds
    <2>4. ~IsProfile(main)'
      BY <2>3 DEF IsProfile
    <2> QED BY <2>1, <2>2, <2>3, <2>4 DEF SaveBeforeKept
  <1> QED BY <1>3, <1>4, <1>5, <1>6 DEF ProfileInv

LEMMA StartKeepsProfileInv ==
  ASSUME ProfileInv, Profile!Start
  PROVE  ProfileInv'
  <1>1. /\ step = "idle" /\ live' = Profile!Restored(Profile!Readable)
        /\ UNCHANGED <<main, spare, tmp, step, edits, committed, previous, crashes, failures,
                       damages>>
    BY DEF Profile!Start, Profile!disk, Profile!faults, ProfileInv, SaveUnderWay
  <1>2. IsProfile(Profile!Readable)
    BY ProfileKinds DEF Profile!Readable, Profile!Good, ProfileInv, ProfileTyped, IsFile
  <1>3. IsProfile(live')
    BY <1>1, <1>2, RestoredKeepsEdit
  <1>4. ProfileTyped'
    BY <1>1, <1>3 DEF ProfileInv, ProfileTyped, IsFile, IsProfile
  <1>5. SaveUnderWay'
    BY <1>1 DEF SaveUnderWay
  <1>6. LastSaveKept' /\ SaveBeforeKept'
    BY <1>1 DEF ProfileInv, LastSaveKept, SaveBeforeKept, SpareIsPrevious, IsProfile
  <1> QED BY <1>4, <1>5, <1>6 DEF ProfileInv

LEMMA ProfileStep == ProfileInv /\ [Profile!Next]_(Profile!vars) => ProfileInv'
  <1> SUFFICES ASSUME ProfileInv, [Profile!Next]_(Profile!vars) PROVE ProfileInv'
    OBVIOUS
  <1>1. Profile!Idle => step = "idle" /\ live # Profile!Off /\ IsProfile(live)
    BY DEF Profile!Idle, Profile!Off, ProfileInv, ProfileTyped
  <1>2. ASSUME NEW flat, NEW tree, Profile!Idle, Profile!Edited(flat, tree),
               step' \in {step, "create"}
        PROVE  ProfileInv'
    <2>1. edits \in Nat /\ edits' = edits + 1 /\ live' = Profile!Profile(edits + 1, flat, tree)
      BY <1>2 DEF Profile!Edited, ProfileInv, ProfileTyped
    <2>2. IsProfile(live') /\ edits' \in Nat
      BY <2>1 DEF IsProfile, Profile!Profile
    <2>3. UNCHANGED <<main, spare, tmp, committed, previous, crashes, failures, damages>>
      BY <1>2 DEF Profile!Edited, Profile!disk, Profile!faults
    <2> QED BY <1>1, <1>2, <2>2, <2>3, EditKeepsProfileInv
  <1>3. ASSUME NEW u \in Urls, Profile!Toggle(u) \/ Profile!RemoveBookmark(u) PROVE ProfileInv'
    <2>1. Profile!Idle /\ step' = step /\ \E flat, tree : Profile!Edited(flat, tree)
      BY <1>3 DEF Profile!Toggle, Profile!RemoveBookmark
    <2> QED BY <2>1, <1>2
  <1>4. ASSUME NEW f \in 1 .. LastFolder, NEW u \in Urls, Profile!AddToFolder(f, u)
        PROVE  ProfileInv'
    <2>1. Profile!Idle /\ step' = "create" /\ \E flat, tree : Profile!Edited(flat, tree)
      BY <1>4 DEF Profile!AddToFolder
    <2> QED BY <2>1, <1>2
  <1>5. ASSUME NEW f \in 1 .. LastFolder, Profile!CreateFolder(f) PROVE ProfileInv'
    <2>1. Profile!Idle /\ step' = "create" /\ \E flat, tree : Profile!Edited(flat, tree)
      BY <1>5 DEF Profile!CreateFolder
    <2> QED BY <2>1, <1>2
  <1>6. CASE Profile!BeginSave \/ Profile!Quit
    <2>1. /\ Profile!Idle /\ step' = "create" /\ live' = live
          /\ UNCHANGED <<edits, main, spare, tmp, committed, previous, crashes, failures, damages>>
      BY <1>6 DEF Profile!BeginSave, Profile!Quit, Profile!disk, Profile!faults
    <2>2. IsProfile(live') /\ edits' \in Nat
      BY <1>1, <2>1 DEF ProfileInv, ProfileTyped, IsProfile
    <2> QED BY <1>1, <2>1, <2>2, EditKeepsProfileInv
  <1>7. CASE \/ Profile!CreateTemporary \/ Profile!WriteAndSync \/ Profile!RemoveBackup
             \/ Profile!MoveAside
    BY <1>7, SaveStepKeepsProfileInv
  <1>8. CASE Profile!Install
    BY <1>8, InstallKeepsProfileInv
  <1>9. CASE Profile!CallFails \/ Profile!Crash
    <2>1. /\ crashes' \in Nat /\ failures' \in Nat /\ crashes' + failures' > 0
      BY <1>9 DEF Profile!CallFails, Profile!Crash, ProfileInv, ProfileTyped
    <2>2. step' = "idle" /\ live' \in {live, Profile!Off}
      BY <1>9 DEF Profile!CallFails, Profile!Crash, Profile!Returned
    <2>3. \/ UNCHANGED <<main, spare>>
          \/ /\ spare # Profile!Absent /\ main = Profile!Absent
             /\ main' = spare /\ spare' = Profile!Absent
      BY <1>9 DEF Profile!CallFails, Profile!Crash, Profile!disk
    <2>4. UNCHANGED <<edits, committed, previous, damages>>
      BY <1>9 DEF Profile!CallFails, Profile!Crash
    <2> QED BY <2>1, <2>2, <2>3, <2>4, FaultKeepsProfileInv
  <1>10. CASE Profile!Start
    BY <1>10, StartKeepsProfileInv
  <1>11. CASE Profile!Damage
    BY <1>11, DamageKeepsProfileInv
  <1>12. CASE UNCHANGED Profile!vars
    <2>1. UNCHANGED <<live, main, spare, tmp, step, edits, committed, previous, crashes,
                      failures, damages>>
      BY <1>12 DEF Profile!vars, Profile!disk, Profile!faults
    <2> QED BY <2>1 DEF ProfileInv, ProfileTyped, SaveUnderWay, LastSaveKept, SaveBeforeKept,
                        SpareIsPrevious, IsFile, IsProfile
  <1> QED BY <1>3, <1>4, <1>5, <1>6, <1>7, <1>8, <1>9, <1>10, <1>11, <1>12 DEF Profile!Next

LEMMA ProfileInvSuffices == ProfileInv => SavesSurvive
  <1> SUFFICES ASSUME ProfileInv PROVE SavesSurvive
    OBVIOUS
  <1>1. ASSUME damages = 0 PROVE Profile!Readable.edit = committed
    <2>1. IsFile(main) /\ IsFile(spare)
      BY DEF ProfileInv, ProfileTyped
    <2> QED BY <1>1, <2>1, ProfileKinds
            DEF ProfileInv, LastSaveKept, Profile!Readable, Profile!Good, IsFile
  <1>2. ASSUME live = Profile!Off, crashes + failures + damages <= 1
        PROVE  Profile!Readable.edit \in {committed, previous}
    <2>1. CASE damages = 0
      BY <1>1, <2>1
    <2>2. CASE damages # 0
      <3>1. crashes + failures = 0 /\ damages = 1 /\ step = "idle"
        BY <1>2, <2>2 DEF ProfileInv, ProfileTyped, SaveUnderWay
      <3>2. main # Profile!Absent
        BY <3>1 DEF ProfileInv, SaveBeforeKept
      <3>3. CASE IsProfile(main)
        BY <3>1, <3>3, ProfileKinds DEF ProfileInv, SaveBeforeKept, Profile!Readable
      <3>4. CASE main = Profile!Torn
        <4>1. SpareIsPrevious
          BY <3>1, <3>4 DEF ProfileInv, SaveBeforeKept
        <4> QED BY <3>4, <4>1, ProfileKinds DEF SpareIsPrevious, Profile!Readable, Profile!Good
      <3> QED BY <3>2, <3>3, <3>4 DEF ProfileInv, ProfileTyped, IsFile
    <2> QED BY <2>1, <2>2
  <1> QED BY <1>1, <1>2 DEF SavesSurvive, Profile!SavesSurvive, Profile!SavedStateSurvives,
                            Profile!OneFaultCostsOneSave

(* Crashes and failed calls alone never cost a completed save, however     *)
(* many there are and whichever step of StorageManager::save they hit; and *)
(* after one fault of any kind, damage to storage.json included, a start   *)
(* reads the last save or the one before it (load_profile).                *)
THEOREM ProfileSafety == Profile!Spec => []SavesSurvive
  <1> QED BY ProfileInitially, ProfileStep, ProfileInvSuffices, PTL DEF Profile!Spec

-----------------------------------------------------------------------------
(* The databases of an origin.  A unique index is unique wherever a copy   *)
(* of its store lies: in the memory of a page, in a snapshot, in the file. *)
GoodStore(store) ==
  \/ store = Idb!Absent
  \/ /\ DOMAIN store = {"exists", "auto", "next", "records", "index"}
     /\ store.exists = TRUE
     /\ store.index = "unique" => Idb!NoDuplicates(store.records)

GoodDatabase(db) ==
  \/ db = Idb!Absent
  \/ /\ DOMAIN db = {"exists", "version", "epoch", "stores"}
     /\ db.exists = TRUE
     /\ DOMAIN db.stores = Stores
     /\ \A s \in Stores : GoodStore(db.stores[s])

GoodDatabases(dbs) ==
  DOMAIN dbs = Databases /\ \A d \in Databases : GoodDatabase(dbs[d])

IndexInv ==
  /\ open \subseteq Pages
  /\ DOMAIN databases = Pages /\ \A p \in Pages : GoodDatabases(databases[p])
  /\ GoodDatabases(file)
  /\ \A t \in transactions :
       t.page \in Pages /\ t.database \in Databases /\ GoodDatabase(t.snapshot)

LEMMA AbsentIsGone == Idb!Absent.exists = FALSE /\ DOMAIN Idb!Absent = {"exists"}
  BY DEF Idb!Absent

LEMMA EmptyIsGood == GoodDatabases(Idb!Empty)
  BY DEF GoodDatabases, GoodDatabase, Idb!Empty

(* Replacing a database, or a store and the epoch of its database.         *)
LEMMA GoodReplacement ==
  ASSUME NEW dbs, GoodDatabases(dbs), NEW d \in Databases, NEW db, GoodDatabase(db)
  PROVE  GoodDatabases([dbs EXCEPT ![d] = db])
  BY DEF GoodDatabases

LEMMA GoodStoreReplacement ==
  ASSUME NEW db, GoodDatabase(db), db.exists, NEW s \in Stores, NEW store, GoodStore(store),
         NEW new, DOMAIN new = DOMAIN db, new.exists = db.exists,
         new.stores = [db.stores EXCEPT ![s] = store]
  PROVE  GoodDatabase(new)
  <1>1. db # Idb!Absent
    BY AbsentIsGone
  <1>2. /\ DOMAIN db = {"exists", "version", "epoch", "stores"}
        /\ db.exists = TRUE
        /\ DOMAIN db.stores = Stores
        /\ \A t \in Stores : GoodStore(db.stores[t])
    BY <1>1 DEF GoodDatabase
  <1>3. DOMAIN new.stores = Stores /\ \A t \in Stores : GoodStore(new.stores[t])
    BY <1>2
  <1> QED BY <1>2, <1>3 DEF GoodDatabase

LEMMA OpenedIsGood ==
  ASSUME NEW dbs, GoodDatabases(dbs), NEW d \in Databases, NEW v \in 0 .. LastVersion
  PROVE  GoodDatabases(Idb!Opened(dbs, d, v))
  <1>1. CASE ~dbs[d].exists
    <2>1. \A n : GoodDatabase(Idb!NewDatabase(n))
      BY DEF Idb!NewDatabase, GoodDatabase, GoodStore
    <2>2. \E n : Idb!Opened(dbs, d, v) = [dbs EXCEPT ![d] = Idb!NewDatabase(n)]
      BY <1>1 DEF Idb!Opened
    <2>3. PICK n : Idb!Opened(dbs, d, v) = [dbs EXCEPT ![d] = Idb!NewDatabase(n)]
      BY <2>2
    <2>4. GoodDatabases([dbs EXCEPT ![d] = Idb!NewDatabase(n)])
      BY <2>1, GoodReplacement
    <2> QED BY <2>3, <2>4
  <1>2. CASE dbs[d].exists /\ v > dbs[d].version
    <2> DEFINE new == [dbs[d] EXCEPT !.version = v, !.epoch = @ + 1]
    <2>1. dbs[d] # Idb!Absent /\ GoodDatabase(dbs[d])
      BY <1>2, AbsentIsGone DEF GoodDatabases
    <2>2. DOMAIN dbs[d] = {"exists", "version", "epoch", "stores"}
      BY <2>1 DEF GoodDatabase
    <2>3. DOMAIN new = DOMAIN dbs[d] /\ new.exists = dbs[d].exists /\ new.stores = dbs[d].stores
      BY <2>2
    <2>4. GoodDatabase(new)
      BY <2>1, <2>3 DEF GoodDatabase
    <2>5. Idb!Opened(dbs, d, v) = [dbs EXCEPT ![d] = new]
      <3>1. Idb!Opened(dbs, d, v) = [dbs EXCEPT ![d].version = v, ![d].epoch = @ + 1]
        BY <1>2 DEF Idb!Opened
      <3> QED BY <3>1 DEF GoodDatabases
    <2> HIDE DEF new
    <2>6. GoodDatabases([dbs EXCEPT ![d] = new])
      BY <2>4, GoodReplacement
    <2> QED BY <2>5, <2>6
  <1>3. CASE dbs[d].exists /\ ~(v > dbs[d].version)
    BY <1>3 DEF Idb!Opened
  <1> QED BY <1>1, <1>2, <1>3

LEMMA RestoredIsGood ==
  ASSUME NEW dbs, GoodDatabases(dbs), NEW t, t.database \in Databases, GoodDatabase(t.snapshot)
  PROVE  GoodDatabases(Idb!Restored(dbs, t))
  <1>1. \/ Idb!Restored(dbs, t) = dbs
        \/ Idb!Restored(dbs, t) = [dbs EXCEPT ![t.database] = t.snapshot]
    BY DEF Idb!Restored
  <1> QED BY <1>1, GoodReplacement

(* A write that the checks of put() admit keeps the index unique.          *)
LEMMA PutKeepsUnique ==
  ASSUME NEW store, GoodStore(store), store.exists, NEW key, NEW value,
         Idb!ValidIndexes(store, key, value), NEW new, DOMAIN new = DOMAIN store,
         new.exists = store.exists, new.index = store.index,
         DOMAIN new.records = DOMAIN store.records \cup {key},
         new.records[key] = value,
         \A k \in DOMAIN store.records \ {key} : new.records[k] = store.records[k]
  PROVE  GoodStore(new)
  <1>1. /\ DOMAIN store = {"exists", "auto", "next", "records", "index"}
        /\ store.exists = TRUE
        /\ store.index = "unique" => Idb!NoDuplicates(store.records)
    BY AbsentIsGone DEF GoodStore
  <1>2. ASSUME store.index = "unique" PROVE Idb!NoDuplicates(new.records)
    <2> DEFINE old == store.records
               all == new.records
    <2>1. /\ \A k \in DOMAIN old : old[k].indexed
          /\ \A j, k \in DOMAIN old : j # k => old[j].keys \cap old[k].keys = {}
      BY <1>1, <1>2 DEF Idb!NoDuplicates
    <2>2. /\ value.indexed
          /\ \A k \in DOMAIN old \ {key} : old[k].keys \cap value.keys = {}
      BY <1>2 DEF Idb!ValidIndexes
    <2>3. /\ DOMAIN all = DOMAIN old \cup {key} /\ all[key] = value
          /\ \A k \in DOMAIN old \ {key} : all[k] = old[k]
      OBVIOUS
    <2> HIDE DEF old, all
    <2>4. \A k \in DOMAIN all : all[k].indexed
      BY <2>1, <2>2, <2>3
    <2>5. ASSUME NEW j \in DOMAIN all, NEW k \in DOMAIN all, j # k
          PROVE  all[j].keys \cap all[k].keys = {}
      <3>1. CASE j = key
        BY <2>2, <2>3, <2>5, <3>1
      <3>2. CASE k = key
        BY <2>2, <2>3, <2>5, <3>2
      <3>3. CASE j # key /\ k # key
        BY <2>1, <2>3, <2>5, <3>3
      <3> QED BY <3>1, <3>2, <3>3
    <2> QED BY <2>4, <2>5 DEF Idb!NoDuplicates, all
  <1> QED BY <1>1, <1>2 DEF GoodStore

LEMMA IndexInitially == Idb!Init => IndexInv
  BY EmptyIsGood DEF Idb!Init, IndexInv

(* What a call leaves behind when the memory of its page is good.          *)
LEMMA PageCallKeepsIndexInv ==
  ASSUME IndexInv, NEW p \in Pages, NEW dbs, GoodDatabases(dbs),
         databases' = [databases EXCEPT ![p] = dbs],
         file' \in {file, dbs}, open' \subseteq Pages,
         \A t \in transactions' : \/ t \in transactions
                                  \/ /\ t.page \in Pages /\ t.database \in Databases
                                     /\ GoodDatabase(t.snapshot)
  PROVE  IndexInv'
  <1>1. DOMAIN databases' = Pages /\ \A q \in Pages : GoodDatabases(databases'[q])
    BY DEF IndexInv
  <1>2. GoodDatabases(file')
    BY DEF IndexInv
  <1>3. \A t \in transactions' :
          t.page \in Pages /\ t.database \in Databases /\ GoodDatabase(t.snapshot)
    BY DEF IndexInv
  <1> QED BY <1>1, <1>2, <1>3 DEF IndexInv

(* A call that replaces a store and touches no other.                      *)
LEMMA StoreCallKeepsIndexInv ==
  ASSUME IndexInv, NEW p \in Pages, NEW d \in Databases, NEW s \in Stores,
         databases[p][d].exists,
         NEW store, GoodStore(store), NEW new,
         DOMAIN new = DOMAIN databases[p][d], new.exists = databases[p][d].exists,
         new.stores = [databases[p][d].stores EXCEPT ![s] = store],
         NEW dbs, dbs = [databases[p] EXCEPT ![d] = new],
         databases' = [databases EXCEPT ![p] = dbs],
         UNCHANGED <<open, transactions, file>>
  PROVE  IndexInv'
  <1>1. GoodDatabases(databases[p]) /\ GoodDatabase(databases[p][d])
    BY DEF IndexInv, GoodDatabases
  <1>2. GoodDatabase(new)
    BY <1>1, GoodStoreReplacement
  <1>3. GoodDatabases(dbs)
    BY <1>1, <1>2, GoodReplacement
  <1>4. open' \subseteq Pages
    BY DEF IndexInv
  <1> QED BY <1>3, <1>4, PageCallKeepsIndexInv

(* The calls of a script on a store that exists.                           *)
LEMMA StoreCallsKeepIndexInv ==
  ASSUME IndexInv, NEW p \in open, NEW l \in Idb!StoresOf(databases[p]),
         Idb!StoreCall(p, l[1], l[2])
  PROVE  IndexInv'
  <1> DEFINE d == l[1]
             s == l[2]
             db == databases[p][d]
             old == db.stores[s]
  <1>1. p \in Pages /\ d \in Databases /\ s \in Stores /\ db.exists /\ old.exists
    BY DEF IndexInv, Idb!StoresOf
  <1>2. GoodDatabases(databases[p]) /\ GoodDatabase(db)
    BY <1>1 DEF IndexInv, GoodDatabases
  <1>3. /\ DOMAIN db = {"exists", "version", "epoch", "stores"}
        /\ DOMAIN db.stores = Stores /\ GoodStore(old)
    BY <1>1, <1>2, AbsentIsGone DEF GoodDatabase
  <1>4. /\ DOMAIN old = {"exists", "auto", "next", "records", "index"} /\ old.exists = TRUE
        /\ old.index = "unique" => Idb!NoDuplicates(old.records)
    BY <1>1, <1>3, AbsentIsGone DEF GoodStore
  <1>5. DOMAIN databases = Pages /\ DOMAIN databases[p] = Databases
    BY <1>2 DEF IndexInv, GoodDatabases
  <1> HIDE DEF d, s
  <1>6. ASSUME NEW new, GoodStore(new),
               databases' = [databases EXCEPT ![p][d].stores[s] = new],
               UNCHANGED <<open, transactions, file>>
        PROVE  IndexInv'
    <2> DEFINE newStores == [db.stores EXCEPT ![s] = new]
               newDb == [db EXCEPT !.stores = newStores]
               dbs == [databases[p] EXCEPT ![d] = newDb]
    <2>1. databases' = [databases EXCEPT ![p] = dbs]
      BY <1>6
    <2>2. /\ DOMAIN newDb = DOMAIN db /\ newDb.exists = db.exists
          /\ newDb.stores = newStores
      BY <1>3
    <2>3. GoodDatabase(newDb)
      <3> HIDE DEF newDb
      <3> QED BY <1>1, <1>2, <1>6, <2>2, GoodStoreReplacement
    <2> HIDE DEF newDb
    <2>4. GoodDatabases(dbs)
      BY <1>1, <1>2, <2>3, GoodReplacement
    <2> HIDE DEF dbs
    <2> QED BY <1>1, <1>6, <2>1, <2>4, PageCallKeepsIndexInv DEF IndexInv
  <1>7. CASE Idb!DeleteObjectStore(p, d, s)
    <2> DEFINE newDb == [db EXCEPT !.stores = [db.stores EXCEPT ![s] = Idb!Absent],
                                   !.epoch = @ + 1]
    <2>1. databases' = [databases EXCEPT ![p] = [databases[p] EXCEPT ![d] = newDb]]
      BY <1>3, <1>7 DEF Idb!DeleteObjectStore
    <2>2. /\ DOMAIN newDb = DOMAIN db /\ newDb.exists = db.exists
          /\ newDb.stores = [db.stores EXCEPT ![s] = Idb!Absent]
      BY <1>3
    <2>3. UNCHANGED <<open, transactions, file>> /\ GoodStore(Idb!Absent)
      BY <1>7 DEF Idb!DeleteObjectStore, GoodStore
    <2> HIDE DEF newDb
    <2> QED BY <1>1, <2>1, <2>2, <2>3, StoreCallKeepsIndexInv
  <1>8. ASSUME NEW removed, Idb!DeleteRecords(p, d, s, removed) PROVE IndexInv'
    <2> DEFINE records == Idb!Restrict(old.records, DOMAIN old.records \ removed)
               new == [old EXCEPT !.records = records]
    <2>1. databases' = [databases EXCEPT ![p][d].stores[s] = new]
      BY <1>8 DEF Idb!DeleteRecords
    <2>2. UNCHANGED <<open, transactions, file>>
      BY <1>8 DEF Idb!DeleteRecords
    <2>3. Idb!NoDuplicates(old.records) => Idb!NoDuplicates(records)
      BY DEF Idb!NoDuplicates, Idb!Restrict
    <2>4. DOMAIN new = DOMAIN old /\ new.exists = old.exists /\ new.index = old.index
          /\ new.records = records
      BY <1>4
    <2> HIDE DEF records, new
    <2>5. GoodStore(new)
      BY <1>4, <2>3, <2>4 DEF GoodStore
    <2> QED BY <1>6, <2>1, <2>2, <2>5
  <1>9. CASE Idb!DeleteIndex(p, d, s)
    <2> DEFINE new == [old EXCEPT !.index = "none"]
    <2>1. databases' = [databases EXCEPT ![p][d].stores[s] = new]
      BY <1>9 DEF Idb!DeleteIndex
    <2>2. UNCHANGED <<open, transactions, file>>
      BY <1>9 DEF Idb!DeleteIndex
    <2>3. GoodStore(new)
      BY <1>4 DEF GoodStore
    <2> HIDE DEF new
    <2> QED BY <1>6, <2>1, <2>2, <2>3
  <1>10. ASSUME NEW kind, Idb!CreateIndex(p, d, s, kind) PROVE IndexInv'
    <2> DEFINE new == [old EXCEPT !.index = kind]
    <2>1. databases' = [databases EXCEPT ![p][d].stores[s] = new]
      BY <1>10 DEF Idb!CreateIndex
    <2>2. UNCHANGED <<open, transactions, file>>
      BY <1>10 DEF Idb!CreateIndex
    <2>3. kind = "unique" => Idb!NoDuplicates(old.records)
      BY <1>10 DEF Idb!CreateIndex
    <2>4. DOMAIN new = DOMAIN old /\ new.exists = old.exists /\ new.index = kind
          /\ new.records = old.records
      BY <1>4
    <2> HIDE DEF new
    <2>5. GoodStore(new)
      BY <1>4, <2>3, <2>4 DEF GoodStore
    <2> QED BY <1>6, <2>1, <2>2, <2>5
  <1>11. ASSUME NEW key \in Idb!Keys \cup {0}, NEW value \in Values,
                Idb!Put(p, d, s, key, value)
         PROVE  IndexInv'
    <2> DEFINE actual == IF key = 0 THEN old.next ELSE key
               spent == IF key = 0 THEN [old EXCEPT !.next = @ + 1] ELSE old
               records == [k \in DOMAIN spent.records \cup {actual} |->
                             IF k = actual THEN value ELSE spent.records[k]]
               new == [spent EXCEPT !.records = records]
    <2>1. /\ DOMAIN spent = DOMAIN old /\ spent.exists = old.exists
          /\ spent.index = old.index /\ spent.records = old.records
      BY <1>4
    <2>2. UNCHANGED <<open, transactions, file>>
      BY <1>11 DEF Idb!Put
    <2>3. \/ /\ Idb!ValidIndexes(old, actual, value)
             /\ databases' = [databases EXCEPT ![p][d].stores[s] = new]
          \/ databases' = [databases EXCEPT ![p][d].stores[s] = spent]
      BY <1>11 DEF Idb!Put
    <2>4. GoodStore(spent)
      BY <1>4, <2>1 DEF GoodStore
    <2>5. /\ DOMAIN new = DOMAIN old /\ new.exists = old.exists /\ new.index = old.index
          /\ DOMAIN new.records = DOMAIN old.records \cup {actual}
          /\ new.records[actual] = value
          /\ \A k \in DOMAIN old.records \ {actual} : new.records[k] = old.records[k]
      BY <1>4, <2>1
    <2> HIDE DEF spent, new, actual, records
    <2>6. Idb!ValidIndexes(old, actual, value) => GoodStore(new)
      BY <1>1, <1>3, <2>5, PutKeepsUnique
    <2>7. CASE databases' = [databases EXCEPT ![p][d].stores[s] = spent]
      BY <1>6, <2>2, <2>4, <2>7
    <2>8. CASE /\ Idb!ValidIndexes(old, actual, value)
               /\ databases' = [databases EXCEPT ![p][d].stores[s] = new]
      <3>1. GoodStore(new)
        BY <2>6, <2>8
      <3> QED BY <1>6, <2>2, <2>8, <3>1
    <2> QED BY <2>3, <2>7, <2>8
  <1> QED
    <2>1. Idb!StoreCall(p, d, s)
      BY DEF d, s
    <2>2. CASE Idb!DeleteObjectStore(p, d, s)
      BY <1>7, <2>2
    <2>3. CASE Idb!Clear(p, d, s)
      BY <1>8, <2>3 DEF Idb!Clear
    <2>4. CASE Idb!DeleteIndex(p, d, s)
      BY <1>9, <2>4
    <2>5. CASE \E key \in Idb!Keys \cup {0}, value \in Values :
                 Idb!Put(p, d, s, key, value) \/ Idb!Add(p, d, s, key, value)
      BY <1>11, <2>5 DEF Idb!Add
    <2>6. CASE \E key \in Idb!Keys : Idb!Delete(p, d, s, key)
      BY <1>8, <2>6 DEF Idb!Delete
    <2>7. CASE \E kind \in {"plain", "unique"} : Idb!CreateIndex(p, d, s, kind)
      BY <1>10, <2>7
    <2> QED BY <2>1, <2>2, <2>3, <2>4, <2>5, <2>6, <2>7 DEF Idb!StoreCall

(* The calls on a database.                                                *)
LEMMA DatabaseCallsKeepIndexInv ==
  ASSUME IndexInv, NEW p \in open, NEW d \in Databases, Idb!DatabaseCall(p, d)
  PROVE  IndexInv'
  <1>1. p \in Pages /\ GoodDatabases(databases[p]) /\ DOMAIN databases[p] = Databases
        /\ DOMAIN databases = Pages /\ GoodDatabase(databases[p][d])
    BY DEF IndexInv, GoodDatabases
  <1>2. ASSUME NEW dbs, GoodDatabases(dbs), databases' = [databases EXCEPT ![p] = dbs],
               file' \in {file, dbs}, open' = open,
               \A t \in transactions' : \/ t \in transactions
                                        \/ /\ t.page \in Pages /\ t.database \in Databases
                                           /\ GoodDatabase(t.snapshot)
        PROVE  IndexInv'
    <2>1. DOMAIN databases' = Pages /\ \A q \in Pages : GoodDatabases(databases'[q])
      BY <1>1, <1>2 DEF IndexInv
    <2>2. open' \subseteq Pages /\ GoodDatabases(file')
      BY <1>2 DEF IndexInv
    <2>3. \A t \in transactions' :
            t.page \in Pages /\ t.database \in Databases /\ GoodDatabase(t.snapshot)
      BY <1>2 DEF IndexInv
    <2> QED BY <2>1, <2>2, <2>3 DEF IndexInv
  <1>3. ASSUME NEW version_ \in 0 .. LastVersion, Idb!OpenDatabase(p, d, version_)
        PROVE  IndexInv'
    <2> DEFINE dbs == Idb!Opened(databases[p], d, version_)
    <2>1. GoodDatabases(dbs)
      BY <1>1, OpenedIsGood
    <2>2. /\ databases' = [databases EXCEPT ![p] = dbs] /\ file' \in {file, dbs}
          /\ open' = open /\ transactions' = transactions
      BY <1>3 DEF Idb!OpenDatabase, Idb!SaveOrFail
    <2> HIDE DEF dbs
    <2> QED BY <1>2, <2>1, <2>2
  <1>4. ASSUME NEW version_ \in 0 .. LastVersion, Idb!OpenTransaction(p, d, version_)
        PROVE  IndexInv'
    <2> DEFINE dbs == Idb!Opened(databases[p], d, version_)
               t == [page |-> p, database |-> d, snapshot |-> databases'[p][d],
                     epoch |-> databases'[p][d].epoch]
    <2>1. GoodDatabases(dbs)
      BY <1>1, OpenedIsGood
    <2>2. /\ databases' = [databases EXCEPT ![p] = dbs] /\ file' \in {file, dbs}
          /\ open' = open /\ transactions' = transactions \cup {t}
      BY <1>4 DEF Idb!OpenTransaction
    <2> HIDE DEF dbs
    <2>3. databases'[p][d] = dbs[d]
      BY <1>1, <2>2
    <2>4. GoodDatabase(dbs[d])
      BY <2>1 DEF GoodDatabases
    <2>5. t.page \in Pages /\ t.database \in Databases /\ GoodDatabase(t.snapshot)
      BY <1>1, <2>3, <2>4
    <2> HIDE DEF t
    <2> QED BY <1>2, <2>1, <2>2, <2>5
  <1>5. CASE Idb!DeleteDatabase(p, d)
    <2> DEFINE dbs == [databases[p] EXCEPT ![d] = Idb!Absent]
    <2>1. databases' = [databases EXCEPT ![p] = dbs]
      BY <1>5 DEF Idb!DeleteDatabase
    <2>2. databases'[p] = dbs
      BY <1>1, <2>1
    <2>3. file' \in {file, dbs} /\ open' = open /\ transactions' = transactions
      BY <1>5, <2>2 DEF Idb!DeleteDatabase, Idb!SaveOrFail
    <2>4. GoodDatabases(dbs)
      BY <1>1, GoodReplacement DEF GoodDatabase
    <2> HIDE DEF dbs
    <2> QED BY <1>2, <2>1, <2>3, <2>4
  <1>6. ASSUME NEW s \in Stores, NEW auto \in BOOLEAN, Idb!CreateObjectStore(p, d, s, auto)
        PROVE  IndexInv'
    <2> DEFINE db == databases[p][d]
               newDb == [db EXCEPT !.stores = [db.stores EXCEPT ![s] = Idb!NewStore(auto)],
                                   !.epoch = @ + 1]
    <2>1. db.exists /\ UNCHANGED <<open, transactions, file>>
      BY <1>6 DEF Idb!CreateObjectStore
    <2>2. DOMAIN db = {"exists", "version", "epoch", "stores"} /\ DOMAIN db.stores = Stores
      BY <1>1, <2>1, AbsentIsGone DEF GoodDatabase
    <2>3. databases' = [databases EXCEPT ![p] = [databases[p] EXCEPT ![d] = newDb]]
      BY <1>1, <1>6, <2>2 DEF Idb!CreateObjectStore
    <2>4. /\ DOMAIN newDb = DOMAIN db /\ newDb.exists = db.exists
          /\ newDb.stores = [db.stores EXCEPT ![s] = Idb!NewStore(auto)]
      BY <2>2
    <2>5. GoodStore(Idb!NewStore(auto))
      BY DEF Idb!NewStore, GoodStore
    <2> HIDE DEF newDb
    <2> QED BY <1>1, <2>1, <2>3, <2>4, <2>5, StoreCallKeepsIndexInv
  <1> QED BY <1>3, <1>4, <1>5, <1>6 DEF Idb!DatabaseCall

LEMMA IndexStep == IndexInv /\ [Idb!Next]_(Idb!vars) => IndexInv'
  <1> SUFFICES ASSUME IndexInv, [Idb!Next]_(Idb!vars) PROVE IndexInv'
    OBVIOUS
  <1>1. ASSUME NEW p \in open, NEW d \in Databases, Idb!DatabaseCall(p, d) PROVE IndexInv'
    BY <1>1, DatabaseCallsKeepIndexInv
  <1>2. ASSUME NEW p \in open, NEW l \in Idb!StoresOf(databases[p]),
               Idb!StoreCall(p, l[1], l[2])
        PROVE  IndexInv'
    BY <1>2, StoreCallsKeepIndexInv
  <1>3. ASSUME NEW t \in transactions, Idb!CommitTransaction(t) \/ Idb!AbortTransaction(t)
        PROVE  IndexInv'
    <2> DEFINE p == t.page
               dbs == Idb!Restored(databases[p], t)
    <2>1. p \in Pages /\ t.database \in Databases /\ GoodDatabase(t.snapshot)
          /\ GoodDatabases(databases[p]) /\ open \subseteq Pages /\ DOMAIN databases = Pages
      BY DEF IndexInv
    <2>2. transactions' \subseteq transactions /\ open' = open
      BY <1>3 DEF Idb!CommitTransaction, Idb!AbortTransaction
    <2>3. GoodDatabases(dbs)
      BY <2>1, RestoredIsGood
    <2>4. \/ databases' = databases /\ file' \in {file, databases[p]}
          \/ databases' = [databases EXCEPT ![p] = dbs] /\ file' = file
      BY <1>3 DEF Idb!CommitTransaction, Idb!AbortTransaction, Idb!SaveOrFail
    <2> HIDE DEF dbs, p
    <2>5. CASE databases' = [databases EXCEPT ![p] = dbs] /\ file' = file
      BY <2>1, <2>2, <2>3, <2>5, PageCallKeepsIndexInv
    <2>6. CASE databases' = databases /\ file' \in {file, databases[p]}
      <3>1. GoodDatabases(file')
        BY <2>1, <2>6 DEF IndexInv
      <3> QED BY <2>2, <2>6, <3>1 DEF IndexInv, GoodDatabases
    <2> QED BY <2>4, <2>5, <2>6
  <1>4. ASSUME NEW p \in Pages, Idb!OpenPage(p) PROVE IndexInv'
    <2> DEFINE dbs == IF Idb!WithinOrigin(file) THEN file ELSE Idb!Empty
    <2>1. GoodDatabases(dbs)
      BY EmptyIsGood DEF IndexInv
    <2>2. databases' = [databases EXCEPT ![p] = dbs] /\ open' = open \cup {p}
          /\ transactions' = transactions /\ file' = file
      BY <1>4 DEF Idb!OpenPage
    <2>3. open' \subseteq Pages
      BY <2>2 DEF IndexInv
    <2> HIDE DEF dbs
    <2> QED BY <2>1, <2>2, <2>3, PageCallKeepsIndexInv
  <1>5. ASSUME NEW p \in open, Idb!ClosePage(p) PROVE IndexInv'
    <2>1. databases' = [databases EXCEPT ![p] = Idb!Empty] /\ file' = file
          /\ transactions' \subseteq transactions /\ open' \subseteq open
      BY <1>5 DEF Idb!ClosePage
    <2>2. p \in Pages /\ open' \subseteq Pages
      BY <2>1 DEF IndexInv
    <2> QED BY <2>1, <2>2, EmptyIsGood, PageCallKeepsIndexInv
  <1>6. ASSUME NEW p \in open, Idb!EndTurn(p) PROVE IndexInv'
    <2>1. file' \in {file, databases[p]} /\ UNCHANGED <<open, databases, transactions>>
      BY <1>6 DEF Idb!EndTurn, Idb!SaveOrFail
    <2>2. p \in Pages
      BY DEF IndexInv
    <2>3. GoodDatabases(file')
      BY <2>1, <2>2 DEF IndexInv
    <2> QED BY <2>1, <2>3 DEF IndexInv, GoodDatabases
  <1>7. CASE UNCHANGED Idb!vars
    BY <1>7 DEF Idb!vars, IndexInv, GoodDatabases
  <1> QED BY <1>1, <1>2, <1>3, <1>4, <1>5, <1>6, <1>7 DEF Idb!Next

LEMMA IndexInvSuffices == IndexInv => UniqueIndexHolds
  <1>1. ASSUME NEW dbs, GoodDatabases(dbs), NEW l \in Idb!StoresOf(dbs),
               dbs[l[1]].stores[l[2]].index = "unique"
        PROVE  Idb!NoDuplicates(dbs[l[1]].stores[l[2]].records)
    <2> DEFINE d == l[1]
               s == l[2]
    <2>1. d \in Databases /\ s \in Stores /\ dbs[d].exists /\ dbs[d].stores[s].exists
      BY DEF Idb!StoresOf
    <2> HIDE DEF d, s
    <2>2. GoodDatabase(dbs[d])
      BY <1>1, <2>1 DEF GoodDatabases
    <2>3. GoodStore(dbs[d].stores[s])
      BY <2>1, <2>2, AbsentIsGone DEF GoodDatabase
    <2>4. dbs[d].stores[s].index = "unique" => Idb!NoDuplicates(dbs[d].stores[s].records)
      BY <2>1, <2>3, AbsentIsGone DEF GoodStore
    <2> QED BY <1>1, <2>4 DEF d, s
  <1>2. IndexInv => \A dbs \in {databases[p] : p \in open} \cup {file} : GoodDatabases(dbs)
    BY DEF IndexInv
  <1> QED BY <1>1, <1>2 DEF UniqueIndexHolds, Idb!UniqueIndexHolds, Idb!EveryStore

(* In the memory of every page and in the file of its origin, an index     *)
(* declared unique has no two records under one key: whatever writes,      *)
(* index creations, aborted transactions, failed saves and reloads came    *)
(* before (validate_indexes, restore_transaction in indexeddb.rs).         *)
THEOREM IndexSafety == Idb!Spec => []UniqueIndexHolds
  <1> QED BY IndexInitially, IndexStep, IndexInvSuffices, PTL DEF Idb!Spec
-----------------------------------------------------------------------------
(* Side by side, as the runs check them.                                   *)
LEMMA FilesInvStep ==
  IInv /\ ProfileInv /\ IndexInv /\ [FilesNext]_allVars => (IInv /\ ProfileInv /\ IndexInv)'
  <1> SUFFICES ASSUME IInv, ProfileInv, IndexInv, [FilesNext]_allVars
               PROVE  (IInv /\ ProfileInv /\ IndexInv)'
    OBVIOUS
  <1>1. /\ UNCHANGED profileVars => UNCHANGED Profile!vars
        /\ UNCHANGED dbVars => UNCHANGED Idb!vars
    BY DEF profileVars, dbVars, Profile!vars, Profile!disk, Profile!faults, Idb!vars
  <1>2. /\ [Next]_vars /\ [Profile!Next]_(Profile!vars) /\ [Idb!Next]_(Idb!vars)
    <2>1. CASE InUpdater /\ Next
      BY <1>1, <2>1 DEF InUpdater
    <2>2. CASE InProfile /\ Profile!Next
      BY <1>1, <2>2 DEF InProfile
    <2>3. CASE InDatabases /\ Idb!Next
      BY <1>1, <2>3 DEF InDatabases
    <2>4. CASE UNCHANGED allVars
      BY <1>1, <2>4 DEF allVars
    <2> QED BY <2>1, <2>2, <2>3, <2>4 DEF FilesNext
  <1> QED BY <1>2, InvStep, ProfileStep, IndexStep

(* Everything the program keeps in files is sound in every state of the    *)
(* three together.                                                         *)
THEOREM FilesSafety == FilesSpec => [](RestartIsSound /\ SavesSurvive /\ UniqueIndexHolds)
  <1>1. FilesInit => IInv /\ ProfileInv /\ IndexInv
    BY InitInv, ProfileInitially, IndexInitially DEF FilesInit
  <1>2. IInv /\ ProfileInv /\ IndexInv => RestartIsSound /\ SavesSurvive /\ UniqueIndexHolds
    BY InvRestart, ProfileInvSuffices, IndexInvSuffices
  <1> QED BY <1>1, <1>2, FilesInvStep, PTL DEF FilesSpec
=============================================================================
