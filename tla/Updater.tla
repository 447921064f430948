------------------------------- MODULE Updater -------------------------------
(***************************************************************************)
(* The update transaction of src/src/updater.rs: a package is staged, the  *)
(* installation is backed up, replaced file by file and verified, and a    *)
(* journal tells the next start of the program what to undo or to finish.  *)
(* The program may crash between any two file-system calls, and any call   *)
(* may fail.  Signatures, hashes and free space are checked before the     *)
(* first change and are not modelled; a package here is one that passed.   *)
(* The status word and the manifest the manager keeps for display are left *)
(* out.                                                                    *)
(***************************************************************************)
EXTENDS Integers

CONSTANTS Hot,         \* files that differ in every release
          Cold,        \* files that are the same in every release
          MaxVersion,  \* bound: releases are 1..MaxVersion
          MaxFaults,   \* bound: crashes and failed calls in a run
          None

Files == Hot \cup Cold
Versions == 1..MaxVersion
Trees == [Files -> Versions \cup {0, None}]
Phases == {"Staged", "BackedUp", "Applying", "Committed"}
Journals == [from : Versions, to : Versions, phase : Phases]

ASSUME UpdaterAssumption == /\ MaxVersion \in Nat \ {0} /\ MaxFaults \in Nat
                            /\ Hot \cap Cold = {} /\ Hot # {}
                            /\ None \notin Nat \cup Trees \cup Journals

VARIABLES
  install,  \* the installation directory: what each file holds, None if absent
  backup,   \* state/backup, None while the directory does not exist
  journal,  \* state/journal.json, None if there is none
  saved,    \* current_version in state/state.json
  version,  \* self.current_version of the running program
  call,     \* the call in progress and where it is
  holes,    \* history variable, not in the code: the unprotected windows in
            \* which the program has been interrupted
  faults    \* bound: faults so far

disk == <<install, backup, journal, saved>>
vars == <<disk, version, call, holes, faults>>

Release(v) == [f \in Files |-> IF f \in Hot THEN v ELSE 0]
Empty == [f \in Files |-> None]
Present(tree) == {f \in Files : tree[f] # None}

At(step) == call.step = step
Goto(step) == call' = [call EXCEPT !.step = step]

\* copy_tree_bounded: the files of `source` arrive one by one.
Copying(step, source) == call' = [call EXCEPT !.step = step, !.left = Present(source)]
Copied(f) == call' = [call EXCEPT !.left = @ \ {f}]
Done(step) == At(step) /\ call.left = {}

Idle == [op |-> "none", step |-> "idle", to |-> 1, candidate |-> Empty, left |-> {}, tries |-> 0]
Down == [Idle EXCEPT !.op = "start", !.step = "down"]
-----------------------------------------------------------------------------
(* apply_update.                                                           *)

\* check_update, then the package is staged and the candidate tree built: a
\* delta package holds the changed files only, the others come from the
\* installation.
Begin(v, delta) ==
  /\ At("idle") /\ v > version
  /\ call' = [call EXCEPT !.op = "apply", !.step = "staged", !.to = v,
                !.candidate = IF delta THEN [f \in Files |-> IF f \in Hot THEN v ELSE install[f]]
                                       ELSE Release(v)]
  /\ UNCHANGED <<disk, version, holes, faults>>

\* An earlier call has failed in this session and left a journal that the
\* next start needs.
JournalNeeded ==
  /\ journal # None
  /\ \/ journal.phase \in {"BackedUp", "Applying"} /\ install # Release(journal.from)
     \/ journal.phase = "Committed" /\ saved # journal.to

WriteStaged ==
  /\ At("staged")
  /\ journal' = [from |-> version, to |-> call.to, phase |-> "Staged"]
  /\ holes' = IF JournalNeeded THEN holes \cup {"retry"} ELSE holes
  /\ Goto("backup")
  /\ UNCHANGED <<install, backup, saved, version, faults>>

\* recreate_directory of the backup: its files go one by one, then the
\* directory, and only then is there an empty one.  apply_staged_update takes
\* the backup a second time.
TakesBackup == At("backup") \/ At("retake")

RemoveFromBackup(f) ==
  /\ TakesBackup /\ backup # None /\ f \in Present(backup)
  /\ backup' = [backup EXCEPT ![f] = None]
  /\ UNCHANGED <<install, journal, saved, version, call, holes, faults>>

RemoveBackup ==
  /\ TakesBackup /\ backup = Empty
  /\ backup' = None
  /\ UNCHANGED <<install, journal, saved, version, call, holes, faults>>

Backup ==
  /\ At("backup") /\ backup = None
  /\ backup' = Empty
  /\ Copying("backingUp", install)
  /\ UNCHANGED <<install, journal, saved, version, holes, faults>>

CopyToBackup(f) ==
  /\ At("backingUp") \/ At("retaking")
  /\ f \in call.left
  /\ backup' = [backup EXCEPT ![f] = install[f]]
  /\ Copied(f)
  /\ UNCHANGED <<install, journal, saved, version, holes, faults>>

MarkBackedUp ==
  /\ Done("backingUp")
  /\ journal' = [journal EXCEPT !.phase = "BackedUp"]
  /\ Goto("backedUp")
  /\ UNCHANGED <<install, backup, saved, version, holes, faults>>

MarkApplying ==
  /\ At("backedUp")
  /\ journal' = [journal EXCEPT !.phase = "Applying"]
  /\ Goto("retake")
  /\ UNCHANGED <<install, backup, saved, version, holes, faults>>

Retake ==
  /\ At("retake") /\ backup = None
  /\ backup' = Empty
  /\ Copying("retaking", install)
  /\ UNCHANGED <<install, journal, saved, version, holes, faults>>

\* recreate_directory of the installation.  Without its files it reads the
\* same whether the directory itself is there or not.
RemoveFromInstall(f) ==
  /\ \/ Done("retaking")
     \/ call.step \in {"undo", "restore", "roll"} /\ backup # None
  /\ f \in Present(install)
  /\ install' = [install EXCEPT ![f] = None]
  /\ UNCHANGED <<backup, journal, saved, version, call, holes, faults>>

Replace ==
  /\ Done("retaking") /\ install = Empty
  /\ Copying("replacing", call.candidate)
  /\ UNCHANGED <<disk, version, holes, faults>>

CopyCandidate(f) ==
  /\ At("replacing") /\ f \in call.left
  /\ install' = [install EXCEPT ![f] = call.candidate[f]]
  /\ Copied(f)
  /\ UNCHANGED <<backup, journal, saved, version, holes, faults>>

\* The files of the package are verified, then the journal is committed.
Commit ==
  /\ Done("replacing")
  /\ journal' = [journal EXCEPT !.phase = "Committed"]
  /\ version' = call.to
  /\ Goto("settled")
  /\ UNCHANGED <<install, backup, saved, holes, faults>>

\* Mutant: the journal goes before the version is on disk.
ClearFirst ==
  /\ At("settled")
  /\ journal' = None
  /\ Goto("clearing")
  /\ UNCHANGED <<install, backup, saved, version, holes, faults>>

PersistState ==
  /\ At("settled")
  /\ saved' = version
  /\ Goto("clearing")
  /\ UNCHANGED <<install, backup, journal, version, holes, faults>>

Clear ==
  /\ At("clearing")
  /\ journal' = None
  /\ call' = Idle
  /\ UNCHANGED <<install, backup, saved, version, holes, faults>>
-----------------------------------------------------------------------------
(* restore_backup: of a failed apply (a copy that fails restores once, and *)
(* apply_update restores again), of a start, of rollback().                *)

Restoring == {"undoing", "restoring", "rolling"}

Restore(from, to) ==
  /\ At(from) /\ backup # None /\ install = Empty
  /\ Copying(to, backup)
  /\ UNCHANGED <<disk, version, holes, faults>>

Undo == Restore("undo", "undoing")
Recover == Restore("restore", "restoring")
RollOut == Restore("roll", "rolling")

CopyBack(f) ==
  /\ call.step \in Restoring /\ f \in call.left
  /\ install' = [install EXCEPT ![f] = backup[f]]
  /\ Copied(f)
  /\ UNCHANGED <<backup, journal, saved, version, holes, faults>>

UndoAgain ==
  /\ Done("undoing") /\ call.tries = 2
  /\ call' = [call EXCEPT !.step = "undo", !.tries = 1]
  /\ UNCHANGED <<disk, version, holes, faults>>

\* Mutant: the second restore starts the first one again.
UndoneLoops ==
  /\ Done("undoing") /\ call.tries = 1
  /\ call' = [call EXCEPT !.step = "undo", !.tries = 2]
  /\ UNCHANGED <<disk, version, holes, faults>>

\* The error is returned and the journal stays.
Undone ==
  /\ Done("undoing") /\ call.tries = 1
  /\ saved' = version
  /\ call' = Idle
  /\ UNCHANGED <<install, backup, journal, version, holes, faults>>

\* "backup is missing".
UndoWithoutBackup ==
  /\ At("undo") /\ backup = None
  /\ saved' = version
  /\ call' = Idle
  /\ UNCHANGED <<install, backup, journal, version, holes, faults>>

RecoverWithoutBackup ==
  /\ At("restore") /\ backup = None
  /\ call' = Down
  /\ UNCHANGED <<disk, version, holes, faults>>

\* rollback(), a call of its own: no journal, and current_version is kept.
RollBack ==
  /\ At("idle") /\ backup # None
  /\ Goto("roll")
  /\ holes' = holes \cup {"rollback"}
  /\ UNCHANGED <<disk, version, faults>>

RolledBack ==
  /\ Done("rolling")
  /\ saved' = version
  /\ call' = Idle
  /\ UNCHANGED <<install, backup, journal, version, holes, faults>>

\* repair(): files that differ from the package are rewritten, each
\* atomically.  Nothing compares the package's version with the installed one.
Repair(v) ==
  /\ At("idle")
  /\ call' = [call EXCEPT !.step = "repairing", !.to = v,
                !.left = {f \in Files : install[f] # Release(v)[f]}]
  /\ holes' = IF v # version THEN holes \cup {"repair"} ELSE holes
  /\ UNCHANGED <<disk, version, faults>>

RepairFile(f) ==
  /\ At("repairing") /\ f \in call.left
  /\ install' = [install EXCEPT ![f] = Release(call.to)[f]]
  /\ Copied(f)
  /\ UNCHANGED <<backup, journal, saved, version, holes, faults>>

Repaired ==
  /\ Done("repairing")
  /\ saved' = version
  /\ call' = Idle
  /\ UNCHANGED <<install, backup, journal, version, holes, faults>>
-----------------------------------------------------------------------------
(* new_with_paths: load_state and recover_interrupted_update.              *)

\* Mutant: an interrupted replacement is taken for one that never began.
StartIgnoresApplying ==
  /\ At("down")
  /\ version' = IF journal # None /\ journal.phase = "Committed" THEN journal.to ELSE saved
  /\ IF journal = None THEN call' = Idle
     ELSE Goto(IF journal.phase = "BackedUp" THEN "restore" ELSE "settled")
  /\ UNCHANGED <<disk, holes, faults>>

Start ==
  /\ At("down")
  /\ version' = IF journal # None /\ journal.phase = "Committed" THEN journal.to ELSE saved
  /\ IF journal = None THEN call' = Idle
     ELSE Goto(IF journal.phase \in {"BackedUp", "Applying"} THEN "restore" ELSE "settled")
  /\ UNCHANGED <<disk, holes, faults>>

Recovered ==
  /\ Done("restoring")
  /\ version' = journal.from
  /\ Goto("settled")
  /\ UNCHANGED <<disk, holes, faults>>
-----------------------------------------------------------------------------
(* Faults.                                                                 *)

\* The backup that the journal points to is incomplete.
Unprotected == \/ At("retake") /\ backup # install
               \/ At("retaking") /\ call.left # {}

Interrupted == /\ faults < MaxFaults
               /\ faults' = faults + 1
               /\ holes' = IF Unprotected THEN holes \cup {"retake"} ELSE holes

Crash == /\ ~At("down") /\ Interrupted
         /\ call' = Down
         /\ UNCHANGED <<disk, version>>

Quit == /\ At("idle") /\ call' = Down /\ UNCHANGED <<disk, version, holes, faults>>

\* The file-system call at hand fails.  A failed replacement is undone; every
\* other error is returned, and a start that fails leaves the program without
\* an updater until the next one.
RestoreAgain(tries) == call' = [call EXCEPT !.step = "undo", !.tries = tries]

FailureUndone ==
  /\ Interrupted
  /\ \/ call.step \in {"retake", "retaking"} /\ RestoreAgain(1)
     \/ At("replacing") /\ call.left # {} /\ RestoreAgain(2)
     \/ call.step \in {"undo", "undoing"} /\ call.tries = 2 /\ RestoreAgain(1)
  /\ UNCHANGED <<disk, version>>

LastUndo == call.step \in {"undo", "undoing"} /\ call.tries = 1

FailureReturned ==
  /\ Interrupted
  /\ \/ call.step \notin {"idle", "down", "retake", "retaking", "replacing", "undo", "undoing"}
     \/ Done("replacing") \/ LastUndo
  /\ call' = IF call.op = "start" THEN Down ELSE Idle
  /\ saved' = IF LastUndo THEN version ELSE saved
  /\ journal' \in IF At("clearing") THEN {journal, None} ELSE {journal}
  /\ UNCHANGED <<install, backup, version>>
-----------------------------------------------------------------------------
Init == /\ version \in Versions
        /\ install = Release(version) /\ backup = None
        /\ journal = None /\ saved = version
        /\ call = Idle /\ holes = {} /\ faults = 0

Requests == \/ \E v \in Versions : Begin(v, TRUE) \/ Begin(v, FALSE) \/ Repair(v)
            \/ RollBack \/ Quit

Proceeds ==
  \/ WriteStaged \/ RemoveBackup \/ Backup \/ MarkBackedUp \/ MarkApplying \/ Retake \/ Replace
  \/ Commit \/ PersistState \/ Clear
  \/ Undo \/ UndoWithoutBackup \/ UndoAgain \/ Undone \/ RollOut \/ RolledBack \/ Repaired
  \/ Start \/ Recover \/ RecoverWithoutBackup \/ Recovered
  \/ \E f \in Files : RemoveFromBackup(f) \/ CopyToBackup(f) \/ RemoveFromInstall(f)
                     \/ CopyCandidate(f) \/ CopyBack(f) \/ RepairFile(f)

Next == Requests \/ Proceeds \/ Crash \/ FailureUndone \/ FailureReturned

Spec == Init /\ [][Next]_vars

\* A call runs on until it returns, and the user starts the program again.
FairSpec == Spec /\ WF_vars(Proceeds)
-----------------------------------------------------------------------------
(* Properties.                                                             *)

Steps == {"down", "idle", "staged", "backup", "backingUp", "backedUp", "retake", "retaking",
          "replacing", "settled", "clearing", "undo", "undoing", "restore", "restoring",
          "roll", "rolling", "repairing"}

Calls == [op : {"none", "apply", "start"}, step : Steps, to : Versions,
          candidate : Trees, left : SUBSET Files, tries : 0..2]

\* Every variable has its type; a journal always records an upgrade
\* (DowngradeDisallowed in check_update).
TypeOK ==
  /\ install \in Trees /\ backup \in Trees \cup {None}
  /\ journal \in Journals \cup {None}
  /\ journal # None => journal.from < journal.to
  /\ saved \in Versions /\ version \in Versions
  /\ call \in Calls
  /\ holes \subseteq {"retake", "retry", "rollback", "repair"}
  /\ faults \in 0..MaxFaults

\* What the next start of the program ends up with.
RestartVersion ==
  IF journal = None THEN saved
  ELSE IF journal.phase = "Staged" THEN saved
  ELSE IF journal.phase = "Committed" THEN journal.to ELSE journal.from

RestartTree ==
  IF journal # None /\ journal.phase \in {"BackedUp", "Applying"} THEN backup ELSE install

Exposed == holes # {} \/ Unprotected

\* However often the program crashes and whatever calls fail, the next start
\* ends with one complete release and knows which one, unless an interruption
\* hit one of four windows: the second backup, a retry over a journal that is
\* still needed, an explicit rollback(), a repair with another version's
\* package (apply_update, recover_interrupted_update).
RestartIsSound == ~Exposed => RestartTree = Release(RestartVersion)

\* Outside those windows an update takes effect at one instant, and the
\* version a restart finds never goes back.
Durable == INSTANCE DurableInstall
             WITH version <- RestartVersion, tree <- RestartTree, exposed <- Exposed
IsDurable == Durable!Spec

\* The running program and the disk agree on the version whenever the updater
\* is idle, so the next check_update compares with what is installed.
VersionKnown == At("idle") /\ holes = {} => version = RestartVersion

\* No start gets past restore_backup: the journal asks for a backup that is
\* gone.
Stranded == At("down") /\ backup = None /\ "retake" \in holes
            /\ journal # None /\ journal.phase = "Applying"

\* Every call returns, whatever fails on the way, and every start ends with an
\* updater, unless the program was interrupted between the removal of the old
\* backup and the creation of the second one (recreate_directory): then the
\* backup is gone and every later start fails with "backup is missing".
CallsEnd == call.step # "idle" ~> call.step = "idle" \/ Stranded

(* What the module's first line promises and the code does not keep.       *)

\* "Signed, transactional GhitaBrowser update engine" (updater.rs:1): with
\* updates only, a started program with no journal has a complete release.
Transactional ==
  At("idle") /\ journal = None /\ holes \subseteq {"retake"}
  => \E v \in Versions : install = Release(v)
=============================================================================
