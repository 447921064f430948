---------------------------- MODULE ProfileStore ----------------------------
(* The profile of the browser (src/src/storage.rs): everything the user keeps *)
(* is one JSON file, written whole by StorageManager::save and read at start. *)
(* A save writes a temporary file, moves the old file aside as the backup and *)
(* moves the new one in; the program may die, or a call of the file system    *)
(* fail, at every step.  Of the contents the model keeps the bookmarks, which *)
(* the profile holds twice: a flat list and a tree (src/src/bookmarks.rs).    *)
EXTENDS Naturals, FiniteSets

CONSTANTS
  Urls,           \* pages that may be bookmarked
  LongTitled,     \* those whose title is longer than the tree's 4096 bytes
  MaxTreeDepth,   \* the depth validate_tree accepts; 32 in the code
  LastFolder,     \* bound on the folder identities handed out
  LastEdit,       \* bound on the edits of a behaviour
  MaxCrashes,     \* bound on the crashes
  MaxFailures,    \* bound on the file-system calls that fail
  MaxDamages      \* bound on how often the profile file is damaged from outside

ProfileAssumption ==
  /\ LongTitled \subseteq Urls
  /\ {MaxTreeDepth, LastFolder, LastEdit} \subseteq Nat \ {0}
  /\ {MaxCrashes, MaxFailures, MaxDamages} \subseteq Nat

Root == 1

VARIABLES
  live,       \* the StorageManager of the running program, or Off
  main,       \* storage.json
  backup,     \* storage.json.bak
  tmp,        \* storage.json.tmp
  step,       \* where the save in progress is, or "idle"
  quitting,   \* the save in progress is the one of Drop
  edits,      \* how many edits were made; each profile carries its own number
  committed,  \* history: the edit number of the last completed save
  previous,   \* history: and of the one before it
  crashes, failures, damages

disk == <<main, backup, tmp>>
faults == <<crashes, failures, damages>>
vars == <<live, disk, step, quitting, edits, committed, previous, faults>>

Off == [running |-> FALSE]
Absent == [file |-> "absent"]
Torn == [file |-> "torn"]        \* unreadable: half-written, damaged, too new

-----------------------------------------------------------------------------
(* Bookmarks.  folders maps a folder to its depth, marks says what it holds.  *)

NewTree == [folders |-> [f \in {Root} |-> 0], marks |-> {}]

Profile(edit, flat, tree) ==
  [running |-> TRUE, edit |-> edit, flat |-> flat, tree |-> tree]

Defaults == Profile(0, {}, NewTree)

\* validate_tree: bookmarks count one level below their folder.
ValidTree(tree) ==
  /\ \A f \in DOMAIN tree.folders : tree.folders[f] <= MaxTreeDepth
  /\ \A m \in tree.marks : /\ tree.folders[m[1]] < MaxTreeDepth
                           /\ m[2] \notin LongTitled

\* apply_state: a tree that does not validate is replaced by an empty one, and
\* an empty tree is filled from the flat list.
Restored(p) ==
  LET kept == IF ValidTree(p.tree) THEN p.tree ELSE NewTree
      empty == DOMAIN kept.folders = {Root} /\ kept.marks = {}
      tree == IF empty THEN [kept EXCEPT !.marks = {Root} \X p.flat] ELSE kept
  IN  [p EXCEPT !.tree = tree]

MarkedUrls(tree) == {m[2] : m \in tree.marks}

-----------------------------------------------------------------------------
(* Edits, each numbered.                                                     *)

Idle == live.running /\ step = "idle"

Edited(flat, tree) ==
  /\ edits < LastEdit
  /\ edits' = edits + 1
  /\ live' = Profile(edits + 1, flat, tree)
  /\ UNCHANGED <<disk, quitting, committed, previous, faults>>

\* toggle_bookmark saves nothing: the change waits for the next save.
Toggle(u) ==
  /\ Idle
  /\ IF u \in live.flat
       THEN Edited(live.flat \ {u},
                   [live.tree EXCEPT !.marks = {m \in @ : m[2] # u}])
       ELSE Edited(live.flat \cup {u},
                   [live.tree EXCEPT !.marks = @ \cup {<<Root, u>>}])
  /\ UNCHANGED step

RemoveBookmark(u) ==
  /\ Idle
  /\ Edited(live.flat \ {u}, [live.tree EXCEPT !.marks = {m \in @ : m[2] # u}])
  /\ UNCHANGED step

AddToFolder(f, u) ==
  /\ Idle
  /\ f \in DOMAIN live.tree.folders
  /\ Edited(live.flat \cup {u},
            [live.tree EXCEPT !.marks = @ \cup {<<f, u>>}])
  /\ step' = "create"

\* Folders are never removed, so their identities are 1 .. n.
NextFolder == Cardinality(DOMAIN live.tree.folders) + 1

CreateFolder(parent) ==
  /\ Idle
  /\ parent \in DOMAIN live.tree.folders
  /\ NextFolder <= LastFolder
  /\ Edited(live.flat,
            [live.tree EXCEPT !.folders =
               [f \in DOMAIN @ \cup {NextFolder} |->
                  IF f = NextFolder THEN @[parent] + 1 ELSE @[f]]])
  /\ step' = "create"

-----------------------------------------------------------------------------
(* Saving: persist_session, a changed setting or permission, or Drop.        *)

BeginSave ==
  /\ Idle
  /\ step' = "create"
  /\ UNCHANGED <<live, disk, quitting, edits, committed, previous, faults>>

Quit ==
  /\ Idle
  /\ step' = "create"
  /\ quitting' = TRUE
  /\ UNCHANGED <<live, disk, edits, committed, previous, faults>>

\* save() returns: the program goes on, or was on its way out.
Returned ==
  /\ step' = "idle"
  /\ quitting' = FALSE
  /\ live' = IF quitting THEN Off ELSE live

At(s) == live.running /\ step = s

CreateTemporary ==
  /\ At("create")
  /\ tmp' = Torn
  /\ step' = "write"
  /\ UNCHANGED <<live, main, backup, quitting, edits, committed, previous,
                 faults>>

WriteAndSync ==
  /\ At("write")
  /\ tmp' = live
  /\ step' = IF main = Absent THEN "install"
             ELSE IF backup = Absent THEN "aside" ELSE "drop"
  /\ UNCHANGED <<live, main, backup, quitting, edits, committed, previous,
                 faults>>

RemoveBackup ==
  /\ At("drop")
  /\ backup' = Absent
  /\ step' = "aside"
  /\ UNCHANGED <<live, main, tmp, quitting, edits, committed, previous,
                 faults>>

\* Mutant: the profile is removed before its backup is made.
MoveAsideForgets ==
  /\ At("aside")
  /\ main' = Absent
  /\ step' = "install"
  /\ UNCHANGED <<live, backup, tmp, quitting, edits, committed, previous,
                 faults>>

MoveAside ==
  /\ At("aside")
  /\ backup' = main
  /\ main' = Absent
  /\ step' = "install"
  /\ UNCHANGED <<live, tmp, quitting, edits, committed, previous, faults>>

Install ==
  /\ At("install")
  /\ main' = tmp
  /\ tmp' = Absent
  /\ previous' = committed
  /\ committed' = live.edit
  /\ Returned
  /\ UNCHANGED <<backup, edits, faults>>

\* A call fails: the temporary file goes, and when the last rename failed the
\* backup is moved back, unless that fails too.
CallFails ==
  /\ step # "idle"
  /\ live.running
  /\ failures < MaxFailures
  /\ failures' = failures + 1
  /\ tmp' = Absent
  /\ \/ UNCHANGED <<main, backup>>
     \/ /\ step = "install" /\ backup # Absent /\ main = Absent
        /\ main' = backup
        /\ backup' = Absent
  /\ Returned
  /\ UNCHANGED <<edits, committed, previous, crashes, damages>>

-----------------------------------------------------------------------------
(* Starting, crashing, damage.                                               *)

Good(file) == file \notin {Absent, Torn}

\* What load() would apply now.
Readable ==
  IF Good(main) THEN main ELSE IF Good(backup) THEN backup ELSE Defaults

Start ==
  /\ live = Off
  /\ live' = Restored(Readable)
  /\ UNCHANGED <<disk, step, quitting, edits, committed, previous, faults>>

Crash ==
  /\ live.running
  /\ crashes < MaxCrashes
  /\ crashes' = crashes + 1
  /\ live' = Off
  /\ step' = "idle"
  /\ quitting' = FALSE
  /\ UNCHANGED <<disk, edits, committed, previous, failures, damages>>

\* The profile file becomes unreadable while no program runs.
Damage ==
  /\ live = Off
  /\ Good(main)
  /\ damages < MaxDamages
  /\ damages' = damages + 1
  /\ main' = Torn
  /\ UNCHANGED <<live, backup, tmp, step, quitting, edits, committed, previous,
                 crashes, failures>>

Init ==
  /\ live = Off
  /\ main = Absent
  /\ backup = Absent
  /\ tmp = Absent
  /\ step = "idle"
  /\ quitting = FALSE
  /\ edits = 0
  /\ committed = 0
  /\ previous = 0
  /\ crashes = 0
  /\ failures = 0
  /\ damages = 0

Next ==
  \/ \E u \in Urls : Toggle(u) \/ RemoveBookmark(u)
  \/ \E f \in 1 .. LastFolder, u \in Urls : AddToFolder(f, u)
  \/ \E f \in 1 .. LastFolder : CreateFolder(f)
  \/ BeginSave \/ Quit
  \/ CreateTemporary \/ WriteAndSync \/ RemoveBackup \/ MoveAside \/ Install
  \/ CallFails
  \/ Start \/ Crash \/ Damage

Spec == Init /\ [][Next]_vars
-----------------------------------------------------------------------------
(* Properties.                                                               *)

\* Whatever step of a save a crash or a failed call interrupts, and however
\* often, the next start reads the last save that completed.
SavedStateSurvives == damages = 0 => Readable.edit = committed

\* One fault of any kind costs at most the last save: also when the profile
\* itself was damaged, a start finds it or the save before it.
OneFaultCostsOneSave ==
  live = Off /\ crashes + failures + damages <= 1 =>
    Readable.edit \in {committed, previous}

\* What the user saved survives: crashes and failed calls alone cost nothing that was saved, and
\* one fault of any kind costs at most the last save (storage.rs save_profile, load_profile).
SavesSurvive == SavedStateSurvives /\ OneFaultCostsOneSave

=============================================================================
