----------------------------- MODULE DurableFiles -----------------------------
(* What the program keeps in files: the installation under the updater, the  *)
(* profile, and the databases of an origin.  They keep different files;      *)
(* `part` says which of them a behaviour is about.                           *)
EXTENDS Updater

\* Of the profile.
CONSTANTS Urls, LongTitled, MaxTreeDepth, LastFolder, LastEdit, MaxCrashes, MaxFailures,
          MaxDamages
\* Of the databases.
CONSTANTS Pages, Databases, Stores, LastKey, Values, MaxRecords, MaxStoreBytes,
          MaxOriginBytes, Quota, LastVersion, MaxTransactions, LastCall

VARIABLES part,
          live, main, spare, tmp, step, quitting, edits, committed, previous,
          crashes, failures, damages,
          open, databases, usage, transactions, file, calls

profileVars == <<live, main, spare, tmp, step, quitting, edits, committed, previous,
                 crashes, failures, damages>>
dbVars == <<open, databases, usage, transactions, file, calls>>

Profile == INSTANCE ProfileStore WITH backup <- spare
Idb == INSTANCE IndexedDb

ASSUME DurableFilesAssumption == Profile!ProfileAssumption /\ Idb!IndexedDbAssumption

allVars == <<part, vars, profileVars, dbVars>>
InUpdater == part = "updater" /\ UNCHANGED <<part, profileVars, dbVars>>
InProfile == part = "profile" /\ UNCHANGED <<part, vars, dbVars>>
InDatabases == part = "databases" /\ UNCHANGED <<part, vars, profileVars>>

FilesInit == part \in {"updater", "profile", "databases"} /\ Init /\ Profile!Init /\ Idb!Init
FilesNext == \/ InUpdater /\ Next
             \/ InProfile /\ Profile!Next
             \/ InDatabases /\ Idb!Next
FilesSpec == FilesInit /\ [][FilesNext]_allVars /\ WF_allVars(InUpdater /\ Proceeds)

\* Stated in ProfileStore and IndexedDb.
SavesSurvive == Profile!SavesSurvive
UniqueIndexHolds == Idb!UniqueIndexHolds
=============================================================================
