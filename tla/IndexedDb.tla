----------------------------- MODULE IndexedDb -----------------------------
(* The IndexedDB of one origin: the engine of src/src/indexeddb.rs as the     *)
(* page runtime of src/src/web_runtime.rs drives it, with the origin's quota  *)
(* (src/src/storage_quota.rs).  Every page of the origin has an engine of its *)
(* own over the same file: it reads the file when it opens and writes it      *)
(* whole at a commit and at the end of every turn.  Pages run on one thread.  *)
EXTENDS Integers, FiniteSets, FiniteSetsExt, Functions

CONSTANTS
  Pages,            \* the pages of the origin that may be open together
  Databases,        \* database names
  Stores,           \* object store names
  LastKey,          \* bound on the record keys, which the generator hands out
  Values,           \* [indexed, keys, size]: whether the key path of the index
                    \* resolves, to which index keys, and the length in bytes
  MaxRecords,       \* MAX_RECORDS_PER_ORIGIN; 100 000 in the code
  MaxStoreBytes,    \* MAX_OBJECT_STORE_VALUE_BYTES; 32 MB in the code
  MaxOriginBytes,   \* MAX_ORIGIN_VALUE_BYTES; 256 MB in the code
  Quota,            \* DEFAULT_ORIGIN_QUOTA_BYTES; 32 MB in the code
  LastVersion,      \* bound on the versions asked for
  MaxTransactions,  \* bound on the transactions left open at once
  LastCall          \* bound on the calls of a behaviour

IndexedDbAssumption ==
  /\ Values \subseteq [indexed : BOOLEAN, keys : SUBSET Nat, size : Nat \ {0}]
  /\ {MaxRecords, MaxStoreBytes, MaxOriginBytes, Quota, LastKey,
      LastVersion, MaxTransactions, LastCall} \subseteq Nat

VARIABLES
  open,         \* the pages that are open
  databases,    \* the databases in the memory of each page
  usage,        \* the bytes each page's quota manager believes are stored
  transactions, \* the transactions open in the engines
  file,         \* what indexeddb.json holds
  calls

vars == <<open, databases, usage, transactions, file, calls>>

Keys == 1 .. LastKey
Absent == [exists |-> FALSE]
Empty == [d \in Databases |-> Absent]

NewStore(auto) ==
  [exists |-> TRUE, auto |-> auto, next |-> 1, records |-> <<>>,
   index |-> "none"]

NewDatabase(version) ==
  [exists |-> TRUE, version |-> version, epoch |-> 0,
   stores |-> [s \in Stores |-> Absent]]

-----------------------------------------------------------------------------
(* Reading databases.  records is a function from the keys in use to values.  *)

StoresOf(dbs) ==
  {l \in Databases \X Stores :
     dbs[l[1]].exists /\ dbs[l[1]].stores[l[2]].exists}

StoreBytes(store) ==
  MapThenSumSet(LAMBDA k : store.records[k].size, DOMAIN store.records)

RecordCount(store) == Cardinality(DOMAIN store.records)

TotalBytes(dbs) ==
  MapThenSumSet(LAMBDA l : StoreBytes(dbs[l[1]].stores[l[2]]), StoresOf(dbs))

TotalRecords(dbs) ==
  MapThenSumSet(LAMBDA l : RecordCount(dbs[l[1]].stores[l[2]]), StoresOf(dbs))

WithinOrigin(dbs) ==
  TotalRecords(dbs) <= MaxRecords /\ TotalBytes(dbs) <= MaxOriginBytes

\* No two records of the store share a key of the index.
NoDuplicates(records) ==
  /\ \A k \in DOMAIN records : records[k].indexed
  /\ \A j, k \in DOMAIN records :
       j # k => records[j].keys \cap records[k].keys = {}

\* Mutant: only the key of the new value is resolved, the others are not read.
ValidIndexesUnread(store, key, value) ==
  store.index = "unique" => value.indexed

\* validate_indexes: what a put must satisfy.  A record whose own key path no
\* longer resolves refuses every other put of the store.
ValidIndexes(store, key, value) ==
  store.index = "unique" =>
    /\ value.indexed
    /\ \A k \in DOMAIN store.records \ {key} :
         /\ store.records[k].indexed
         /\ store.records[k].keys \cap value.keys = {}

Fits(store, key, value) ==
  LET replaced == IF key \in DOMAIN store.records
                  THEN store.records[key].size ELSE 0
  IN  /\ StoreBytes(store) - replaced + value.size <= MaxStoreBytes
      /\ replaced = 0 => RecordCount(store) < MaxRecords

-----------------------------------------------------------------------------
(* The engine.                                                               *)

\* open_db: version 0 asks for none.
MayOpen(dbs, d, version) ==
  dbs[d].exists /\ version # 0 => version >= dbs[d].version

Opened(dbs, d, version) ==
  IF ~ dbs[d].exists
    THEN [dbs EXCEPT ![d] = NewDatabase(IF version = 0 THEN 1 ELSE version)]
  ELSE IF version > dbs[d].version
    THEN [dbs EXCEPT ![d].version = version, ![d].epoch = @ + 1]
  ELSE dbs

\* save_to_disk writes a temporary file and renames it: all or nothing.
SaveOrFail(dbs) == file' \in {file, dbs}

\* The snapshot comes back if the database still has the epoch it had then.
Restored(dbs, t) ==
  IF dbs[t.database].exists /\ dbs[t.database].epoch = t.epoch
  THEN [dbs EXCEPT ![t.database] = t.snapshot] ELSE dbs

OpenTransaction(p, d, version) ==
  /\ MayOpen(databases[p], d, version)
  /\ Cardinality(transactions) < MaxTransactions
  /\ databases' = [databases EXCEPT ![p] = Opened(@, d, version)]
  /\ transactions' = transactions \cup
       {[page |-> p, database |-> d, snapshot |-> databases'[p][d],
         epoch |-> databases'[p][d].epoch]}
  /\ UNCHANGED <<open, usage, file>>

CommitTransaction(t) ==
  /\ transactions' = transactions \ {t}
  /\ IF WithinOrigin(databases[t.page])
       THEN SaveOrFail(databases[t.page]) /\ UNCHANGED databases
       ELSE /\ databases' = [databases EXCEPT ![t.page] = Restored(@, t)]
            /\ UNCHANGED file
  /\ UNCHANGED <<open, usage>>

AbortTransaction(t) ==
  /\ transactions' = transactions \ {t}
  /\ databases' = [databases EXCEPT ![t.page] = Restored(@, t)]
  /\ UNCHANGED <<open, usage, file>>

-----------------------------------------------------------------------------
(* The calls of a page.  Every write that succeeds recounts the quota.       *)

Counted(p) == usage' = [usage EXCEPT ![p] = TotalBytes(databases'[p])]

\* indexedDB.open: the version change is committed before the page sees it.
OpenDatabase(p, d, version) ==
  /\ MayOpen(databases[p], d, version)
  /\ LET dbs == Opened(databases[p], d, version)
     IN  /\ databases' = [databases EXCEPT ![p] = dbs]
         /\ IF WithinOrigin(dbs) THEN SaveOrFail(dbs) ELSE UNCHANGED file
  /\ UNCHANGED <<open, usage, transactions>>

DeleteDatabase(p, d) ==
  /\ databases[p][d].exists
  /\ databases' = [databases EXCEPT ![p][d] = Absent]
  /\ SaveOrFail(databases'[p])
  /\ Counted(p)
  /\ UNCHANGED <<open, transactions>>

CreateObjectStore(p, d, s, auto) ==
  /\ databases[p][d].exists
  /\ ~ databases[p][d].stores[s].exists
  /\ databases' = [databases EXCEPT ![p][d].stores[s] = NewStore(auto),
                                    ![p][d].epoch = @ + 1]
  /\ UNCHANGED <<open, usage, transactions, file>>

DeleteObjectStore(p, d, s) ==
  /\ databases' = [databases EXCEPT ![p][d].stores[s] = Absent,
                                    ![p][d].epoch = @ + 1]
  /\ Counted(p)
  /\ UNCHANGED <<open, transactions, file>>

\* The store's put.  The generated key is spent whether or not the record is
\* taken; key 0 asks for one.
Put(p, d, s, key, value) ==
  LET store == databases[p][d].stores[s]
      actual == IF key = 0 THEN store.next ELSE key
      spent == IF key = 0 THEN [store EXCEPT !.next = @ + 1] ELSE store
  IN  /\ key = 0 => store.auto
      /\ actual \in Keys
      /\ usage[p] + value.size <= Quota
      /\ IF Fits(store, actual, value) /\ ValidIndexes(store, actual, value)
           THEN /\ databases' = [databases EXCEPT ![p][d].stores[s] =
                     [spent EXCEPT !.records =
                        [k \in DOMAIN @ \cup {actual} |->
                           IF k = actual THEN value ELSE @[k]]]]
                /\ Counted(p)
           ELSE /\ databases' = [databases EXCEPT ![p][d].stores[s] = spent]
                /\ UNCHANGED usage
      /\ UNCHANGED <<open, transactions, file>>

Add(p, d, s, key, value) ==
  LET store == databases[p][d].stores[s]
  IN  /\ (IF key = 0 THEN store.next ELSE key) \notin DOMAIN store.records
      /\ Put(p, d, s, key, value)

DeleteRecords(p, d, s, removed) ==
  /\ databases' = [databases EXCEPT ![p][d].stores[s].records =
                     Restrict(@, DOMAIN @ \ removed)]
  /\ Counted(p)
  /\ UNCHANGED <<open, transactions, file>>

Delete(p, d, s, key) == DeleteRecords(p, d, s, {key})
Clear(p, d, s) == DeleteRecords(p, d, s, Keys)

CreateIndex(p, d, s, kind) ==
  /\ databases[p][d].stores[s].index = "none"
  /\ kind = "unique" => NoDuplicates(databases[p][d].stores[s].records)
  /\ databases' = [databases EXCEPT ![p][d].stores[s].index = kind]
  /\ UNCHANGED <<open, usage, transactions, file>>

DeleteIndex(p, d, s) ==
  /\ databases[p][d].stores[s].index # "none"
  /\ databases' = [databases EXCEPT ![p][d].stores[s].index = "none"]
  /\ UNCHANGED <<open, usage, transactions, file>>

-----------------------------------------------------------------------------
(* Pages.                                                                    *)

\* A file over the origin's budget is refused whole, and the page starts empty.
OpenPage(p) ==
  /\ p \notin open
  /\ open' = open \cup {p}
  /\ databases' = [databases EXCEPT ![p] =
                     IF WithinOrigin(file) THEN file ELSE Empty]
  /\ usage' = [usage EXCEPT ![p] = 0]
  /\ UNCHANGED <<transactions, file>>

\* The page goes, by navigation or by a crash, with what it has not saved.
ClosePage(p) ==
  /\ open' = open \ {p}
  /\ databases' = [databases EXCEPT ![p] = Empty]
  /\ transactions' = {t \in transactions : t.page # p}
  /\ UNCHANGED <<usage, file>>

\* flush_pending, at the end of every turn.
EndTurn(p) ==
  /\ SaveOrFail(databases[p])
  /\ UNCHANGED <<open, databases, usage, transactions>>

Init ==
  /\ open = {}
  /\ databases = [p \in Pages |-> Empty]
  /\ usage = [p \in Pages |-> 0]
  /\ transactions = {}
  /\ file = Empty
  /\ calls = 0

StoreCall(p, d, s) ==
  \/ DeleteObjectStore(p, d, s) \/ Clear(p, d, s) \/ DeleteIndex(p, d, s)
  \/ \E key \in Keys \cup {0}, value \in Values :
       Put(p, d, s, key, value) \/ Add(p, d, s, key, value)
  \/ \E key \in Keys : Delete(p, d, s, key)
  \/ \E kind \in {"plain", "unique"} : CreateIndex(p, d, s, kind)

DatabaseCall(p, d) ==
  \/ \E version \in 0 .. LastVersion :
       OpenDatabase(p, d, version) \/ OpenTransaction(p, d, version)
  \/ DeleteDatabase(p, d)
  \/ \E s \in Stores, auto \in BOOLEAN : CreateObjectStore(p, d, s, auto)

Next ==
  \/ /\ calls < LastCall
     /\ calls' = calls + 1
     /\ \/ \E p \in open, d \in Databases : DatabaseCall(p, d)
        \/ \E p \in open :
             \E l \in StoresOf(databases[p]) : StoreCall(p, l[1], l[2])
        \/ \E t \in transactions : CommitTransaction(t) \/ AbortTransaction(t)
        \/ \E p \in Pages : OpenPage(p)
        \/ \E p \in open : ClosePage(p) \/ EndTurn(p)

Spec == Init /\ [][Next]_vars
-----------------------------------------------------------------------------
(* Properties.                                                               *)

EveryStore(P(_)) ==
  \A dbs \in {databases[p] : p \in open} \cup {file} :
    \A l \in StoresOf(dbs) : P(dbs[l[1]].stores[l[2]])

\* A unique index is unique, in every page and in the file: through writes
\* before and after it was made, restored snapshots and reloads.
UniqueIndexHolds ==
  EveryStore(LAMBDA store :
               store.index = "unique" => NoDuplicates(store.records))

\* What a page saves, the next page can load.
SavedStateLoads == WithinOrigin(file)

=============================================================================
