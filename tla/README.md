# A verification project for GhitaBrowser

GhitaBrowser is a desktop browser written in Rust (`src/src`, about 80 000 lines). This directory
holds TLA+ models of the parts in which several actors, crashes, retries or long sequences of calls
meet, the TLC configurations that check them on small instances, and proofs, checked by TLAPS, that
hold for every instance. The source is the reference: every operator of a model stands for the lines
that `PROJECT.json` names for it.

Paths below are relative to the repository's `src` directory unless they say otherwise.

## 1. The system and its parts

| part | files | state | operations | modules |
|---|---|---|---|---|
| Cancellation token | `network_scheduler.rs` | an atomic flag, a `Notify` | `cancel`, `cancelled().await` | `CancellationToken` |
| Network scheduler | `network_scheduler.rs`, `network.rs` | queued counter, semaphore | `fetch`: admission, permit, transport, retries, timeouts | `NetworkScheduler`, `BoundedService` |
| Long connections | `realtime.rs`, `messaging.rs` | a client, a thread, two bounded channels | send, poll, close, reconnect, release | `Realtime` |
| Process control plane | `process_coordinator.rs`, `child_process.rs`, `crash_recovery.rs`, `process_architecture.rs` | process table, pipes, tab bindings | start, attach a tab, heartbeat and recover, watchdog | `ProcessCoordinator` |
| Render worker | `worker.rs`, `sandbox.rs`, `ipc.rs` | one process per document, three pipes | write, read, deadlines, kill | `WorkerExchange` |
| Tabs | `tab.rs` | document, history, snapshot, runtime; strip, closed tabs | navigate, back, sleep, wake, discard, close, reopen | `Tab`, `TabManager` |
| User interface | `ui.rs` | load numbers, tokens, searches, image batches, display list | the messages that start, answer or drop a load | `Navigation` |
| Live player | `youtube.rs`, `ui.rs`, `media_runtime.rs`, `audio_output.rs` | element, pipeline with its clock, sink | tick, play, pause, seek, tab switch | `LivePlayback`, `MediaElement` |
| Media sources | `mse.rs`, `html_media.rs` | buffers, samples, budgets | append, remove, duration, end of stream, play | `SourceBuffers`, `MediaElement` |
| Updater | `updater.rs`, `fs_atomic.rs` | installation, backup, journal, state file | check, apply, recover at start, rollback, repair | `Updater`, `DurableInstall` |
| Profile | `storage.rs`, `bookmarks.rs` | one JSON file, a temporary file, a backup | save, load, recover | `ProfileStore` |
| IndexedDB | `indexeddb.rs`, `storage_quota.rs` | stores, one index each, snapshots, a file per origin | open, upgrade, transactions, commit, abort, persist, reload | `IndexedDb` |
| Event loop of a page | `web_runtime.rs` | timers, frames, queued events, observers, budgets | turns and the calls of scripts inside callbacks | `PageLoop` |
| Document of a page | `live_dom.rs`, `dynamic_render.rs` | one store of nodes, shadow records, dirt | create, clone, append, remove, markup, shadow roots, refresh | `LiveDocument` |
| Styles | `dynamic_render.rs`, `css_parser.rs` | cached styles with their fingerprints | cascade, edit, refresh | `StyleCascade` |
| Script heap | `runtime_core.rs` | slots with generations, free list, totals | allocate, properties, mark and sweep | `BoundedHeap` |
| Promises | `javascript.rs`, `web_runtime.rs` | cells, reactions by address, jobs | then, catch, finally, drain, a turn's end | `PromiseJobs` |
| Script engine | `javascript.rs` | values, environments, budgets | parse, evaluate, objects and collections | `ScriptParser`, `ScriptControl`, `ScriptObjects` |
| WebAssembly | `wasm.rs`, `wasm_interp.rs` | operand stack, frames, memory | validate, instantiate, call | `WasmCode` |

Not modelled, each with its reason in `PROJECT.json`: the session (pins, groups, restore), caches and
service workers, background workers, atomic files, the shell, the document pipeline, the compositor,
extensions, content filtering, downloads, passwords, memory gauges, search requests, release tools, the
main functions of the children, and state machines that only tests call.

### How they interact

* **The UI thread is one actor.** `GhitaBrowserApp::update` handles one message at a time. A fetch, a
  search and an image batch run elsewhere and come back as a message with a tab and a load number, so
  the interleavings of user, timers and answers are those of whole `update` arms (`Navigation`).
* **A load owns a cancellation token.** It goes to the scheduler, where a call waits for a permit, runs
  its transport and may be cancelled at any await (`Transfers` = scheduler and token). `Navigation`
  treats the scheduler as "every command answers once"; `BoundedService` and `Answered` are what
  `NetworkScheduler` promises about that.
* **Child processes are other actors.** The browser writes a command to a pipe, however long that takes, and
  then waits up to 15 s for a line; the child may exit or hang between any two steps (`ProcessCoordinator`). The render worker has
  three pipes of limited capacity, each with a thread (`WorkerExchange`).
* **The file system is shared with the next run of the program** (`Updater`, `ProfileStore`) **and by
  the pages of an origin** (`IndexedDb`): `DurableFiles` puts the three side by side.
* **A page is single-threaded and re-entrant.** Callbacks call back into the timers, queues, observers,
  document, promises and heap that are being walked (`PageLoop`; `EngineState` = heap, promises and
  document). Its sockets run on threads of their own (`Realtime`).
* **A message of the user interface starts the live player**, which asks only whether its tab is in front
  (`Views` = navigation, player and a page that feeds a media element).

### What is hard, and what must hold

| part | hard | correct when |
|---|---|---|
| Token | cancel between the flag check and the await | a cancelled waiter never sleeps on |
| Scheduler | racing admissions, five exits with a permit, cancel against answer | permits and places conserved, bound kept, every call answered once |
| Connections | full channels on both sides, close against reconnect | close ends, the thread is released |
| Processes | crashes between spawn, registration, command and replacement | sites isolated, no forgotten child, a sweep replaces what is dead |
| Worker | three bounded pipes, two deadlines, a child that stops reading | an exchange ends; a healthy child is answered |
| Navigation | late answers, tabs closed, slept or switched while loading | the page asked for arrives, superseded loads are cancelled, history is sound |
| Player, sources | two clocks and a seek; overlapping segments and a refused one | pictures follow the controls; samples never overlap |
| Updater | crash or failure at every step, retries, failed undo | a restart finds one whole release and knows which |
| Profile, IndexedDB | crash between renames; aborts, quotas and two engines on one file | a completed save survives; a unique index stays unique |
| Event loop | callbacks that clear, set and queue what the turn is walking | a cleared timer never fires, queues drain |
| Document, styles | calls that fail half-way, moves, shadow trees, a cache | the tree is one, the picture is the document, no style is stale |
| Heap, promises | totals over collections, stale handles, reused addresses | exactly the garbage goes; a promise is settled once, by one job |
| Engines | budgets, jumps through `finally`, branches without trees | what runs is what the tree says |

The 40 hazards in `PROJECT.json` list these at their lines, each with the properties that watch it.

## 2. The modules

    CancellationToken ---------\
    BoundedService <-- NetworkScheduler == Transfers ---- NetworkSchedulerProofs
    ProcessCoordinator ---------------------------------- ProcessCoordinatorProofs
    Tab, TabManager == Navigation =\\
    MediaElement -- LivePlayback --- Views -------------- NavigationProofs
                 -- SourceBuffers --/
    DurableInstall <-- Updater =\\
    ProfileStore, IndexedDb ----- DurableFiles ---------- DurableFilesProofs
    BoundedHeap ===\\
    PromiseJobs, LiveDocument --- EngineState ----------- EngineStateProofs, DocumentProofs
    StyleCascade --/
    PageLoop -------------------------------------------- PageLoopProofs
    Realtime, WorkerExchange, ScriptObjects,
    ScriptParser, ScriptControl, WasmCode (inputs of the last three in Samples)

`==` extends, `--` instantiates, `<--` is implemented by. `DataLemmas` holds what four proof
modules need about duplicate-free sequences and their filters, flattened lists, induction over the naturals, recursive
functions and sums over finite sets. The `MC` modules give constants their values and put components that share no state
side by side in one run: a variable `part`, chosen at the start, says which of them a behaviour is about.

**CancellationToken.** `cancel()` is two steps (store, notify), `cancelled()` four (create the future,
check, await, wake). A tokio `Notified` future is complete once `notify_waiters` ran after it was created;
`epoch` and `seen` say that.

**NetworkScheduler.** `pc[r]` says between which two accesses to shared state a call of `fetch()` stands;
one step is what a poll does between them. The semaphore is FIFO, a dropped `acquire_owned` leaves the
queue, and a released permit goes to its head. The transport may do anything: succeed, fail in a way that
is retried or not, or stay silent. `BoundedService` is what callers rely on: at most `Capacity` calls in
service, each call answered once, no success for a call that was withdrawn.

**Realtime.** A client that the script polls, a thread that owns the connection, two channels. Nothing
ever waits for room: what does not fit is lost, which is where the interesting behaviours come from.

**ProcessCoordinator.** A call is a sequence of steps (`pc`, `target`, `sweep`, `respawn`) between which
children exit or hang; `SendAnswered`/`SendFails` are the round trip with all its ways to end, and `NavigateBlocks`
is the write of a command that a hung child does not read. `lost` is a history variable. **WorkerExchange** is one document: the
browser, its three pipe threads and the child.

**Tab, TabManager, Navigation.** `Tab` and `TabManager` are operators, as the Rust methods are functions of
`&mut self`. `Navigation` has one action per `update` arm, with everything the arm calls
(`after_tab_change`, `rebuild_display_list`, `schedule_image_loading`, `invalidate_active_tab_loads`) inside
it. `asked` is a history variable: what the user last asked each tab to show, and whether the browser itself has put
another page in its place since (`Diverted`).

**MediaElement, LivePlayback, SourceBuffers.** The element is a record with functions; the live player adds
the pipeline, whose clock counts frames of sound and runs by itself, and the device's sink; each conversion between
microseconds, frames and seconds loses what the code's loses; the source buffers add parsed segments,
plans, budgets and the rollback of a refused append. `reached`, `rewound` and `ticks` are history variables.

**DurableInstall, Updater.** A tree says which release each file of the directory comes from. Every
file-system call is a step: files are removed and copied one at a time, and a directory is gone before the new one
is made (`recreate_directory`). `Crash` may happen anywhere;
`FailureUndone` and `FailureReturned` are a call that fails, with the undo the code makes. `holes` is a
history variable that records that one of four named windows was hit: an interruption while the second
backup is incomplete (`retake`), a retry over a journal that the next start still needs (`retry`), an
explicit `rollback()`, a `repair()` with a package of another version.

**ProfileStore** has the save step by step, crashes, failed calls and damage from outside; **IndexedDb** has
an engine per page over one file, with the snapshots of transactions and the file's budget.

**PageLoop.** One step is one callback's start, one API call inside it, or one move of the loop; `LastCall`
bounds the calls; `dropped` records the observers that found the list of scheduled ones full. **PromiseJobs** keeps what waits for
a promise by the address of its cell, in a table that
belongs to the turn, as the code does; `owed`, a cell's `id` and `quiet` and a reaction's `of` are history. **BoundedHeap** has one step per turn
of the mark loop; its reference (`Reachable`) is the least closed set, written without that loop.

**LiveDocument** is one store of nodes with shadow roots as records beside it; every call that may fail
half-way has its partial effects. **StyleCascade** compares the refreshed cache with a cascade from nothing.

**ScriptParser, ScriptControl, ScriptObjects, WasmCode** are algorithms: the parser against a printer, the
evaluator against a reference for jumps and budgets, objects against the history of calls, and the byte-level
interpreter against the meaning of the trees that were encoded. They are recursive, as the code is.

Operators whose comment starts with "Mutant" are small edits of an action, kept beside it, that
show that a property would notice the edit; no specification uses them.

## 3. The runs

Run `tlc -config X.cfg M` for the pairs below.

| run | module, cfg | distinct states | what it shows |
|---|---|---|---|
| `network_scheduler` | `MCNetworkScheduler` | 178 464 | permits, places and the semaphore's queue agree and the bounded service is implemented (`PermitsConserved`, `ImplementsService`); every admitted call is answered; no wakeup is lost and every waiter is reached; a closed socket ends and its thread is released; objects agree with the history of calls |
| `process_coordinator` | `MCProcessCoordinator` | 1 621 604 | every name leads to a child of its own role and none is forgotten (`BindingsSound`); a sweep replaces what it found dead; sites stay apart under the watchdog; calls return, but for a write to a child that has stopped reading; a worker exchange ends and a healthy worker is answered |
| `navigation` | `MCNavigation` | 938 039 | the page asked for arrives unless one of four things, which the model records, takes the load away; superseded loads are cancelled, history is sound, searches resolve; pictures follow the controls; samples never overlap; what is printed is read back; programs and WebAssembly bodies run as their trees say |
| `durable_files` | `MCStores` | 1 091 096 | outside the four windows a restart finds one whole release, updates are atomic and go upwards (`IsDurable`), calls and starts end unless the backup was lost (6.3); completed saves survive; unique indexes hold in memory and on disk |
| `page_loop` | `MCPageLoop` | 993 956 | a cleared timer never fires, a due timer fires, queues drain but for the records of an observer that found the list of scheduled ones full |
| `script_objects` | `MCScript` | 1 970 635 | totals exact, handles and free list exact, exactly the garbage is collected; the tree is one tree, a refresh shows the document, shadow boundaries hide; promises owed once and settled once; styles as computed from nothing, as far as their fingerprints tell |
| `stale_runtime` | `Navigation`, `MCStaleRuntime` | violation | 6.1 |
| `restarted_search` | `Navigation`, `MCRestartedSearch` | violation | 6.2 |
| `updater_retake` | `Updater`, `MCUpdaterCrash` | violation | 6.3 |
| `indexed_db_reload` | `MCIndexedDb`, `MCIndexedDbReload` | violation | 6.4 |
| `realtime_send` | `Realtime`, `MCHealthySocketSends` | violation | 6.5 |
| `append_rollback` | `MCSourceBuffers` | violation | 6.6 |

### Bounds, and why they are enough

* *Scheduler*: one permit, a queue of two, four calls of which two share a token and one has a bad URL, one
  retry. The limit is passed by the third call; a waiter behind a waiter exists; both timeouts, the overflow
  and a cancel race each other. *Token*: two waiters, two cancellers. *Connections*: channels of two
  messages, so that both fill up (100 in the code). *Objects*: three calls on lists and collections of two.
* *Processes*: one service, two origins, two tabs, two faults, four processes: two replacements on top of
  the first child of each role. A fault can hit an attach, the recovery of that fault, or both; a child that hangs
  before its first command blocks the write of it. The reader's
  allowance is two replies, so that it runs out. With the watchdog: one origin, one tab, one fault. *Worker*:
  pipes of two chunks, a request and an answer of three, two complaints.
* *Navigation*: three tabs (the memory monitor keeps two alive, so a third can be discarded), three pages (one
  with scripts and images, one too large for a snapshot, one YouTube search), a history cap of two (60 in the
  code), one closed tab (25), and a user who starts no load after the third - enough to load a page, ask for another, leave
  the tab, have it put to sleep and click on it. The searches have two tabs and
  four loads of their own. *Player*: a video of a little more than four ticks with a missing picture, a sink of two frames, a
  short and a long seek step, and four frames of sound in ten units of time, so that every tick cuts some off. *Source buffers*:
  five segments that overlap, arrive out of order and do not
  fit, eight calls. *Engines*: every construct inside every construct, one `try`, or calls from operands and conditions, in one loop or switch, called
  twice with a depth of four, so that calls, rounds and conditions each meet the limit; trees of blocks three deep; integers of 4
  and 8 bits, where overflow is common.
* *Files*: three releases (two upgrades in a row), two files that change and one that does not, two faults:
  one to break an update, one to break what repairs it. Three edits, two crashes, a failed call and a damaged
  profile. Two pages over one database of one store (two in `indexed_db_reload`), three keys, quotas that fill up, seven calls.
* *Event loop*: two nodes, two observers, every budget small enough to run out (one timer and one frame per
  pump, two of each at a time, three queued tasks, two queued events or scheduled observers, two records), three
  identities, five calls. A page that has been drawn starts with a layout observer scheduled, so that a second and a third
  scheduling fill the list within these calls.
* *Heap*: three slots, two of them the roots, so a third is freed and reused; two collections with a generation
  modulus of three (the code's is 2³²); a byte budget that refuses writes. *Document*: four nodes and five
  calls, six identities, shadow trees in shadow trees, a depth of three. *Promises*: three addresses, eight calls, three jobs and two
  reactions (2 048 of both in the code). *Styles*: a root and three elements, six rules that look at
  the element, its siblings, an ancestor or a data attribute, a cache of three, three edits.

Runs that stop at such a bound say `CHECK_DEADLOCK FALSE`; the updater's violation run checks deadlock.

### Fairness

* Scheduler: weak fairness of the code and its timers only (tokio polls what is ready, timers fire). The
  transport has none: a server may stay silent for ever, and `Answered` holds because of the two timeouts.
* Token: weak fairness of the steps of a task that can proceed.
* Connections: the thread runs and its waits have timeouts; the page goes on polling.
* Processes: `WF(Continue)`: the wait for a reply has a deadline, and every other step is the browser's own. The write of
  a command has none (`child_process.rs:167-172`): `WriteEnds` is enabled only once the child is dead, so that fairness does not end
  a write to one that hangs, and `CallsReturn` says so. Children have no fairness. Worker: the
  browser's threads and its clock; nothing is asked of the child.
* Navigation: `WF(Answered)`: a command ends, at the latest at its network timeout (`NetworkScheduler`'s
  `Answered`), and iced delivers its message. The user owes nothing.
* Event loop: callbacks return (the step budget of the engine), the thread goes on, and the embedder ticks a
  page that asks for it.
* Updater: `WF(Proceeds)`: a call runs to its end and the user starts the program again. Crashes and failures
  are not fair, and bounded.

## 4. What is proved

All proofs are for every value of the constants under the named assumptions of the modules; the bounds of
section 3 on faults, calls, versions and identities are constants too, so any number of them is covered.
Where a run is named, the theorem states the very property that the run checks.

| module | theorem | property of a run | says |
|---|---|---|---|
| `NetworkSchedulerProofs` | `TypeCorrect`, `QueueSafety` | | types; the counter is exact and the queue bound kept |
| | `PermitSafety` | `PermitsConserved` | no way out of `fetch` loses or mints a permit, none lies free beside a waiting call |
| | `Refinement` | `ImplementsService` | `BoundedService` is implemented |
| | `TokenTyping`, `WakeupIsNeverLost` | `NoLostWakeup` | a waiter that sleeps on a stored flag has a notification to come |
| `ProcessCoordinatorProofs` | `BindingSafety` | `BindingsSound` | every child has one name, every name leads to a child of its own role |
| | `RecoverySafety` | `SweepRecovers` | what a sweep has visited and calls running has a child |
| | `WatchedIsolation` | | sites stay apart with the watchdog between the calls |
| `NavigationProofs` | `TypeCorrect` | | types; the strip lists each open tab once, one of them is active |
| | `CancellationSafety` | `SupersededIsCancelled` | a load that is not its tab's newest has had its token cancelled |
| | `HistorySafety` | `HistorySound` | the cursor is on the shown page, no entry follows itself, the cap holds |
| | `AskedPageSafety` | `AskedPageArrives` | a tab shows, or is loading, what its user asked for last, unless one of four things took the load away: the revival of a sleeping tab, a restarted search, a YouTube search that fails or is answered while another tab is active |
| | `PlayerSafety` | `PicturesFollowControls` | until the end, pictures and sound run exactly while the controls say so, and lag behind by less than a frame of sound for each tick since the last seek, and a microsecond |
| | `SamplesStayDisjoint` | `SamplesDisjoint` | samples of one track in a source buffer never overlap |
| `DurableFilesProofs` | `TypeCorrect`, `VersionIsKnown` | | types; an idle updater knows the installed release |
| | `RestartSound` | `RestartIsSound` | outside the windows a restart finds one whole release |
| | `Refinement` | `IsDurable` | `DurableInstall` is implemented |
| | `ProfileSafety` | `SavesSurvive` | crashes never cost a completed save, one fault of any kind at most the last |
| | `IndexSafety` | `UniqueIndexHolds` | a unique index has no two records under one key, in memory or on disk |
| | `FilesSafety` | the three | the same of the composition |
| `EngineStateProofs` | `SlotSafety`, `StaleHandles` | `SlotsSound` | the free list is exact, no handle is issued twice, a stale one never resolves |
| | `AccountingHolds` | `Accounting` | byte and object totals are exactly what is in the slots, and within their budget |
| | `HeapTypes` | | types; no total ever goes below zero |
| | `CollectorSafety` | `CollectsExactlyGarbage` | a collection keeps exactly `Reachable` |
| | `Owed` | `OwedOnce` | what `then` returned has exactly one job or reaction while it is pending, and a reaction waits for a pending promise, unless that one was freed or settled by `customElements.define()` |
| | `Settles` | `SettlesOnce` | a settled promise keeps its outcome |
| | `StylesStayCurrent` | `StylesAreCurrent` | after a refresh, whatever the sheet, every element has in each property of which its fingerprint tells all (`Told`) the value that the cascade gives it under its parent's style |
| `DocumentProofs` | `DocumentIsForest` | `TreeSound` | parents and children agree, nothing is its own ancestor |
| | `BoundariesHold` | `BoundaryHides` | a listener outside a shadow tree never sees an event target inside it, as long as the outermost shadow root crossed is at its host |
| | `DrawnIsCurrent` | `RenderIsCurrent` | with no flag set, and unless a call failed half-way or a child was given to another slot, what is drawn is the document |
| `PageLoopProofs` | `ClearedTimersAreSilent` | `ClearedNeverFires` | a cleared timer never fires |
| | `RecordsAreScheduled` | | an observer with records is listed, or found the list full |
| | `PendingWorkIsBounded` | | timers, queued events, scheduled observers and the records of each keep their limits; frames do not (6, *Event loop*) |

The inductive invariants and why they are needed:

* **Scheduler**, `Inv`. The permit equation is not inductive alone: a permit passed to the head of the queue
  must find that call `waiting` (`WaitersMatch`); `queued` stays a natural number only because it counts the
  calls in `Counted`; `AdmissionBound` needs that exact count, since the code compares the value that
  `fetch_add` returned; `RetryBound` keeps `attempt` in its range. The refinement needs one more fact,
  `DecidedLate`: exactly the calls past their decision carry a result. For the token, `NoLostWakeup` is
  inductive together with the types, which say that no future is ahead of the notifications given.
* **Processes**, `IInv == Core /\ Backed /\ Visited`. `Isolated` follows only with fresh process ids (`FreshPids`) and
  with what `respawn` remembers of the process being replaced (`Recovering`); with the shapes these are `Core`,
  which the watchdog keeps. `Backed` - a child belongs to a running entry, and a running entry backed by the child
  program is named by its role - and `Visited` do not survive the watchdog, which marks children between calls;
  so `NoOrphan`, `OneRendererPerOrigin` and `SweepRecovers` are proved of the coordinator alone.
* **Navigation**, `NavInv == LoadsSound /\ Typed /\ AskedSound`. `LoadsSound`: a load whose token was not cancelled is
  its tab's newest *and holds its tab's token* - otherwise the next load of the tab would find no token to cancel.
  `Typed` carries sound histories and a sound strip with ids that are never given out twice; without that a late
  answer could reach a tab opened later. `AskedSound`: a tab that lost nothing has, in every current load, what the user
  asked for; each of the four diversions sets the mark in the very step that starts the other load.
* **Player**, `PlayerInv`. An element is at its end only when it came there since the last seek, and no picture
  queued is older than that seek. The lag of the clock is inductive in the unit of its own frames: each tick adds a whole
  number of them, and less than one is cut off (`media.time * Rate < now * Rate + ticks * Second + Rate`). Along the way: a
  position before the end is always buffered, and the picture
  shown is the least of a set of naturals.
* **Source buffers**, `SourceSound`. That no two samples of a track overlap is inductive once the list is known to name no sample
  twice (`Disjoint`): an append keeps both sample by sample, since what the new one overlaps is taken out first; the sort
  is an insertion sort, and what it returns has the samples it was given; a rollback is a prefix of a list that was sound.
  `TakenDisjoint` is where the overlap test of `mse.rs:227-241` is used.
* **Updater**, `IInv == TypeOK /\ Progress /\ (holes = {} => Disk /\ Copy)`. `Progress` ties the step of the call to the phase
  of the journal; `Disk` says which of installation and backup is the whole release in that phase; `Copy` says how
  far the copy under way has come. `Refinement` maps `Commit` to the abstract `Update`, and the completion of the
  second backup to `Cover`.
* **Profile**, `ProfileInv`. What the three files hold at each step of a save (`SaveUnderWay`); where the last save is
  after crashes and failed calls alone (`LastSaveKept`); where it or the one before it is after one fault of any kind
  (`SaveBeforeKept`). **IndexedDB**, `IndexInv`: every copy of a database - each page's, the file's and each
  transaction's snapshot - keeps its unique indexes, because an abort puts a snapshot back.
* **Heap**, `HeapInv`. `HandlesUnique` needs that no generation has wrapped (`GenerationBound`: at most one per
  collection, itself below `GenerationModulus`) and that every handle issued is no newer than its slot (`IssuedOld`).
  `CollectorSafety` needs the tri-colour invariant `MarkInv`: what is marked or pending covers the roots and all that a
  marked object refers to, and lies in every closed set. `Books` is `Accounting` with what makes its sums well-defined: the bytes
  are natural numbers, and the properties of an object are finitely many.
* **Promises**, `JobsInv == JobTypes /\ Apart /\ OwedIn(heap)`. `Apart`: no two jobs or reactions settle the same promise.
  `OwedIn`: the promises they settle are exactly those that are owed and pending; those that `whenDefined` handed out are
  pending and not owed. `Heard`: whoever waits at an address waits for the promise that is pending there, or for one that was
  freed or settled by `define()`. Addresses are reused, so each is tied to an identity; and a value that a callback
  returns may be a promise whose outcome is copied, so the same invariant has to hold in the middle of a step, for the
  cells as they are by then.
* **Document**, `Sound(nodes, nextId) /\ Drawn`. That no climb from a node is too long is not inductive: moving a subtree
  says nothing of how high it is. `Sound` has instead that the parent links are those of the child lists, that no list
  names a node twice, and that some function falls from every node to its parent (a rank); the climbs end because
  of it, and a move keeps it because the code looks for the moved node among the ancestors. Partial effects of a
  call that fails are calls of the same four operations (allocate, attach, detach, mark), so each is proved once. `Drawn`
  adds that a call which changes what hangs from the document leaves a flag behind, that the shadow roots are
  known nodes, and that with no flag set the drawn tree is the exported one. `ExportSame`: a change among nodes that do not hang from the document does not show
  in the export. `BoundariesHold` follows from `Sound` alone, as the way from a node up to a listener is unique.
* **Styles**, `StylesInv`. That no style shown is stale needs that none in the cache could be taken again by mistake: `CacheSound`
  says that the style of an entry is a function (`StyleOf`) of the entry's fingerprint alone, so a hit is right whenever it
  comes. It needs a tree in which no element has two parents (`Tree`), since the walk and the cascade from nothing are recursive along the
  parents: both have a solution because an element's style no longer changes after as many rounds as it is deep (`FixedAt`).
  The sheet is any sheet: `Told` leaves out, element by element, the properties that a rule may set by an ancestor's class or a data
  attribute, and the one that is inherited without being hashed; for those the statement is false of the code (6, *Styles*).
* **Event loop**. `TimersSound`: identities are handed out once, so a cleared timer is gone from the table that the pump
  walks. `Scheduling == QueuesSound /\ RecordsScheduled` are inductive together.

**Only model-checked**, and why:

* Liveness (`Answered`, `CancelReachesWaiters`, `CloseCompletes`, `SocketIsReleased`, `CallsReturn`, `ExchangeEnds`,
  `SearchesResolve`, `CallsEnd`, `TimersFire`, `QueuesDrain`) needs fairness and `ENABLED`, and `HealthyIsAnswered` says
  `ENABLED` of a state; TLAPS has no rules for them here.
* `ObjectsAgree`, `ReadsBack`, `RunsAsSpecified`, `RunsTheTrees` are about recursive operators, for which
  TLAPS loses its SMT backend. Where the model needed a fold or a filter below a theorem (sums of bytes, imported subtrees, appended
  segments, sorted samples, walked trees) it is a recursive function, and `Counting` in `DataLemmas` does the induction over a set of naturals: the
  library's induction theorems take an operator as a parameter, which no installed prover instantiates.
* `IsolatedUnderWatch` is `Isolated` of an instance with constants of its own; `WatchedIsolation` is the same for all constants.

## 5. What is not modelled

* **Values and formats.** What a page, a file or a message contains is a model value wherever no property looks inside:
  parsing of HTML, style sheets and containers, decoding, framing of sockets, signatures, manifests and hashes, cursors and
  key order of IndexedDB, the texts of errors.
* **Network.** `execute_batch`, document bundles, ranged downloads, redirects, the blocking path, the HTTP cache, cookies.
* **User interface.** Settings, bookmarks, developer tools, drawing, the debounce of repaints; the order in which iced
  delivers two messages that are both ready is left open.
* **Tabs.** Pins, groups and the saved session.
* **Updater.** Trust, free space, uninstalling, the version floor of `new_for_application`; that recovery runs inside the program
  that an interrupted update was replacing (`updater.rs:530`); the fallback of `fs_atomic.rs:86`, which removes the target first.
* **Page.** Capture and stopped propagation, focus, navigation by the page, most Web APIs.
* **Promises.** A reason that is itself a promise: after a `finally` handler the code would follow it
  (`javascript.rs:8518`, `:7722`).
* **Heap.** Generations that wrap: the code's are 32 bits wide, and the uniqueness of handles is stated and proved for fewer
  collections than that.
* **Worker.** A worker that writes more complaints before it reads than its pipe holds: the assumption is
  `Chatter <= Capacity`; nobody reads that pipe while the request is being written.
* **Script engine.** Generators, classes, `super`, private members, spread, destructuring and object methods, which the parser never
  builds; typed arrays, proxies, regular expressions, dates and the module graph.
* **WebAssembly.** Floating point, the reading of sections, the start function.
* **Media.** Containers and codecs, samples of no duration, the bindings to the page.
* **Whole parts** listed as `not_modelled` in `PROJECT.json`: pure functions over data too large to enumerate (layout, document
  pipeline), pixels, pure input and output, and state machines that nothing but their tests calls.

## 6. Where code and words disagree

Each of the first six has a run that ends in a counterexample.

1. `stale_runtime` (`tab.rs:426`). `go_back`, `go_forward`, a failed load and an internal page replace the document and keep
   the page's runtime; the next `PageRuntimeTick` writes the old page's document back under the new address.
   `CONTRIBUTING.md:36-37` asks to keep asynchronous responses bound to the originating tab and navigation sequence.
2. `restarted_search` (`ui.rs:3598`). A tab command, even *next tab* in the only tab, restarts a search that is unfinished there,
   although the user has begun to load a document over it; starting the search cancels that load. The comment above
   (`ui.rs:3593-3596`) means a flag that is stale; the one at `ui.rs:752-753` says that a switch cannot invalidate such a load.
3. `updater_retake` (`updater.rs:378`). The backup is taken again when the journal already says *Applying*. A crash or failure
   while it is incomplete makes the next start restore it over an installation that nobody had touched. A crash after the old
   backup is removed and before the new directory is made (`recreate_directory`, `:1060-1066`) leaves no backup at all: every
  later start fails with "backup is missing" (`:394-397`), and `CallsEnd` has to except it (`Stranded`). The module calls itself
  transactional (`updater.rs:1`).
4. `indexed_db_reload` (`indexeddb.rs:734`). `persist` writes without the budget check that `load_from_disk` applies, so a state
   may be saved that the next page refuses, and then overwrites. Its comment says "committed state".
5. `realtime_send` (`realtime.rs:284`). The report of a sent message is dropped when the event channel is full; the message then stays in
   `sent_queue`, and after a hundred such losses a healthy socket refuses to send - which the comment at `realtime.rs:136-138` rules out.
6. `append_rollback` (`mse.rs:160`). A refused segment that had replaced samples is undone by cutting the list to its old
   length, after which the buffer holds part of the refused segment and has lost what it replaced; the comments at
   `mse.rs:146-147` and `mse.rs:447` promise a rollback and atomicity.

Seen while modelling; the models do what the code does, and no run is kept for them:

* *Processes*: a command is written with a blocking `write_all` before the reply's deadline starts (`child_process.rs:167-172`), so a
  child that hangs with a full pipe holds the browser thread for ever, which the comment at `:173-174` rules out; a url may make a
  command longer than a pipe, a heartbeat never does. `CallsReturn` excepts it, and without the exception (`NeverBlocked`)
  TLC finds it. A child's reader has one allowance of bytes for the child's whole life (`child_process.rs:344`); a renderer that timed
  out is replaced for the tab that was attaching only (`process_coordinator.rs:76`), and is not ended when its last tab leaves (`:83`).
* *Navigation*: a click on a sleeping or discarded tab fetches the tab's old address (`ui.rs:1474-1493`) and so cancels the load that the
  user had started in it before it was put to sleep; two more ways to lose a load are a YouTube search that fails and one that is
  answered while another tab is active (`ui.rs:1241-1285`); the answer of an image batch is compared with `pending_loads` although the batch was stored in
  `pending_image_batches` (`ui.rs:1600`, `ui.rs:3507`); the next and previous tab commands show a sleeping tab without waking it
  (`ui.rs:1690`); there is one search record per tab (`ui.rs:3617`).
* *Media*: the pipeline's clock advances by whole frames of sound and the element by whole milliseconds (`media_runtime.rs:196-198`,
  `html_media.rs:333`): at 44.1 kHz a tick of 33 ms is 32 993 µs, so the pictures fall behind the controls by 0.2 ms each second,
  without end, until a seek sets both anew. A flush pauses the sink and nobody resumes it (`audio_output.rs:100`); `load` and
  `play` attach a clone of the source
  (`web_runtime.rs:3989`).
* *IndexedDB*: an abort puts back a snapshot of the whole database, and with it undoes what another transaction committed meanwhile
  (`indexeddb.rs:664`); two tabs of an origin overwrite each other's file (`web_runtime.rs:6350`).
* *Profile*: two instances of the program share one temporary name without a lock.
* *Promises*: `finally` turns a rejection into a fulfilment (`javascript.rs:8463`); reactions are kept under the address of a cell, which
  may be freed and taken over by another promise (`:7641`), and `customElements.define()` settles a promise without looking at its
  reactions (`web_runtime.rs:5296-5302`): what `then` returned then waits in vain, or takes the outcome of the other promise.
* *Event loop*: an observer that finds the list of 1 024 scheduled ones full (`web_runtime.rs:1336-1342`, `:6433-6438`) is not scheduled by
  later records either, since it has some, until the page takes them. A pump puts back the frames beyond its first 256 without
  looking at the limit of 1 024 that
  a request respects (`:5652-5654`, `:4363-4366`), so callbacks that ask again let their number grow from pump to pump, which the comment at
  `:4360-4362` means to prevent; `PageLoop` has this, and `PendingWorkIsBounded` leaves frames out. `cancelAnimationFrame` inside
  a frame is not honoured for that frame; a listener removed during a dispatch still runs.
* *Document*: `appendChild` checks the depth of the parent and not the height of what is appended (`live_dom.rs:543`).
  A shadow root that was taken from its host keeps its record, so the target of an event may be moved to a host that is not on
  the way (`live_dom.rs:780`); `BoundaryHides` speaks of targets whose outermost shadow root is still where it was attached.
  `set_shadow_html` (`live_dom.rs:682`) assumes that its shadow root lives; only a test calls it, scripts use `set_inner_html`.
* *Styles*: the fingerprint of an element leaves out what ancestors and data attributes say, so moving an element between two
  parents may leave a descendant rule's style on it (`dynamic_render.rs:687`).
* *Scripts*: array methods can be bound but not called (`javascript.rs:4824`). `RunsAsSpecified` compares the evaluator with a machine for
  the language, and claims nothing of a script once it met one of three places where the engine leaves it: a case that falls through never
  reaches `default`, and a `default` that stands first is not left for the next case (`:3289`); a condition of `if` or `while` that
  fails costs one level of depth for ever (`:3146-3156`, `:3176-3183`); a throw out of an operand does not end the
  expression, so that `try { return f() }` does not catch what `f` throws (`:3663-3671`). Of the 6 712 programs 215 meet one of them,
  and 172 of these run otherwise than the machine; no other program does.
* *WebAssembly*: `RunsTheTrees` makes four exceptions, each for modules that meet it. For a block whose type is an index the
  scan and the block skip two immediates (`wasm_interp.rs:1859-1866`, and the comment at `:1834-1837`) where `validate_code` reads one
  (`wasm.rs:656-671`); `return`, or a branch to the function, makes results of all operands below the result (`:428-433`,
  `:537-543`); a branch to a loop keeps as many values as the loop returns (`:451-456`); `call_indirect` asks for the same
  type index and not for an equal type (`:515`). Of the 3 268 modules 15, 33, 2 and 114 meet them.
* *Updater*: `rollback` and `repair` leave the recorded version as it was (`updater.rs:719`, `:728`): two of the four windows of section 2.

## 7. What is left

* Theorems about the evaluators, whose recursive operators would have to become functions first.
* A module that composes the document bundles of `execute_batch` with `Transfers`, and one for the saved session.
* The extensions' status and permissions, which change in memory first and in their file after.
* Layout and the built-in libraries of the script engine: pure and large; each needs a reference definition of its own.
