------------------------------ MODULE PageLoop ------------------------------
(* The event loop of one page (PageRuntime in src/src/web_runtime.rs): timers, *)
(* animation frames, events that host calls queue for the listeners of the    *)
(* page, and observers.  One turn is a script, a user's click or a pump of    *)
(* the embedder; it runs callbacks one after the other, and each may call the *)
(* API any number of times.  The page is a flat set of nodes under a window,  *)
(* and the capturing listeners of a node count among its others.              *)
EXTENDS Integers, Sequences, FiniteSets, SequencesExt, FiniteSetsExt, Functions

CONSTANTS
  Nodes,              \* the NodeIds of the page, numbers
  Handle,             \* the host handle the page holds for each node
  Observers,          \* mutation and layout observers
  LayoutObservers,    \* those that watch size or intersection
  MaxTimersPerPump,   \* 64 in the code
  MaxFramesPerPump,   \* 256 in the code
  MaxTimers,          \* MAX_ACTIVE_TIMERS; 256 in the code
  MaxFrames,          \* frames a page may ask for; 1024 in the code
  MaxTasks,           \* the budget of a turn: MAX_PENDING_TASKS, 1024
  MaxPending,         \* the length of a queue: also MAX_PENDING_TASKS
  MaxRecords,         \* MAX_MUTATION_RECORDS; 512 in the code
  Delays,             \* delays a page asks for, in pumps
  OldestLag,          \* bound on how late a timer may be, in pumps
  LastId,             \* bound on the timers, frames and listeners made
  LastCall            \* bound on the calls, scripts and clicks of a behaviour

ASSUME PageLoopAssumption ==
  /\ Nodes \subseteq Nat \ {0}
  /\ Handle \in [Nodes -> Nat]
  /\ LayoutObservers \subseteq Observers /\ IsFiniteSet(Observers)
  /\ Delays \subseteq Nat
  /\ {MaxTimersPerPump, MaxFramesPerPump, MaxTimers, MaxFrames, MaxTasks,
      MaxPending, MaxRecords, OldestLag, LastId, LastCall} \subseteq Nat \ {0}

Window == 0
Nothing == <<>>                \* no callback runs
NoEvent == [type |-> "none"]   \* no event is being dispatched

VARIABLES
  timers,     \* id -> [due, delay, interval], due relative to the page's clock
  frames,     \* animation frames asked for
  listeners,  \* [id, node, type, once]
  live,       \* the nodes that have not been freed
  watches,    \* which observer observes which node
  records,    \* how many records each observer has not been given
  queue,      \* pending_dispatches: [node, type, meant], where `meant` is
              \* history: the node the call was about
  notify,     \* pending_observer_callbacks
  at,         \* where the turn is
  after,      \* what follows the flush: "layout" or "redraw" in a pump
  batch,      \* what the turn has taken and not run: frames, events, observers
  busy,       \* this round of the flush had events or observers to run
  event,      \* the event being dispatched, or NoEvent
  running,    \* the callback whose script runs: <<kind, id>>, or Nothing
  spent,      \* callbacks run against the budget in force
  nextId,     \* identities handed out
  truncated,  \* the report's flag: something was dropped
  dropped,    \* history: observers with records that found no room in notify
  calls,
  cleared,    \* history: timers the page has cleared
  served      \* history: `once` listeners that have run

turn == <<at, after, batch, busy, event, running, spent>>
page == <<timers, frames, listeners, live, watches, records, queue, notify,
          nextId, truncated, dropped, cleared, served>>
vars == <<turn, page, calls>>

-----------------------------------------------------------------------------
(* What a running script may call.                                           *)

Unchanged(parts) == UNCHANGED <<turn, parts>>

\* The call fails: "QuotaExceededError".
OverBudget == UNCHANGED <<turn, page>>

SetTimer(delay, interval) ==
  \/ /\ Cardinality(DOMAIN timers) < MaxTimers
     /\ nextId <= LastId
     /\ timers' = [i \in DOMAIN timers \cup {nextId} |->
                     IF i = nextId
                     THEN [due |-> delay, delay |-> delay, interval |-> interval]
                     ELSE timers[i]]
     /\ nextId' = nextId + 1
     /\ Unchanged(<<frames, listeners, live, watches, records, queue, notify,
                    truncated, dropped, cleared, served>>)
  \/ Cardinality(DOMAIN timers) >= MaxTimers /\ OverBudget

\* Mutant: an interval outlives clearInterval().
ClearTimeout(i) ==
  /\ timers' = IF timers[i].interval THEN timers
               ELSE Restrict(timers, DOMAIN timers \ {i})
  /\ cleared' = cleared \cup {i}
  /\ Unchanged(<<frames, listeners, live, watches, records, queue, notify,
                 nextId, truncated, dropped, served>>)

ClearTimer(i) ==
  /\ timers' = Restrict(timers, DOMAIN timers \ {i})
  /\ cleared' = cleared \cup {i}
  /\ Unchanged(<<frames, listeners, live, watches, records, queue, notify,
                 nextId, truncated, dropped, served>>)

RequestFrame ==
  \/ /\ Cardinality(frames) < MaxFrames
     /\ nextId <= LastId
     /\ frames' = frames \cup {nextId}
     /\ nextId' = nextId + 1
     /\ Unchanged(<<timers, listeners, live, watches, records, queue, notify,
                    truncated, dropped, cleared, served>>)
  \/ Cardinality(frames) >= MaxFrames /\ OverBudget

\* A frame that the pump has already taken cannot be cancelled any more.
CancelFrame(i) ==
  /\ frames' = frames \ {i}
  /\ Unchanged(<<timers, listeners, live, watches, records, queue, notify,
                 nextId, truncated, dropped, cleared, served>>)

AddListener(node, type, once) ==
  /\ nextId <= LastId
  /\ listeners' = listeners \cup
       {[id |-> nextId, node |-> node, type |-> type, once |-> once]}
  /\ nextId' = nextId + 1
  /\ Unchanged(<<timers, frames, live, watches, records, queue, notify,
                 truncated, dropped, cleared, served>>)

RemoveListener(l) ==
  /\ listeners' = listeners \ {l}
  /\ Unchanged(<<timers, frames, live, watches, records, queue, notify,
                 nextId, truncated, dropped, cleared, served>>)

\* queue_pending_dispatch.
Queued(node, type, meant) ==
  IF Len(queue) < MaxPending
  THEN /\ queue' = Append(queue, [node |-> node, type |-> type, meant |-> meant])
       /\ UNCHANGED truncated
  ELSE /\ truncated' = TRUE
       /\ UNCHANGED queue

\* click(), focus() and dispatchEvent() queue the node.
Click(node) ==
  /\ Queued(node, "click", node)
  /\ Unchanged(<<timers, frames, listeners, live, watches, records, notify,
                 nextId, dropped, cleared, served>>)

\* form.submit() queues its handle, and so do the life-cycle events of
\* appendChild and removeChild.
Submit(node) ==
  /\ Queued(Handle[node], "submit", node)
  /\ Unchanged(<<timers, frames, listeners, live, watches, records, notify,
                 nextId, dropped, cleared, served>>)

\* queue_mutation_record, queue_layout_observer_records: an observer whose
\* list was empty is scheduled, while there is room; a full list drops its
\* oldest record.
Recorded(watching) ==
  LET woken == {o \in watching : records[o] = 0}
      room == MaxPending - Len(notify)
  IN  /\ records' = [o \in Observers |->
                       IF o \in watching THEN Min({records[o] + 1, MaxRecords})
                       ELSE records[o]]
      /\ \E order \in SetToSeqs(woken) :
           LET scheduled == SubSeq(order, 1, Min({Len(order), room}))
           IN  /\ notify' = notify \o scheduled
               /\ dropped' = dropped \cup (woken \ ToSet(scheduled))
      /\ truncated' = (truncated \/ Cardinality(woken) > room)

Mutate(node) ==
  /\ Recorded({o \in Observers \ LayoutObservers : <<o, node>> \in watches})
  /\ Unchanged(<<timers, frames, listeners, live, watches, queue, nextId,
                 cleared, served>>)

\* The parent's innerHTML is replaced.
FreeNode(node) ==
  /\ live' = live \ {node}
  /\ Unchanged(<<timers, frames, listeners, watches, records, queue, notify,
                 nextId, truncated, dropped, cleared, served>>)

Observe(o, node) ==
  /\ watches' = watches \cup {<<o, node>>}
  /\ Unchanged(<<timers, frames, listeners, live, records, queue, notify,
                 nextId, truncated, dropped, cleared, served>>)

\* disconnect() also forgets what was observed; takeRecords() does not.
TakeRecords(o, forget) ==
  /\ records' = [records EXCEPT ![o] = 0]
  /\ dropped' = dropped \ {o}
  /\ watches' = IF forget THEN {w \in watches : w[1] # o} ELSE watches
  /\ Unchanged(<<timers, frames, listeners, live, queue, notify, nextId,
                 truncated, cleared, served>>)

ApiCall ==
  \/ \E delay \in Delays, interval \in BOOLEAN : SetTimer(delay, interval)
  \/ \E i \in DOMAIN timers : ClearTimer(i)
  \/ RequestFrame \/ \E i \in frames : CancelFrame(i)
  \/ \E node \in live \cup {Window}, type \in {"click", "submit"},
        once \in BOOLEAN : AddListener(node, type, once)
  \/ \E l \in listeners : RemoveListener(l)
  \/ \E node \in live : \/ Click(node) \/ Submit(node)
                        \/ Mutate(node) \/ FreeNode(node)
  \/ \E o \in Observers, node \in live : Observe(o, node)
  \/ \E o \in Observers, forget \in BOOLEAN : TakeRecords(o, forget)

-----------------------------------------------------------------------------
(* The turn.  A step of the runtime waits for the script that is running.     *)

At(place) == at = place /\ running = Nothing

Goto(place) == at' = place /\ UNCHANGED <<after, page, calls>>

Return ==
  /\ running # Nothing
  /\ running' = Nothing
  /\ UNCHANGED <<at, after, batch, busy, event, spent, page, calls>>

Ascending(ids) == SetToSortSeq(ids, <)

\* execute_script, evaluate: a script of the page, then a flush.
RunScript ==
  /\ At("idle")
  /\ running' = <<"script", 0>>
  /\ at' = "round"
  /\ after' = "idle"
  /\ spent' = 0
  /\ UNCHANGED <<batch, busy, event, page>>

Event(node, type) ==
  [type |-> type, target |-> node, path |-> <<node, Window>>, ran |-> {},
   left |-> Ascending({l.id : l \in {k \in listeners :
                                      k.node = node /\ k.type = type}})]

\* click(): the listeners run at once, and what they queue waits for a pump.
UserClick(node) ==
  /\ At("idle")
  /\ event' = Event(node, "click")
  /\ at' = "clicked"
  /\ UNCHANGED <<after, batch, busy, running, spent, page>>

Clicked ==
  /\ At("clicked")
  /\ event = NoEvent
  /\ Goto("idle")
  /\ UNCHANGED <<batch, busy, event, running, spent>>

\* Mutant: observers alone do not ask for a pump.
PumpsWithoutObservers == DOMAIN timers # {} \/ frames # {} \/ queue # <<>>

\* needs_event_pump.
NeedsPump ==
  \/ DOMAIN timers # {}
  \/ frames # {}
  \/ queue # <<>>
  \/ notify # <<>>

\* drain_animation_frames takes every frame that was asked for.
Pump ==
  /\ At("idle")
  /\ NeedsPump
  /\ batch' = Ascending(frames)
  /\ frames' = {}
  /\ at' = "frames"
  /\ after' = "layout"
  /\ spent' = 0
  /\ UNCHANGED <<busy, event, running, timers, listeners, live, watches,
                 records, queue, notify, nextId, truncated, dropped, cleared, served, calls>>

Frame ==
  /\ At("frames")
  /\ batch # <<>>
  /\ batch' = Tail(batch)
  /\ IF spent >= MaxFramesPerPump
       THEN frames' = frames \cup {Head(batch)} /\ UNCHANGED <<running, spent>>
       ELSE /\ running' = <<"frame", Head(batch)>>
            /\ spent' = spent + 1
            /\ UNCHANGED frames
  /\ UNCHANGED <<at, after, busy, event, timers, listeners, live, watches,
                 records, queue, notify, nextId, truncated, dropped, cleared, served, calls>>

\* pump_timers moves the clock.
FramesDone ==
  /\ At("frames")
  /\ batch = <<>>
  /\ at' = "timers"
  /\ spent' = 0
  /\ timers' = [i \in DOMAIN timers |->
                  [timers[i] EXCEPT !.due = Max({@ - 1, -OldestLag})]]
  /\ UNCHANGED <<after, batch, busy, event, running, frames, listeners, live,
                 watches, records, queue, notify, nextId, truncated, dropped, cleared, served,
                 calls>>

Due == {i \in DOMAIN timers : timers[i].due <= 0}

\* Mutant: the oldest timer first, whenever it is due.
Older(i, j) == i < j

Before(i, j) ==
  \/ timers[i].due < timers[j].due
  \/ timers[i].due = timers[j].due /\ i < j

\* An interval is due again a delay from now, before its callback runs.
Fire(i) ==
  /\ running' = <<"timer", i>>
  /\ timers' = IF timers[i].interval
               THEN [timers EXCEPT ![i].due = timers[i].delay]
               ELSE Restrict(timers, DOMAIN timers \ {i})

Timer ==
  /\ At("timers")
  /\ spent < MaxTimersPerPump
  /\ \E i \in Due : /\ \A j \in Due \ {i} : Before(i, j)
                    /\ Fire(i)
  /\ spent' = spent + 1
  /\ UNCHANGED <<at, after, batch, busy, event, frames, listeners, live,
                 watches, records, queue, notify, nextId, truncated, dropped, cleared, served,
                 calls>>

TimersDone ==
  /\ At("timers")
  /\ spent >= MaxTimersPerPump \/ Due = {}
  /\ spent' = 0
  /\ Goto("round")
  /\ UNCHANGED <<batch, busy, event, running>>

-----------------------------------------------------------------------------
(* flush_pending: rounds of events and observers, within one budget.         *)

FlushEnds ==
  /\ at' = after
  /\ after' = "idle"
  /\ spent' = 0

Round ==
  /\ At("round")
  /\ spent < MaxTasks
  /\ batch' = queue
  /\ queue' = <<>>
  /\ busy' = (queue # <<>>)
  /\ at' = "dispatch"
  /\ UNCHANGED <<after, event, running, spent, timers, frames, listeners, live,
                 watches, records, notify, nextId, truncated, dropped, cleared, served, calls>>

\* An event for a node that is gone is dropped.
Dispatch ==
  /\ At("dispatch")
  /\ event = NoEvent
  /\ batch # <<>>
  /\ batch' = Tail(batch)
  /\ event' = IF Head(batch).node \in live
              THEN Event(Head(batch).node, Head(batch).type) ELSE NoEvent
  /\ UNCHANGED <<at, after, busy, running, spent, page, calls>>

\* invoke_js_listeners runs a copy of the list it found at the node.
Listener ==
  /\ running = Nothing
  /\ event # NoEvent
  /\ event.left # <<>>
  /\ running' = <<"listener", Head(event.left)>>
  /\ event' = [event EXCEPT !.left = Tail(@), !.ran = @ \cup {Head(event.left)}]
  /\ spent' = IF at = "clicked" THEN spent ELSE spent + 1
  /\ served' = served \cup {l.id : l \in {k \in listeners :
                                k.once /\ k.id = Head(event.left)}}
  /\ UNCHANGED <<at, after, batch, busy, timers, frames, listeners, live,
                 watches, records, queue, notify, nextId, truncated, dropped, cleared,
                 calls>>

Ran(l) == l.once /\ l.id \in event.ran /\ l.node = Head(event.path)

LeaveNode ==
  /\ running = Nothing
  /\ event # NoEvent
  /\ event.left = <<>>
  /\ listeners' = {l \in listeners : ~ Ran(l)}
  /\ event' = IF Len(event.path) = 1 THEN NoEvent
              ELSE [Event(Window, event.type) EXCEPT !.path = Tail(event.path),
                                                     !.target = event.target]
  /\ UNCHANGED <<at, after, batch, busy, running, spent, timers, frames, live,
                 watches, records, queue, notify, nextId, truncated, dropped, cleared, served,
                 calls>>

EventsDone ==
  /\ At("dispatch")
  /\ event = NoEvent
  /\ batch = <<>>
  /\ batch' = notify
  /\ notify' = <<>>
  /\ at' = "observers"
  /\ UNCHANGED <<after, busy, event, running, spent, timers, frames, listeners,
                 live, watches, records, queue, nextId, truncated, dropped, cleared, served,
                 calls>>

\* flush_observer_callbacks: the records are taken before the callback runs.
Observer ==
  /\ At("observers")
  /\ batch # <<>>
  /\ batch' = Tail(batch)
  /\ records' = [records EXCEPT ![Head(batch)] = 0]
  /\ dropped' = dropped \ {Head(batch)}
  /\ IF records[Head(batch)] = 0
       THEN UNCHANGED <<running, spent, busy>>
       ELSE /\ running' = <<"observer", Head(batch)>>
            /\ spent' = spent + 1
            /\ busy' = TRUE
  /\ UNCHANGED <<at, after, event, timers, frames, listeners, live, watches,
                 queue, notify, nextId, truncated, cleared, served, calls>>

ObserversDone ==
  /\ At("observers")
  /\ batch = <<>>
  /\ busy' = FALSE
  /\ IF busy THEN at' = "round" /\ UNCHANGED <<after, spent>> ELSE FlushEnds
  /\ UNCHANGED <<batch, event, running, page, calls>>

BudgetSpent ==
  /\ At("round")
  /\ spent >= MaxTasks
  /\ truncated' = TRUE
  /\ FlushEnds
  /\ UNCHANGED <<batch, busy, event, running, timers, frames,
                 listeners, live, watches, records, queue, notify, nextId,
                 dropped, cleared, served, calls>>

\* A pump that has run its timers records every layout observer that watches
\* something, flushes again, and then records them once more as it redraws.
Watching == {o \in LayoutObservers : \E n \in Nodes : <<o, n>> \in watches}

Layout ==
  /\ At("layout")
  /\ Recorded(Watching)
  /\ at' = "round"
  /\ after' = "redraw"
  /\ spent' = 0
  /\ UNCHANGED <<batch, busy, event, running, timers, frames, listeners, live,
                 watches, queue, nextId, cleared, served, calls>>

Redraw ==
  /\ At("redraw")
  /\ Recorded(Watching)
  /\ at' = "idle"
  /\ after' = "idle"
  /\ UNCHANGED <<batch, busy, event, running, spent, timers, frames,
                 listeners, live, watches, queue, nextId, cleared, served, calls>>

-----------------------------------------------------------------------------
\* A page without timers, frames, listeners or events.
Quiet ==
  /\ timers = <<>> /\ frames = {} /\ listeners = {} /\ live = Nodes
  /\ queue = <<>> /\ after = "idle" /\ batch = <<>> /\ busy = FALSE
  /\ event = NoEvent /\ spent = 0 /\ nextId = 1 /\ truncated = FALSE
  /\ dropped = {} /\ cleared = {} /\ served = {}

Init ==
  /\ Quiet
  /\ watches = {}
  /\ records = [o \in Observers |-> 0]
  /\ notify = <<>>
  /\ at = "idle" /\ running = Nothing /\ calls = 0

\* From outside: scripts and clicks, and what the scripts call.
Outside ==
  /\ calls < LastCall
  /\ calls' = calls + 1
  /\ \/ running # Nothing /\ ApiCall
     \/ RunScript
     \/ \E node \in live : UserClick(node)

Runtime ==
  \/ Frame \/ FramesDone \/ Timer \/ TimersDone
  \/ Round \/ Dispatch \/ Listener \/ LeaveNode \/ EventsDone
  \/ Observer \/ ObserversDone \/ BudgetSpent
  \/ Layout \/ Redraw \/ Clicked

Next == Outside \/ Runtime \/ Return \/ Pump

\* Callbacks return, the thread goes on, and the embedder ticks a page that is
\* on screen and asks for it.
Fairness == WF_vars(Runtime) /\ WF_vars(Return) /\ WF_vars(Pump)

Spec == Init /\ [][Next]_vars /\ Fairness
-----------------------------------------------------------------------------
(* Properties.                                                               *)

Starts(kind, i) == running = Nothing /\ running' = <<kind, i>>

\* A timer that was cleared does not fire, also when it was due in the same
\* pump as the callback that cleared it.
ClearedNeverFires == [][\A i \in cleared : ~ Starts("timer", i)]_vars

\* Every timer fires or is cleared, whatever intervals run beside it.
TimersFire ==
  \A i \in 1 .. LastId :
    (i \in DOMAIN timers) ~> (running = <<"timer", i>> \/ i \notin DOMAIN timers)

\* Every event leaves its queue, and the records of an observer are delivered
\* or taken, also when the budget of a turn runs out between them.  Only an
\* observer that found the list of the scheduled ones full may wait for ever:
\* it has records, so no further record schedules it.
QueuesDrain ==
  /\ queue # <<>> ~> queue = <<>>
  /\ \A o \in Observers : records[o] > 0 ~> records[o] = 0 \/ o \in dropped

=============================================================================
