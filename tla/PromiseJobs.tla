----------------------------- MODULE PromiseJobs -----------------------------
(* Promises of the script engine (src/src/javascript.rs) over the turns of a  *)
(* page.  A promise is a cell behind a counted reference.  What waits for it  *)
(* is kept by the address of that cell, in a table that belongs to the turn,  *)
(* as the queue of jobs does.  Of a value only this is kept: whether it       *)
(* fulfils or rejects, and whether it is a promise.  A reason never is one    *)
(* here: the code would follow it after a finally handler (lines 8518, 7722). *)
EXTENDS Integers, Sequences, FiniteSets

CONSTANTS
  Addresses,   \* where the allocator puts promises
  MaxJobs, MaxReactions,  \* both MAX_PROMISE_JOBS, 2048, in the code
  LastCall     \* bound on the calls made and the turns begun

PromiseJobsAssumption == {MaxJobs, MaxReactions, LastCall} \subseteq Nat \ {0}

VARIABLES
  heap,       \* address -> [id, state, quiet], the promises that are referenced;
              \* id and quiet are history: an id is never used again, and quiet
              \* says that customElements.define() settled the promise
  kept,       \* the promises that variables of the page hold
  waiters,    \* custom_element_waiters of the one tag there is
  defined,    \* that tag is defined
  jobs,       \* microtasks
  reactions,  \* pending_promise_reactions: address -> those that wait at it
  queued,     \* microtasks_queued
  processed,  \* jobs the drain has taken
  job,        \* the job whose handler runs, or NoJob
  at,         \* "idle", "script", "drain" or "handler"
  owed,       \* history: what then() has returned in this turn
  calls, nextId

context == <<jobs, reactions, queued, processed>>
vars == <<heap, kept, waiters, defined, context, job, at, owed, calls, nextId>>

NoJob == [kind |-> "none"]

\* The promises that a queue of jobs or reactions is going to settle.
Results(queue) == {queue[i].result : i \in DOMAIN queue}

Referenced ==
  kept \cup waiters \cup Results(jobs)
    \cup (IF job = NoJob THEN {} ELSE {job.result})
    \cup UNION {Results(reactions[a]) : a \in Addresses}

\* A step frees what is no longer referenced after it.
Counted(cells) == heap' = [a \in DOMAIN cells \cap Referenced' |-> cells[a]]

Put(cells, a, cell) ==
  [b \in DOMAIN cells \cup {a} |-> IF b = a THEN cell ELSE cells[b]]

Allocated(a, state) == Put(heap, a, [id |-> nextId, state |-> state, quiet |-> FALSE])

Free == Addresses \ DOMAIN heap
-----------------------------------------------------------------------------
(* Reactions and jobs.                                                       *)

\* The handlers of then(f), catch(g) and finally(h); then(f, g) acts as one of
\* the first two, and which of them is not known before the promise settles.
Handlers == {{"ok"}, {"err"}, {"finally"}}

\* A promise that follows another has no handlers.  One that waits for what a
\* finally handler returned has its outcome (completion_override).  `of` is
\* history: the promise waited for, of which the table keeps only the address.
Reaction(of, handlers, result, override) ==
  [of |-> of, result |-> result, handlers |-> handlers, override |-> override]

\* enqueue_registered_reaction.
Job(r, state) ==
  LET kind == IF "finally" \in r.handlers THEN "finally"
              ELSE IF state = "ok" /\ r.override # "none" THEN r.override ELSE state
  IN  [kind |-> kind, result |-> r.result,
       handled |-> kind = "finally" \/ state \in r.handlers]

NoReactions == [a \in Addresses |-> <<>>]

\* Where the reactions of the turn stand, and register_pending_reaction.
Waiting == UNION {{a} \X DOMAIN reactions[a] : a \in Addresses}

Registered(source, r) == reactions' = [reactions EXCEPT ![source] = Append(@, r)]

\* The turn is over, and what it had not run or settled is forgotten with it.
TurnEnds ==
  /\ at' = "idle"
  /\ jobs' = <<>>
  /\ reactions' = NoReactions
  /\ queued' = 0
  /\ processed' = 0
  /\ job' = NoJob
  /\ owed' = {}

-----------------------------------------------------------------------------
(* What a script or a handler calls.                                         *)

\* Promise.resolve, reject, all, allSettled, race and any, and what an async
\* function returns: what depends on a pending promise stays pending.
Make(a, state) ==
  /\ kept' = kept \cup {a}
  /\ nextId' = nextId + 1
  /\ UNCHANGED <<waiters, defined, context, job, at, owed>>
  /\ Counted(Allocated(a, state))

WhenDefined(a) ==
  /\ kept' = kept \cup {a}
  /\ waiters' = IF defined THEN waiters ELSE waiters \cup {a}
  /\ nextId' = nextId + 1
  /\ UNCHANGED <<defined, context, job, at, owed>>
  /\ Counted(Allocated(a, IF defined THEN "ok" ELSE "pending"))

\* customElements.define() writes to the promises that wait for the tag, and
\* tells nobody who waits for them: it does not look at the table.
Define ==
  /\ ~ defined
  /\ defined' = TRUE
  /\ waiters' = {}
  /\ UNCHANGED <<kept, context, job, at, owed, nextId>>
  /\ Counted([a \in DOMAIN heap |->
                IF a \in waiters THEN [heap[a] EXCEPT !.state = "ok", !.quiet = TRUE]
                                  ELSE heap[a]])

\* Mutant: the job settles the promise that the handlers were given to.
ThenSettlesSource(source, handlers, a) ==
  LET r == Reaction(heap[source].id, handlers, source, "none")
  IN  /\ \/ /\ heap[source].state = "pending"
            /\ Cardinality(Waiting) < MaxReactions
            /\ Registered(source, r)
            /\ UNCHANGED <<jobs, queued>>
         \/ /\ heap[source].state # "pending"
            /\ queued < MaxJobs
            /\ jobs' = Append(jobs, Job(r, heap[source].state))
            /\ queued' = queued + 1
            /\ UNCHANGED reactions
      /\ kept' = kept \cup {a}
      /\ owed' = owed \cup {nextId}
      /\ nextId' = nextId + 1
      /\ UNCHANGED <<waiters, defined, processed, job, at>>
      /\ Counted(Allocated(a, "pending"))

\* then(), catch(), finally().  Over a limit they throw and leave no promise.
Then(source, handlers, a) ==
  LET r == Reaction(heap[source].id, handlers, a, "none")
  IN  /\ \/ /\ heap[source].state = "pending"
            /\ Cardinality(Waiting) < MaxReactions
            /\ Registered(source, r)
            /\ UNCHANGED <<jobs, queued>>
         \/ /\ heap[source].state # "pending"
            /\ queued < MaxJobs
            /\ jobs' = Append(jobs, Job(r, heap[source].state))
            /\ queued' = queued + 1
            /\ UNCHANGED reactions
      /\ kept' = kept \cup {a}
      /\ owed' = owed \cup {nextId}
      /\ nextId' = nextId + 1
      /\ UNCHANGED <<waiters, defined, processed, job, at>>
      /\ Counted(Allocated(a, "pending"))

\* A variable goes out of scope.
Drop(a) ==
  /\ kept' = kept \ {a}
  /\ UNCHANGED <<waiters, defined, context, job, at, owed, nextId>>
  /\ Counted(heap)

ApiCall ==
  /\ at \in {"script", "handler"}
  /\ \/ \E a \in Free, state \in {"ok", "err", "pending"} : Make(a, state)
     \/ \E a \in Free : WhenDefined(a)
     \/ \E a \in Free, source \in kept, handlers \in Handlers : Then(source, handlers, a)
     \/ Define
     \/ \E a \in kept : Drop(a)

-----------------------------------------------------------------------------
(* The turn: execute_script, or invoke_callback for a listener or a timer.    *)

StartTurn ==
  /\ at = "idle"
  /\ at' = "script"
  /\ UNCHANGED <<heap, kept, waiters, defined, context, job, owed, nextId>>

\* It ends, or throws.
ScriptEnds ==
  /\ at = "script"
  /\ at' = "drain"
  /\ UNCHANGED <<heap, kept, waiters, defined, context, job, owed, nextId>>

\* An error of the engine, as an unknown name, leaves without the drain.
ScriptFails ==
  /\ at = "script"
  /\ TurnEnds
  /\ UNCHANGED <<kept, waiters, defined, nextId>>
  /\ Counted(heap)

\* settle_promise, for the promise of a job: the reactions at its address
\* become jobs; over the limit the drain fails, and the turn with it.
Settle(a, state, rest, done) ==
  LET ready == reactions[a]
      cells == [heap EXCEPT ![a].state = state]
  IN  /\ IF queued + Len(ready) > MaxJobs
           THEN TurnEnds
           ELSE /\ jobs' = rest \o [i \in DOMAIN ready |-> Job(ready[i], state)]
                /\ reactions' = [reactions EXCEPT ![a] = <<>>]
                /\ queued' = queued + Len(ready)
                /\ processed' = done
                /\ job' = NoJob
                /\ at' = "drain"
                /\ UNCHANGED owed
      /\ UNCHANGED <<kept, waiters, defined, nextId>>
      /\ Counted(cells)

\* Mutant: a promise that is pending is dropped like a value that is undefined.
WaitForNothing(a, source, override) ==
  /\ job' = NoJob
  /\ at' = "drain"
  /\ UNCHANGED <<jobs, reactions, queued, processed, owed, kept, waiters, defined, nextId>>
  /\ Counted(heap)

\* The job waits for a promise.
Wait(a, source, override) ==
  /\ IF Cardinality(Waiting) >= MaxReactions
       THEN TurnEnds
       ELSE /\ Registered(source, Reaction(heap[source].id, {}, a, override))
            /\ job' = NoJob
            /\ at' = "drain"
            /\ UNCHANGED <<jobs, queued, processed, owed>>
  /\ UNCHANGED <<kept, waiters, defined, nextId>>
  /\ Counted(heap)

\* resolve_promise with a promise.
Follow(a, source) ==
  IF source # a /\ heap[source].state = "pending"
  THEN Wait(a, source, "none")
  ELSE Settle(a, IF source = a THEN "err" ELSE heap[source].state, jobs, processed)

\* A job is taken; without a handler its promise is settled at once.
Drain ==
  /\ at = "drain"
  /\ jobs # <<>>
  /\ processed < MaxJobs
  /\ LET next == Head(jobs)
     IN  IF next.handled
         THEN /\ job' = next
              /\ at' = "handler"
              /\ jobs' = Tail(jobs)
              /\ processed' = processed + 1
              /\ UNCHANGED <<heap, kept, waiters, defined, reactions, queued, owed, nextId>>
         ELSE Settle(next.result, next.kind, Tail(jobs), processed + 1)

\* The handler throws or returns a value.  A finally handler that returns one
\* leaves a fulfilled promise: the job no longer says that there was a reason.
HandlerReturns(outcome) ==
  /\ at = "handler"
  /\ Settle(job.result, outcome, jobs, processed)

HandlerReturnsPromise(source) ==
  /\ at = "handler"
  /\ IF job.kind # "finally"
     THEN Follow(job.result, source)
     ELSE IF heap[source].state = "pending"
     THEN Wait(job.result, source, "ok")
     ELSE Settle(job.result, heap[source].state, jobs, processed)

\* The queue is empty, or the drain has run its budget.
DrainDone ==
  /\ at = "drain"
  /\ jobs = <<>> \/ processed >= MaxJobs
  /\ TurnEnds
  /\ UNCHANGED <<kept, waiters, defined, nextId>>
  /\ Counted(heap)

Init ==
  /\ heap = <<>>
  /\ kept = {} /\ waiters = {} /\ defined = FALSE
  /\ jobs = <<>> /\ reactions = NoReactions /\ queued = 0 /\ processed = 0
  /\ job = NoJob /\ at = "idle" /\ owed = {}
  /\ calls = 0 /\ nextId = 1

Next ==
  \/ calls < LastCall /\ calls' = calls + 1 /\ (StartTurn \/ ApiCall)
  \/ /\ UNCHANGED calls
     /\ \/ ScriptEnds \/ ScriptFails \/ Drain \/ DrainDone
        \/ \E outcome \in {"ok", "err"} : HandlerReturns(outcome)
        \/ \E source \in kept : HandlerReturnsPromise(source)

Spec == Init /\ [][Next]_vars
-----------------------------------------------------------------------------
Jobs == [kind : {"ok", "err", "finally"}, result : Addresses, handled : BOOLEAN]
Reactions == [of : Nat, result : Addresses, handlers : Handlers \cup {{}},
              override : {"none", "ok"}]

TypeOK ==
  /\ \A a \in DOMAIN heap :
       /\ a \in Addresses
       /\ heap[a] \in [id : 1 .. nextId - 1, state : {"pending", "ok", "err"}, quiet : BOOLEAN]
  /\ DOMAIN heap = Referenced
  /\ jobs \in Seq(Jobs) /\ job \in Jobs \cup {NoJob}
  /\ {queued, processed} \subseteq 0 .. MaxJobs
  /\ reactions \in [Addresses -> Seq(Reactions)] /\ Cardinality(Waiting) <= MaxReactions
  /\ at \in {"idle", "script", "drain", "handler"}

\* A promise that is fulfilled or rejected stays as it is, whatever handlers,
\* reused addresses and customElements.define() do after it
\* (settle_promise overwrites without looking).
SettlesOnce ==
  [][\A a \in DOMAIN heap \cap DOMAIN heap' :
       heap[a].id = heap'[a].id /\ heap[a].state # "pending" => heap'[a] = heap[a]]_vars

\* How many jobs and reactions are going to settle the promise at an address.
InJobs(a) == {i \in DOMAIN jobs : jobs[i].result = a}
InReactions(a) == {w \in Waiting : reactions[w[1]][w[2]].result = a}
InHand(a) == {j \in {job} \ {NoJob} : j.result = a}
Owing(a) == Cardinality(InJobs(a)) + Cardinality(InReactions(a)) + Cardinality(InHand(a))

\* Where a reaction waits, the promise it waits for can still settle it ...
Awaited(w) ==
  /\ w[1] \in DOMAIN heap
  /\ heap[w[1]].id = reactions[w[1]][w[2]].of
  /\ heap[w[1]].state = "pending"

\* ... or cannot any more: it was freed, since the table does not hold it, and
\* at its address there is nothing or another promise, whose outcome the
\* reaction will take; or customElements.define() settled it.
Forsaken(w) ==
  \/ w[1] \notin DOMAIN heap
  \/ heap[w[1]].id # reactions[w[1]][w[2]].of
  \/ heap[w[1]].quiet

\* While the turn lasts, what then(), catch() or finally() returned is promised
\* an outcome by exactly one job or reaction as long as it is pending, and by
\* none once it has one; and a reaction waits for a promise that is pending.
\* There are two exceptions, and no third: the promise was freed, or settled by
\* customElements.define().  There the outcome is lost, or is another one's.
OwedOnce ==
  \A a \in DOMAIN heap : heap[a].id \in owed =>
    /\ Owing(a) = IF heap[a].state = "pending" THEN 1 ELSE 0
    /\ \A w \in InReactions(a) : Awaited(w) \/ Forsaken(w)

=============================================================================
