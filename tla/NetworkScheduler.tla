-------------------------- MODULE NetworkScheduler --------------------------
(***************************************************************************)
(* NetworkScheduler::fetch: admission to a bounded queue, a FIFO semaphore *)
(* of permits, the transport with its retries, and cancellation.  A step   *)
(* is what one poll of one task does between two accesses to shared state  *)
(* (the queued counter, the semaphore, the request's token).               *)
(***************************************************************************)
EXTENDS Naturals, Sequences, FiniteSets, SequencesExt

CONSTANTS Requests,        \* calls of fetch(), one per request id
          HttpRequests,    \* those whose URL parses with scheme http or https
          Tokens,          \* cancellation tokens
          TokenOf,         \* the token a call carries; a bundle shares one
          MaxConcurrency, MaxQueued, MaxRetries,
          None

ASSUME LimitsAssumption == /\ MaxConcurrency \in Nat \ {0}
                           /\ MaxQueued \in Nat \ {0}
                           /\ MaxRetries \in Nat
ASSUME RequestsAssumption == /\ IsFiniteSet(Requests)
                             /\ HttpRequests \subseteq Requests
                             /\ TokenOf \in [Requests -> Tokens]

Outcomes == {"ok", "cancelled", "queueFull", "timeout", "invalid",
             "transport", "budget"}
ASSUME NoneAssumption == None \notin Outcomes

VARIABLES pc,          \* where each call of fetch() stands
          result,      \* the result it has decided on
          attempt,     \* the transport attempt it is in
          queued,      \* the AtomicUsize
          permits,     \* free permits of the semaphore
          waiters,     \* the semaphore's wait queue
          cancelled    \* tokens whose flag is set

vars == <<pc, result, attempt, queued, permits, waiters, cancelled>>

Counted == {"counted", "overflow", "waiting", "expired", "granted"}
Admitted == Counted \ {"overflow"}
Transporting == {"running", "backoff"}
Holding == {"granted", "admitted", "settled"} \cup Transporting
PCs == {"new", "checked", "done"} \cup Counted \cup Holding

At(S) == {r \in Requests : pc[r] \in S}
IsCancelled(r) == TokenOf[r] \in cancelled
Goto(r, label) == pc' = [pc EXCEPT ![r] = label]
Decide(r, o) == result' = [result EXCEPT ![r] = o]

Init == /\ pc = [r \in Requests |-> "new"]
        /\ result = [r \in Requests |-> None]
        /\ attempt = [r \in Requests |-> 0]
        /\ queued = 0
        /\ permits = MaxConcurrency
        /\ waiters = <<>>
        /\ cancelled = {}

Cancel(t) == /\ t \notin cancelled
             /\ cancelled' = cancelled \cup {t}
             /\ UNCHANGED <<pc, result, attempt, queued, permits, waiters>>
-----------------------------------------------------------------------------
(* The checks made before the call is counted.                             *)
Start(r) == /\ pc[r] = "new"
            /\ \/ /\ r \in HttpRequests /\ ~IsCancelled(r)
                  /\ Goto(r, "checked")
                  /\ UNCHANGED result
               \/ /\ r \notin HttpRequests
                  /\ Goto(r, "done") /\ Decide(r, "invalid")
               \/ /\ r \in HttpRequests /\ IsCancelled(r)
                  /\ Goto(r, "done") /\ Decide(r, "cancelled")
            /\ UNCHANGED <<attempt, queued, permits, waiters, cancelled>>

(* queued.fetch_add(1) and the test of the value it returned.              *)
Count(r) == /\ pc[r] = "checked"
            /\ queued' = queued + 1
            /\ Goto(r, IF queued >= MaxQueued THEN "overflow" ELSE "counted")
            /\ UNCHANGED <<result, attempt, permits, waiters, cancelled>>

(* queued.fetch_sub(1) on the two early returns after counting.            *)
Reject(r) == /\ \/ pc[r] = "overflow" /\ Decide(r, "queueFull")
                \/ pc[r] = "expired" /\ Decide(r, "timeout")
             /\ queued' = queued - 1
             /\ Goto(r, "done")
             /\ UNCHANGED <<attempt, permits, waiters, cancelled>>

(* First poll of acquire_owned(): a free permit or a place in the queue.   *)
Acquire(r) == /\ pc[r] = "counted"
              /\ \/ /\ permits > 0
                    /\ permits' = permits - 1
                    /\ Goto(r, "granted")
                    /\ UNCHANGED waiters
                 \/ /\ permits = 0
                    /\ waiters' = Append(waiters, r)
                    /\ Goto(r, "waiting")
                    /\ UNCHANGED permits
              /\ UNCHANGED <<result, attempt, queued, cancelled>>

(* The timeout around acquire_owned(): the dropped future leaves the queue. *)
WaitTimeout(r) == /\ pc[r] = "waiting"
                  /\ \E i \in DOMAIN waiters : /\ waiters[i] = r
                                              /\ waiters' = RemoveAt(waiters, i)
                  /\ Goto(r, "expired")
                  /\ UNCHANGED <<result, attempt, queued, permits, cancelled>>

Dequeue(r) == /\ pc[r] = "granted"
              /\ queued' = queued - 1
              /\ Goto(r, "admitted")
              /\ UNCHANGED <<result, attempt, permits, waiters, cancelled>>

(* The second look at the token, now that the call holds a permit.         *)
Launch(r) == /\ pc[r] = "admitted"
             /\ \/ IsCancelled(r) /\ Goto(r, "settled") /\ Decide(r, "cancelled")
                \/ ~IsCancelled(r) /\ Goto(r, "running") /\ UNCHANGED result
             /\ UNCHANGED <<attempt, queued, permits, waiters, cancelled>>
-----------------------------------------------------------------------------
Settle(r, o) == /\ Goto(r, "settled")
                /\ Decide(r, o)
                /\ UNCHANGED <<attempt, queued, permits, waiters, cancelled>>

(* Mutant: the timeout is wrapped around a single attempt only.            *)
RequestTimeoutPerAttempt(r) == /\ pc[r] = "backoff"
                               /\ Settle(r, "timeout")

(* The cancelled() branches of the select!s around and inside the transport. *)
ObserveCancel(r) == /\ pc[r] \in Transporting
                    /\ IsCancelled(r)
                    /\ Settle(r, "cancelled")

RequestTimeout(r) == /\ pc[r] \in Transporting
                     /\ Settle(r, "timeout")

(* Mutant: the token is not looked at again once the body is there.        *)
SucceedsUnchecked(r, fits) == /\ pc[r] = "running"
                              /\ Settle(r, IF ~fits THEN "budget" ELSE "ok")

(* The transport returns a body: budget first, then the token once more.   *)
TransportSucceeds(r, fits) ==
    /\ pc[r] = "running"
    /\ Settle(r, IF ~fits THEN "budget"
                 ELSE IF IsCancelled(r) THEN "cancelled" ELSE "ok")

(* An attempt fails and no attempt follows it.                             *)
TransportFails(r, retryable) ==
    /\ pc[r] = "running"
    /\ IsCancelled(r) \/ ~retryable \/ attempt[r] = MaxRetries
    /\ Settle(r, IF IsCancelled(r) THEN "cancelled" ELSE "transport")

Retry(r) == /\ pc[r] = "running"
            /\ ~IsCancelled(r)
            /\ attempt[r] < MaxRetries
            /\ Goto(r, "backoff")
            /\ UNCHANGED <<result, attempt, queued, permits, waiters, cancelled>>

BackoffElapses(r) == /\ pc[r] = "backoff"
                     /\ Goto(r, "running")
                     /\ attempt' = [attempt EXCEPT ![r] = @ + 1]
                     /\ UNCHANGED <<result, queued, permits, waiters, cancelled>>

(* Mutant: a permit handed to a waiter is also counted as free again.      *)
ReleaseTwice(r) == /\ pc[r] = "settled"
                   /\ permits' = permits + 1
                   /\ \/ waiters = <<>> /\ Goto(r, "done") /\ UNCHANGED waiters
                      \/ /\ waiters # <<>>
                         /\ waiters' = Tail(waiters)
                         /\ pc' = [pc EXCEPT ![r] = "done", ![Head(waiters)] = "granted"]
                   /\ UNCHANGED <<result, attempt, queued, cancelled>>

(* drop(permit): the permit goes to the longest waiter, if there is one.   *)
Release(r) == /\ pc[r] = "settled"
              /\ \/ /\ waiters = <<>>
                    /\ permits' = permits + 1
                    /\ Goto(r, "done")
                    /\ UNCHANGED waiters
                 \/ /\ waiters # <<>>
                    /\ waiters' = Tail(waiters)
                    /\ pc' = [pc EXCEPT ![r] = "done", ![Head(waiters)] = "granted"]
                    /\ UNCHANGED permits
              /\ UNCHANGED <<result, attempt, queued, cancelled>>
-----------------------------------------------------------------------------
Code(r) == Count(r) \/ Reject(r) \/ Acquire(r) \/ Dequeue(r) \/ Launch(r) \/ Release(r)
Timer(r) == WaitTimeout(r) \/ RequestTimeout(r)
Transport(r) == \/ \E b \in BOOLEAN : TransportSucceeds(r, b) \/ TransportFails(r, b)
                \/ Retry(r) \/ BackoffElapses(r)

Next == \/ \E t \in Tokens : Cancel(t)
        \/ \E r \in Requests : Start(r) \/ Code(r) \/ Timer(r) \/ Transport(r) \/ ObserveCancel(r)

(* The executor polls what is ready and its timers fire; a server owes     *)
(* nothing, so the transport gets no fairness.                             *)
Fairness == \A r \in Requests : WF_vars(Code(r)) /\ WF_vars(Timer(r))

Spec == Init /\ [][Next]_vars /\ Fairness
-----------------------------------------------------------------------------
TypeOK == /\ pc \in [Requests -> PCs]
          /\ result \in [Requests -> Outcomes \cup {None}]
          /\ attempt \in [Requests -> 0..MaxRetries]
          /\ queued \in Nat
          /\ permits \in 0..MaxConcurrency
          /\ waiters \in Seq(Requests)
          /\ cancelled \subseteq Tokens

(* No permit is lost or minted on any of the ways out of fetch(), and the  *)
(* semaphore keeps none back while someone waits.                          *)
PermitsConserved == /\ permits + Cardinality(At(Holding)) = MaxConcurrency
                    /\ permits > 0 => waiters = <<>>

(* queued_len() counts the calls between fetch_add and fetch_sub exactly,  *)
(* so no early return leaks a place in the queue.                          *)
QueueAccounting == queued = Cardinality(At(Counted))

(* However many callers race on fetch_add, at most max_queued are admitted. *)
AdmissionBound == Cardinality(At(Admitted)) <= MaxQueued

(* The semaphore's queue holds exactly the calls that wait in it, once.    *)
WaitersMatch == /\ ToSet(waiters) = At({"waiting"})
                /\ IsInjective(waiters)

(* The scheduler implements the bounded service of its callers.            *)
Service == INSTANCE BoundedService WITH
             Capacity <- MaxConcurrency,
             inService <- At(Transporting),
             outcome <- result,
             withdrawn <- {r \in Requests : IsCancelled(r)}
ImplementsService == Service!Spec

(* Every call that gets past Start is answered, whatever the server does.  *)
Answered == \A r \in Requests : pc[r] = "checked" ~> pc[r] = "done"
=============================================================================
