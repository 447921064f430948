------------------------- MODULE CancellationToken -------------------------
(***************************************************************************)
(* The cooperative cancellation token of the network scheduler: an atomic  *)
(* flag and a tokio Notify.  cancel() stores the flag and then calls       *)
(* notify_waiters(); cancelled() creates its Notified future, checks the   *)
(* flag, and only then awaits.  A Notified future is complete once         *)
(* notify_waiters() ran after the future was CREATED, which is modelled by *)
(* an epoch that every notify_waiters() advances.                          *)
(***************************************************************************)
EXTENDS Naturals

CONSTANTS Waiters,      \* tasks that await cancelled() on a clone of the token
          Cancellers    \* callers of cancel(), one call each

VARIABLES flag,         \* the AtomicBool
          epoch,        \* how often notify_waiters() has run
          seen,         \* per waiter: the epoch its Notified future was created in
          waiter,       \* per waiter: where cancelled() stands
          canceller     \* per canceller: where cancel() stands

vars == <<flag, epoch, seen, waiter, canceller>>

Init == /\ flag = FALSE
        /\ epoch = 0
        /\ seen = [w \in Waiters |-> 0]
        /\ waiter = [w \in Waiters |-> "idle"]
        /\ canceller = [c \in Cancellers |-> "idle"]

(* cancel(): the store and the notification are two steps.                 *)
StoreFlag(c) == /\ canceller[c] = "idle"
                /\ flag' = TRUE
                /\ canceller' = [canceller EXCEPT ![c] = "stored"]
                /\ UNCHANGED <<epoch, seen, waiter>>

(* Mutant: only the flag is set, as a plain AtomicBool token would do.     *)
SkipNotify(c) == /\ canceller[c] = "stored"
                 /\ canceller' = [canceller EXCEPT ![c] = "done"]
                 /\ UNCHANGED <<flag, epoch, seen, waiter>>

NotifyWaiters(c) == /\ canceller[c] = "stored"
                    /\ epoch' = epoch + 1
                    /\ canceller' = [canceller EXCEPT ![c] = "done"]
                    /\ UNCHANGED <<flag, seen, waiter>>

Register(w) == /\ waiter[w] = "idle"
               /\ seen' = [seen EXCEPT ![w] = epoch]
               /\ waiter' = [waiter EXCEPT ![w] = "registered"]
               /\ UNCHANGED <<flag, epoch, canceller>>

(* Mutant: the flag is not checked again once the future exists.           *)
AwaitUnchecked(w) == /\ waiter[w] = "registered"
                     /\ waiter' = [waiter EXCEPT ![w] = "parked"]
                     /\ UNCHANGED <<flag, epoch, seen, canceller>>

CheckFlag(w) == /\ waiter[w] = "registered"
                /\ waiter' = [waiter EXCEPT ![w] = IF flag THEN "returned" ELSE "parked"]
                /\ UNCHANGED <<flag, epoch, seen, canceller>>

Wake(w) == /\ waiter[w] = "parked"
           /\ seen[w] # epoch
           /\ waiter' = [waiter EXCEPT ![w] = "idle"]
           /\ UNCHANGED <<flag, epoch, seen, canceller>>

WaiterStep(w) == Register(w) \/ CheckFlag(w) \/ Wake(w)

Next == \/ \E c \in Cancellers : StoreFlag(c) \/ NotifyWaiters(c)
        \/ \E w \in Waiters : WaiterStep(w)

(* A caller of cancel() never stops between the two statements; a waiter   *)
(* whose next step is possible is polled by the executor.                  *)
Fairness == /\ \A c \in Cancellers : WF_vars(NotifyWaiters(c))
            /\ \A w \in Waiters : WF_vars(WaiterStep(w))

Spec == Init /\ [][Next]_vars /\ Fairness
-----------------------------------------------------------------------------
TypeOK == /\ flag \in BOOLEAN
          /\ epoch \in Nat
          /\ seen \in [Waiters -> Nat]
          /\ \A w \in Waiters : seen[w] <= epoch
          /\ waiter \in [Waiters -> {"idle", "registered", "parked", "returned"}]
          /\ canceller \in [Cancellers -> {"idle", "stored", "done"}]

(* A waiter that sleeps on a cancelled token is going to be woken: the     *)
(* notification is either behind its future already or still to be sent.   *)
(* This is the wakeup the comment in cancelled() says was once lost.       *)
NoLostWakeup == \A w \in Waiters :
                  waiter[w] = "parked" /\ flag =>
                    \/ seen[w] # epoch
                    \/ \E c \in Cancellers : canceller[c] = "stored"

(* Once the token is cancelled every task that awaits cancelled() gets     *)
(* out of it, without help from a transport timeout.                       *)
CancelReachesWaiters == \A w \in Waiters : flag ~> waiter[w] = "returned"
=============================================================================
