------------------------------ MODULE Transfers ------------------------------
(* The network scheduler and the token that cancels its calls.  The model of *)
(* the scheduler takes a token as its flag; how the tasks that wait for the  *)
(* flag come to see it is a matter of the token alone.                       *)
EXTENDS NetworkScheduler

CONSTANTS Waiters,      \* tasks that await cancelled() on a clone of one token
          Cancellers    \* callers of its cancel()

VARIABLES flag, epoch, seen, waiter, canceller

tokenVars == <<flag, epoch, seen, waiter, canceller>>

Token == INSTANCE CancellationToken

\* Stated in CancellationToken.
NoLostWakeup == Token!NoLostWakeup
CancelReachesWaiters == Token!CancelReachesWaiters
=============================================================================
