------------------------ MODULE MCProcessCoordinator ------------------------
(* A coordinator with two origins and two tabs; one with a single origin     *)
(* whose manager's watchdog runs between the calls as well; and the exchange *)
(* with the worker that prepares one document.  They share no state: `part`  *)
(* says which of them a behaviour is about.                                  *)
EXTENDS ProcessCoordinator

VARIABLES part, processes2, native2, os2, replies2, overdue2, nextPid2, services2,
          renderers2, tabs2, pc2, target2, sweep2, respawn2, lost2, faults2,
          state, result, late, cancelled, child, hung, answer, stdin, stdout, stderr,
          sent, got, said, told, taken, heard, writer, reader, errReader, broken

watchedVars == <<processes2, native2, os2, replies2, overdue2, nextPid2, services2,
  renderers2, tabs2, pc2, target2, sweep2, respawn2, lost2, faults2>>
workerVars == <<state, result, late, cancelled, child, hung, answer, stdin, stdout, stderr,
  sent, got, said, told, taken, heard, writer, reader, errReader, broken>>

Watched == INSTANCE ProcessCoordinator WITH
  Origins <- {"site"}, Tabs <- {"tab"}, MaxFaults <- 1,
  processes <- processes2, native <- native2, os <- os2, replies <- replies2,
  overdue <- overdue2, nextPid <- nextPid2, services <- services2,
  renderers <- renderers2, tabs <- tabs2, pc <- pc2, target <- target2,
  sweep <- sweep2, respawn <- respawn2, lost <- lost2, faults <- faults2

Worker == INSTANCE WorkerExchange WITH
  Capacity <- 2, RequestChunks <- 3, AnswerChunks <- 3, Chatter <- 2, StderrLimit <- 3,
  pc <- state, faults <- broken

ASSUME Worker!ExchangeAssumption

allVars == <<part, vars, watchedVars, workerVars>>
Apart == part = "plain" /\ UNCHANGED <<part, watchedVars, workerVars>>
InWorker == part = "worker" /\ UNCHANGED <<part, vars, watchedVars>>

MCInit == part \in {"plain", "watched", "worker"} /\ Init /\ Watched!Init /\ Worker!Init
MCNext == \/ Apart /\ Next
          \/ part = "watched" /\ Watched!NextWatched /\ UNCHANGED <<part, vars, workerVars>>
          \/ InWorker /\ Worker!Next
MCFairness ==
  /\ WF_allVars(Apart /\ Continue)
  /\ WF_allVars(InWorker /\ Worker!Browser)
  /\ WF_allVars(InWorker /\ Worker!WriteRequest)
  /\ WF_allVars(InWorker /\ Worker!ReadAnswer)
  /\ WF_allVars(InWorker /\ Worker!ReadStderr)
  /\ WF_allVars(InWorker /\ Worker!DeadlinePasses)
MCSpec == MCInit /\ [][MCNext]_allVars /\ MCFairness

\* Stated in ProcessCoordinator and WorkerExchange.
IsolatedUnderWatch == Watched!Isolated
HealthyIsAnswered == part = "worker" => Worker!HealthyIsAnswered
ExchangeEnds == part = "worker" => Worker!ExchangeEnds
=============================================================================
