--------------------------- MODULE WorkerExchange ---------------------------
(* One document prepared in a worker process (exchange_with_program in        *)
(* src/src/worker.rs, run_worker_stdio in the child).  The browser writes the *)
(* request from a thread, polls that thread and then the child, and reads the *)
(* answer and the child's stderr from two more threads.  The three pipes hold *)
(* a few chunks each, and the child may hang or die at any point.             *)
EXTENDS Naturals

CONSTANTS
  Capacity,       \* chunks a pipe holds
  RequestChunks,  \* of the framed request
  AnswerChunks,   \* of the framed response
  Chatter,        \* chunks the worker writes to stderr at most
  StderrLimit     \* MAX_WORKER_STDERR_BYTES in chunks

ExchangeAssumption ==
  /\ Capacity \in Nat \ {0} /\ RequestChunks \in Nat \ {0} /\ AnswerChunks \in Nat \ {0}
  /\ StderrLimit \in Nat
  /\ Chatter \in 0..Capacity

VARIABLES
  pc,         \* where exchange_with_program is
  result,     \* what it returned
  late,       \* the deadline of the current phase has passed
  cancelled,  \* WorkerCancellationToken::cancelled
  child,      \* "none", what it does, or how it ended
  hung,
  answer,     \* what the child has prepared
  stdin, stdout, stderr,         \* chunks in the pipes
  sent, got, said, told,         \* chunks written to and read from stdin, written to the others
  taken, heard,                  \* chunks read from stdout and stderr
  writer, reader, errReader,     \* the threads
  faults      \* what has gone wrong outside the browser

request == <<stdin, sent, got>>
response == <<stdout, said, taken>>
complaints == <<stderr, told, heard>>
threads == <<writer, reader, errReader>>
vars == <<pc, result, late, cancelled, child, hung, answer, request, response, complaints,
          threads, faults>>

Working == {"reading", "preparing", "answering"}
Alive == child \in Working
Finished(thread) == thread \in {"ok", "error"}

TypeOK ==
  /\ pc \in {"start", "spawned", "writing", "sent", "waiting", "listening", "failing",
             "decoding", "droppingWriter", "droppingCancelled", "droppingLate", "done"}
  /\ result \in {"none", "document", "refused", "io", "worker", "timeout", "cancelled"}
  /\ child \in Working \cup {"none", "exited", "failed"}
  /\ answer \in {"none", "document", "refusal", "large"}
  /\ {writer, reader, errReader} \subseteq {"none", "running", "ok", "error"}
  /\ {late, cancelled, hung} \subseteq BOOLEAN
  /\ {stdin, stdout, stderr} \subseteq 0..Capacity
  /\ sent \in 0..RequestChunks /\ got \in 0..RequestChunks
  /\ said \in 0..AnswerChunks /\ taken \in 0..AnswerChunks
  /\ told \in 0..Chatter /\ heard \in 0..StderrLimit
  /\ faults \subseteq {"spawn", "hang", "crash", "poll"}

Init ==
  /\ pc = "start" /\ result = "none" /\ late = FALSE /\ cancelled = FALSE
  /\ child = "none" /\ hung = FALSE /\ answer = "none"
  /\ stdin = 0 /\ sent = 0 /\ got = 0
  /\ stdout = 0 /\ said = 0 /\ taken = 0
  /\ stderr = 0 /\ told = 0 /\ heard = 0
  /\ writer = "none" /\ reader = "none" /\ errReader = "none"
  /\ faults = {}

-----------------------------------------------------------------------------
(* The worker: run_worker_stdio.                                             *)

Well == Alive /\ ~hung

Works(other) == UNCHANGED <<pc, result, late, cancelled, hung, threads, faults>> /\ other

ReadRequest ==
  /\ child = "reading" /\ stdin > 0
  /\ stdin' = stdin - 1 /\ got' = got + 1
  /\ child' = IF got' = RequestChunks THEN "preparing" ELSE "reading"
  /\ Works(UNCHANGED <<sent, answer, response, complaints>>)

\* The prepared document, an error for the tab, or a response over the limit,
\* with which the worker gives up.
Prepare ==
  /\ child = "preparing"
  /\ answer' \in {"document", "refusal", "large"}
  /\ child' = IF answer' = "large" THEN "failed" ELSE "answering"
  /\ Works(UNCHANGED <<request, response, complaints>>)

WriteAnswer ==
  /\ child = "answering"
  /\ IF Finished(reader)
       THEN child' = "failed" /\ UNCHANGED response
       ELSE /\ stdout < Capacity
            /\ stdout' = stdout + 1 /\ said' = said + 1
            /\ child' = IF said' = AnswerChunks THEN "exited" ELSE "answering"
            /\ UNCHANGED taken
  /\ Works(UNCHANGED <<request, answer, complaints>>)

\* Writing to a stderr that nobody reads any more is a panic.
Complain ==
  /\ Alive /\ told < Chatter
  /\ IF Finished(errReader)
       THEN child' = "failed" /\ UNCHANGED complaints
       ELSE /\ stderr < Capacity
            /\ stderr' = stderr + 1 /\ told' = told + 1
            /\ UNCHANGED <<child, heard>>
  /\ Works(UNCHANGED <<request, answer, response>>)

Work == ~hung /\ (ReadRequest \/ Prepare \/ WriteAnswer \/ Complain)

Hang ==
  /\ Well
  /\ hung' = TRUE /\ faults' = faults \cup {"hang"}
  /\ UNCHANGED <<pc, result, late, cancelled, child, answer, request, response, complaints, threads>>

Crash ==
  /\ Alive
  /\ child' = "failed" /\ faults' = faults \cup {"crash"}
  /\ UNCHANGED <<pc, result, late, cancelled, hung, answer, request, response, complaints, threads>>

-----------------------------------------------------------------------------
(* The threads.  The ends of a pipe close with the process or the thread.    *)

WriteRequest ==
  /\ writer = "running"
  /\ IF ~Alive
       THEN writer' = "error" /\ UNCHANGED <<stdin, sent>>
       ELSE /\ stdin < Capacity
            /\ stdin' = stdin + 1 /\ sent' = sent + 1
            /\ writer' = IF sent' = RequestChunks THEN "ok" ELSE "running"
  /\ UNCHANGED <<pc, result, late, cancelled, child, hung, answer, got, response, complaints,
                 reader, errReader, faults>>

ReadAnswer ==
  /\ reader = "running"
  /\ \/ /\ stdout > 0
        /\ stdout' = stdout - 1 /\ taken' = taken + 1
        /\ reader' = IF taken' = AnswerChunks THEN "ok" ELSE "running"
     \/ stdout = 0 /\ ~Alive /\ reader' = "error" /\ UNCHANGED <<stdout, taken>>
  /\ UNCHANGED <<pc, result, late, cancelled, child, hung, answer, said, request, complaints,
                 writer, errReader, faults>>

ReadStderr ==
  /\ errReader = "running"
  /\ \/ /\ stderr > 0 /\ heard < StderrLimit
        /\ stderr' = stderr - 1 /\ heard' = heard + 1
        /\ UNCHANGED errReader
     \/ /\ heard = StderrLimit \/ (stderr = 0 /\ ~Alive)
        /\ errReader' = "ok" /\ UNCHANGED <<stderr, heard>>
  /\ UNCHANGED <<pc, result, late, cancelled, child, hung, answer, told, request, response,
                 writer, reader, faults>>

-----------------------------------------------------------------------------
(* exchange_with_program.                                                    *)

\* Mutant: the child is left to itself.
LeaveRunning == UNCHANGED child

Kill == child' = IF Alive THEN "failed" ELSE child

Pipes == UNCHANGED <<request, response, complaints, hung, answer>>

\* Every return drops the ChildGuard.
Return(r) == pc' = "done" /\ result' = r /\ Kill /\ UNCHANGED <<late, threads>>
GoTo(label) == pc' = label /\ UNCHANGED <<result, late, child, threads>>
KillAndGoTo(label) == pc' = label /\ Kill /\ UNCHANGED <<result, late, threads>>

Start ==
  /\ pc = "start"
  /\ IF cancelled
       THEN Return("cancelled") /\ UNCHANGED faults
       ELSE \/ Return("io") /\ faults' = faults \cup {"spawn"}
            \/ /\ child' = "reading" /\ pc' = "spawned"
               /\ UNCHANGED <<result, late, threads, faults>>
  /\ Pipes /\ UNCHANGED cancelled

Spawned ==
  /\ pc = "spawned"
  /\ IF cancelled
       THEN Return("cancelled")
       ELSE /\ writer' = "running" /\ late' = FALSE /\ pc' = "writing"
            /\ UNCHANGED <<result, child, reader, errReader>>
  /\ Pipes /\ UNCHANGED <<cancelled, faults>>

\* One round of the polling loop that changes something.
PollWriter ==
  /\ pc = "writing"
  /\ \/ writer = "ok" /\ GoTo("sent")
     \/ writer = "error" /\ Return("io")
     \/ ~Finished(writer) /\ (cancelled \/ late) /\ KillAndGoTo("droppingWriter")
  /\ Pipes /\ UNCHANGED <<cancelled, faults>>

DropWriter ==
  /\ pc = "droppingWriter" /\ Finished(writer)
  /\ Return(IF cancelled THEN "cancelled" ELSE "timeout")
  /\ Pipes /\ UNCHANGED <<cancelled, faults>>

\* Mutant: stdout is read once the child has exited.
StartReadersLate == errReader' = "running" /\ UNCHANGED reader

StartReaders == reader' = "running" /\ errReader' = "running"

Sent ==
  /\ pc = "sent"
  /\ IF cancelled
       THEN Return("cancelled")
       ELSE /\ StartReaders /\ late' = FALSE /\ pc' = "waiting"
            /\ UNCHANGED <<result, child, writer>>
  /\ Pipes /\ UNCHANGED <<cancelled, faults>>

\* Cancellation first, then the child's status, then the deadline.
PollChild ==
  /\ pc = "waiting"
  /\ \/ cancelled /\ KillAndGoTo("droppingCancelled")
     \/ ~cancelled /\ ~Alive /\ GoTo("listening")
     \/ ~cancelled /\ Alive /\ late /\ KillAndGoTo("droppingLate")
  /\ Pipes /\ UNCHANGED <<cancelled, faults>>

PollFails ==
  /\ pc = "waiting" /\ ~cancelled
  /\ Return("io") /\ faults' = faults \cup {"poll"}
  /\ Pipes /\ UNCHANGED cancelled

DropReaders ==
  /\ Finished(reader) /\ Finished(errReader)
  /\ \/ pc = "droppingCancelled" /\ Return("cancelled")
     \/ pc = "droppingLate" /\ Return("timeout")
  /\ Pipes /\ UNCHANGED <<cancelled, faults>>

JoinStderr ==
  /\ pc = "listening" /\ Finished(errReader)
  /\ GoTo(IF child = "exited" THEN "decoding" ELSE "failing")
  /\ Pipes /\ UNCHANGED <<cancelled, faults>>

JoinReader ==
  /\ Finished(reader)
  /\ \/ pc = "failing" /\ Return("worker")
     \/ /\ pc = "decoding"
        /\ Return(IF reader = "error" THEN "io"
                  ELSE IF answer = "document" THEN "document" ELSE "refused")
  /\ Pipes /\ UNCHANGED <<cancelled, faults>>

Browser == Start \/ Spawned \/ PollWriter \/ DropWriter \/ Sent \/ PollChild \/ DropReaders
             \/ JoinStderr \/ JoinReader

Cancel ==
  /\ ~cancelled /\ cancelled' = TRUE
  /\ UNCHANGED <<pc, result, late, child, hung, answer, request, response, complaints, threads,
                 faults>>

DeadlinePasses ==
  /\ pc \in {"writing", "waiting"} /\ ~late
  /\ late' = TRUE
  /\ UNCHANGED <<pc, result, cancelled, child, hung, answer, request, response, complaints,
                 threads, faults>>

Next == Work \/ Hang \/ Crash \/ WriteRequest \/ ReadAnswer \/ ReadStderr
          \/ Browser \/ PollFails \/ Cancel \/ DeadlinePasses

\* The browser's threads run and its clock goes on; nothing is asked of the child.
Fairness ==
  /\ WF_vars(Browser) /\ WF_vars(WriteRequest) /\ WF_vars(ReadAnswer) /\ WF_vars(ReadStderr)
  /\ WF_vars(DeadlinePasses)

Spec == Init /\ [][Next]_vars /\ Fairness
-----------------------------------------------------------------------------

\* Whatever the child does, and wherever it stops doing it, the call returns,
\* the child is gone and no thread of the exchange stays behind.
ExchangeEnds == <>[](pc = "done" /\ ~Alive /\ "running" \notin {writer, reader, errReader})

\* Without a fault outside the browser no call fails: a worker that does its
\* work is never taken for a broken one, and before the call has returned
\* somebody can move without waiting for the deadline, so that the pipes never
\* leave everyone waiting on everyone.
HealthyIsAnswered ==
  faults = {} =>
    IF pc = "done"
      THEN \/ result = "cancelled" /\ cancelled
           \/ result = "timeout" /\ late
           \/ result = "worker" /\ answer = "large"
           \/ result = "document" /\ answer = "document" /\ taken = AnswerChunks
           \/ result = "refused" /\ answer = "refusal" /\ taken = AnswerChunks
      ELSE ENABLED (Browser \/ Work \/ WriteRequest \/ ReadAnswer \/ ReadStderr)
=============================================================================
