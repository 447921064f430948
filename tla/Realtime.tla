------------------------------- MODULE Realtime -------------------------------
(* WebSocket and EventSource (src/src/realtime.rs): a client that the script  *)
(* polls and a thread that owns the connection, joined by two bounded         *)
(* channels.  The thread never waits for room: what does not fit is lost.     *)
(* One client is modelled, of either kind.                                    *)
EXTENDS Integers, Sequences, SequencesExt

CONSTANTS
  QueueLimit,   \* MAX_REALTIME_QUEUE; 100 in the code
  LastMessage   \* bound on what each side sends

RealtimeAssumption == {QueueLimit, LastMessage} \subseteq Nat \ {0}

VARIABLES
  kind,       \* "socket" or "source"
  held,       \* the page still has the client; then both channels have two ends
  ready,      \* ready_state
  sentQueue,  \* sent_queue; bufferedAmount is its size
  inbox,      \* receive_queue
  commands,   \* the channel to the thread; for a source, close_tx
  events,     \* the channel from the thread
  thread,     \* where the transport is
  call,       \* what the page is in the middle of, or "none"
  asked,      \* history: a close() of the page was accepted
  written,    \* history: messages that send() accepted
  served      \* history: messages of the server

client == <<ready, sentQueue, inbox>>
channels == <<commands, events>>
page == <<call, asked, written>>
vars == <<kind, held, client, channels, thread, page, served>>

Limit(kindOf) == IF kindOf = "socket" THEN QueueLimit ELSE 1

-----------------------------------------------------------------------------
(* The thread.                                                               *)

\* try_send().
Emit(what) ==
  events' = IF held /\ Len(events) < QueueLimit THEN Append(events, what) ELSE events

EndsWith(what) ==
  /\ Emit(what)
  /\ thread' = "ended"

\* connect_with_config().
Connect ==
  /\ thread = "connect" /\ kind = "socket"
  /\ \/ Emit([type |-> "open"]) /\ thread' = "commands"
     \/ EndsWith([type |-> "error"])
  /\ UNCHANGED <<kind, held, client, commands, page, served>>

\* The request of an EventSource fails, or its answer is no event stream.
Request ==
  /\ thread = "connect" /\ kind = "source"
  /\ \/ Emit([type |-> "open"]) /\ thread' = "close?"
     \/ Emit([type |-> "error"]) /\ thread' = "wait"
  /\ UNCHANGED <<kind, held, client, commands, page, served>>

\* A WebSocket serves its commands before it reads.
TakeCommand ==
  /\ thread = "commands"
  /\ commands # <<>>
  /\ commands' = Tail(commands)
  /\ \/ /\ Head(commands).type = "send"
        /\ \/ Emit([type |-> "sent"]) /\ UNCHANGED thread
           \/ EndsWith([type |-> "error"])
     \/ Head(commands).type = "close" /\ EndsWith([type |-> "closed"])
  /\ UNCHANGED <<kind, held, client, page, served>>

\* Mutant: a channel without a sender is taken for an empty one.
NoCommandAtAll ==
  /\ thread = "commands"
  /\ commands = <<>>
  /\ thread' = "read"
  /\ UNCHANGED <<kind, held, client, channels, page, served>>

NoCommand ==
  /\ thread = "commands"
  /\ commands = <<>>
  /\ thread' = IF held THEN "read" ELSE "ended"
  /\ UNCHANGED <<kind, held, client, channels, page, served>>

\* An EventSource looks for a close() before it connects and before it reads.
LookForClose ==
  /\ thread \in {"request", "close?", "wait"}
  /\ \/ /\ commands # <<>>
        /\ commands' = Tail(commands)
        /\ EndsWith([type |-> "closed"])
     \/ /\ commands = <<>>
        /\ thread' = CASE thread = "request" -> "connect"
                       [] thread = "close?" -> "read"
                       [] thread = "wait" -> "request"
        /\ UNCHANGED <<commands, events>>
  /\ UNCHANGED <<kind, held, client, page, served>>

Receive ==
  /\ served < LastMessage
  /\ served' = served + 1
  /\ Emit([type |-> "message", number |-> served + 1])

\* A message, nothing before the timeout, the end or an error.
ReadSocket ==
  /\ thread = "read" /\ kind = "socket"
  /\ \/ Receive /\ thread' = "commands"
     \/ thread' = "commands" /\ UNCHANGED <<events, served>>
     \/ EndsWith([type |-> "closed"]) /\ UNCHANGED served
     \/ EndsWith([type |-> "error"]) /\ UNCHANGED served
  /\ UNCHANGED <<kind, held, client, commands, page>>

\* A stream that ends or fails is asked for again; one that sends more than the
\* buffer holds is not.
ReadSource ==
  /\ thread = "read" /\ kind = "source"
  /\ \/ Receive /\ thread' = "close?"
     \/ thread' = "close?" /\ UNCHANGED <<events, served>>
     \/ Emit([type |-> "closed"]) /\ thread' = "wait" /\ UNCHANGED served
     \/ Emit([type |-> "error"]) /\ thread' = "wait" /\ UNCHANGED served
     \/ EndsWith([type |-> "error"]) /\ UNCHANGED served
  /\ UNCHANGED <<kind, held, client, commands, page>>

Transport ==
  \/ Connect \/ TakeCommand \/ NoCommand \/ ReadSocket
  \/ Request \/ LookForClose \/ ReadSource
-----------------------------------------------------------------------------
(* The client.                                                               *)

Messages(s) == SelectSeq(s, LAMBDA e : e.type = "message")

\* receive_queue takes no more than its limit.
FirstOf(s) == SubSeq(s, 1, IF Len(s) < QueueLimit THEN Len(s) ELSE QueueLimit)

\* What pump_transport() does with the events it finds, the last of which tells
\* the state; with none left it sees whether the thread has ended.
StateAfter(s, before) ==
  LET telling == SelectSeq(s, LAMBDA e : e.type \in {"open", "closed", "error"})
  IN  IF telling = <<>> THEN before
      ELSE IF Last(telling).type = "open" THEN "open" ELSE "closed"

\* Mutant: only the events tell the state, the end of the thread does not.
PumpEventsOnly ==
  /\ ready' = StateAfter(events, ready)
  /\ inbox' = FirstOf(inbox \o Messages(events))
  /\ LET sent == Len(SelectSeq(events, LAMBDA e : e.type = "sent"))
     IN  sentQueue' = SubSeq(sentQueue, sent + 1, Len(sentQueue))
  /\ events' = <<>>

Pump ==
  /\ ready' = IF thread = "ended" THEN "closed" ELSE StateAfter(events, ready)
  /\ inbox' = FirstOf(inbox \o Messages(events))
  /\ LET sent == Len(SelectSeq(events, LAMBDA e : e.type = "sent"))
     IN  sentQueue' = SubSeq(sentQueue, sent + 1, Len(sentQueue))
  /\ events' = <<>>

\* The calls of the page begin with a pump, but for close() of a source, and
\* the thread may go on before they do the rest.  Reading readyState is poll
\* without the message.
Begin(what) ==
  /\ held
  /\ call = "none"
  /\ call' = what
  /\ IF kind = "source" /\ what = "close" THEN UNCHANGED <<client, events>> ELSE Pump
  /\ UNCHANGED <<kind, held, commands, thread, asked, written, served>>

Room == thread # "ended" /\ Len(commands) < Limit(kind)

Send ==
  /\ call = "send"
  /\ call' = "none"
  /\ IF ready = "open" /\ Len(sentQueue) < QueueLimit /\ Room /\ written < LastMessage
     THEN /\ commands' = Append(commands, [type |-> "send"])
          /\ sentQueue' = Append(sentQueue, written + 1)
          /\ written' = written + 1
     ELSE UNCHANGED <<commands, sentQueue, written>>
  /\ UNCHANGED <<kind, held, ready, inbox, events, thread, asked, served>>

\* close() of a socket that finds no room throws, and leaves CLOSING.
CloseSocket ==
  /\ kind = "socket"
  /\ ready' = IF ready = "closed" \/ thread = "ended" THEN "closed" ELSE "closing"
  /\ commands' = IF ready # "closed" /\ Room
                 THEN Append(commands, [type |-> "close"]) ELSE commands
  /\ asked' = (asked \/ ready = "closed" \/ thread = "ended" \/ Room)

CloseSource ==
  /\ kind = "source"
  /\ ready' = "closed"
  /\ commands' = IF Room THEN Append(commands, [type |-> "close"]) ELSE commands
  /\ asked' = TRUE

Close ==
  /\ call = "close"
  /\ call' = "none"
  /\ CloseSocket \/ CloseSource
  /\ UNCHANGED <<kind, held, sentQueue, inbox, events, thread, written, served>>

Poll ==
  /\ call = "poll"
  /\ call' = "none"
  /\ IF inbox = <<>> THEN UNCHANGED inbox
     ELSE inbox' = Tail(inbox)
  /\ UNCHANGED <<kind, held, ready, sentQueue, channels, thread, asked, written, served>>

\* The page goes: its ends of the channels go with the client.
Release ==
  /\ held
  /\ call = "none"
  /\ held' = FALSE
  /\ events' = <<>>
  /\ UNCHANGED <<kind, client, commands, thread, page, served>>

-----------------------------------------------------------------------------
Init ==
  /\ kind \in {"socket", "source"}
  /\ held = TRUE
  /\ ready = "connecting" /\ sentQueue = <<>> /\ inbox = <<>>
  /\ commands = <<>> /\ events = <<>>
  /\ thread = IF kind = "socket" THEN "connect" ELSE "request"
  /\ call = "none" /\ asked = FALSE /\ written = 0 /\ served = 0

Next ==
  \/ Transport
  \/ \E what \in {"close", "poll"} : Begin(what)
  \/ kind = "socket" /\ Begin("send")
  \/ Send \/ Close \/ Poll
  \/ Release

\* The thread runs, connecting and reading end (both have timeouts), and the
\* page, which learns of nothing unless it asks, keeps asking.
Fairness == WF_vars(Transport) /\ WF_vars(Begin("poll")) /\ WF_vars(Send \/ Close \/ Poll)

Spec == Init /\ [][Next]_vars /\ Fairness
-----------------------------------------------------------------------------
\* A close() that did not throw comes true for good, whatever the channels
\* lost: the page ends with readyState CLOSED (close, websocket_transport).
CloseCompletes == <>[](asked => ready = "closed" \/ ~ held)

\* The thread of a WebSocket ends after the page that opened it is gone.
SocketIsReleased == ~ held /\ kind = "socket" ~> thread = "ended"

\* realtime.rs says of sent_queue that a message is retired because "otherwise
\* the queue grows forever and every send fails once MAX_REALTIME_QUEUE is
\* reached on a healthy socket".
HealthySocketSends ==
  kind = "socket" /\ held /\ ready = "open" /\ thread # "ended" /\ commands = <<>>
    /\ events = <<>> => Len(sentQueue) < QueueLimit

=============================================================================
