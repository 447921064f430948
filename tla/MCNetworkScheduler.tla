------------------------ MODULE MCNetworkScheduler ------------------------
(* The scheduler with three well-formed calls, two of which share a token  *)
(* as the resources of one document bundle do, and one call whose URL is   *)
(* not http(s); the token itself, with two waiters and two cancellers; and *)
(* the connection of a WebSocket or EventSource with channels of two       *)
(* messages.  The scheduler's model takes the token as its flag, and long  *)
(* connections pass the scheduler by, so the three are checked side by     *)
(* side: `part` says which of them a behaviour is about.  A fourth part,   *)
(* which shares nothing with them, is the objects of a script: lists and   *)
(* collections of two entries, three calls.                                *)
EXTENDS Transfers, TLC

CONSTANTS a, b, c, bad, tokenA, tokenB

MCRequests == {a, b, c, bad}
MCHttpRequests == {a, b, c}
MCTokenOf == (a :> tokenA) @@ (b :> tokenA) @@ (c :> tokenB) @@ (bad :> tokenB)

VARIABLES part, kind, held, ready, sentQueue, inbox, commands, events, thread, call, asked,
          written, served, heap, roots, log, cursor, visits

clientVars == <<kind, held, ready, sentQueue, inbox, commands, events, thread, call, asked,
                written, served>>

objectVars == <<heap, roots, log, cursor, visits>>

Client == INSTANCE Realtime WITH QueueLimit <- 2, LastMessage <- 3
Objects == INSTANCE ScriptObjects WITH held <- roots, MaxItems <- 2, MaxEntries <- 2,
                                      MaxChain <- 4, LastCall <- 3

ASSUME Client!RealtimeAssumption
ASSUME Objects!ObjectsAssumption

allVars == <<part, vars, tokenVars, clientVars, objectVars>>
Scheduler == part = "scheduler" /\ UNCHANGED <<part, tokenVars, clientVars, objectVars>>
InToken == part = "token" /\ UNCHANGED <<part, vars, clientVars, objectVars>>
InClient == part = "client" /\ UNCHANGED <<part, vars, tokenVars, objectVars>>
InObjects == part = "objects" /\ UNCHANGED <<part, vars, tokenVars, clientVars>>

MCInit == /\ part \in {"scheduler", "token", "client", "objects"}
          /\ Init /\ Token!Init /\ Client!Init /\ Objects!Init
          /\ part # "client" => kind = "socket"
          /\ part # "objects" => log = <<>> /\ heap["s"].kind = "object" /\ heap["o2"].proto = "none"
MCNext == (Scheduler /\ Next) \/ (InToken /\ Token!Next) \/ (InClient /\ Client!Next)
          \/ (InObjects /\ Objects!Next)
MCFairness ==
  /\ \A r \in Requests : /\ WF_allVars(Scheduler /\ Code(r))
                         /\ WF_allVars(Scheduler /\ Timer(r))
  /\ \A x \in Cancellers : WF_allVars(InToken /\ Token!NotifyWaiters(x))
  /\ \A w \in Waiters : WF_allVars(InToken /\ Token!WaiterStep(w))
  /\ WF_allVars(InClient /\ Client!Transport)
  /\ WF_allVars(InClient /\ Client!Begin("poll"))
  /\ WF_allVars(InClient /\ (Client!Send \/ Client!Close \/ Client!Poll))
MCSpec == MCInit /\ [][MCNext]_allVars /\ MCFairness

\* Stated in Realtime and ScriptObjects.
CloseCompletes == Client!CloseCompletes
SocketIsReleased == Client!SocketIsReleased
ObjectsAgree == part = "objects" => Objects!ObjectsAgree
=============================================================================
