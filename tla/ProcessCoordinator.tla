------------------------- MODULE ProcessCoordinator -------------------------
(***************************************************************************)
(* The browser's control plane of native child processes: one process per  *)
(* service and one renderer per origin, the IPC round trip with a child,   *)
(* heartbeats and crash recovery.  A call of the coordinator is a sequence *)
(* of steps (pc) between which a child may crash or hang, since the child  *)
(* runs on while the browser thread spawns, writes and waits.              *)
(***************************************************************************)
EXTENDS Naturals, FiniteSets, Functions

CONSTANTS Services,      \* Network, Media, Gpu
          Origins, Tabs,
          ReplyBudget,   \* replies that fit in the reader's byte allowance
          MaxPids,       \* bound: processes of a run
          MaxFaults,     \* bound: crashes, hangs and failed spawns of a run
          None

Pids == 1..MaxPids
Roles == Services \cup Origins
Entries == [role : Roles, state : {"Running", "Unresponsive", "Crashed"}, program : BOOLEAN]

ASSUME CoordinatorAssumption == /\ IsFiniteSet(Services) /\ Services \cap Origins = {}
                                /\ MaxPids \in Nat /\ Cardinality(Services) <= MaxPids
                                /\ ReplyBudget \in Nat \ {0} /\ MaxFaults \in Nat
ASSUME NoneAssumption == None \notin Entries \cup Pids \cup Roles
                                     \cup [origin : Origins, process : Pids]

VARIABLES processes,   \* the manager's table, None where there is no entry
          native,      \* pids with a NativeChildProcess: stdin, reader, handle
          os,          \* what the operating system process does
          replies,     \* lines the reader thread of a child has taken
          overdue,     \* pids without an accepted reply within the timeout
          nextPid, services, renderers,
          tabs,        \* CrashRecoveryEngine::tabs
          pc, target,  \* the call in progress and the process it is about
          sweep,       \* processes heartbeat_and_recover has still to visit
          respawn,     \* the role being recovered and its native program
          lost,        \* history: processes whose recovery failed
          faults

table == <<processes, native, os, replies, overdue, nextPid>>
routes == <<services, renderers, tabs>>
call == <<pc, target, sweep, respawn>>
vars == <<table, routes, call, lost, faults>>

Known == {p \in Pids : processes[p] # None}
Running(p) == p \in Known /\ processes[p].state = "Running"

(* BrowserProcessCoordinator::start, when every startup heartbeat is       *)
(* answered; otherwise there is no coordinator.                            *)
Init == LET N == Cardinality(Services) IN
        /\ services \in Bijection(Services, 1..N)
        /\ processes = [p \in Pids |->
             IF p <= N THEN [role |-> CHOOSE s \in Services : services[s] = p,
                             state |-> "Running", program |-> TRUE]
                       ELSE None]
        /\ native = 1..N
        /\ os = [p \in Pids |-> IF p <= N THEN "alive" ELSE "none"]
        /\ replies = [p \in Pids |-> IF p <= N THEN 1 ELSE 0]
        /\ overdue = {} /\ nextPid = N + 1
        /\ renderers = [o \in Origins |-> None]
        /\ tabs = [t \in Tabs |-> None]
        /\ pc = "idle" /\ target = None /\ sweep = {} /\ respawn = None
        /\ lost = {} /\ faults = 0
-----------------------------------------------------------------------------
(* The children: a process may exit at any moment, or stop reading and     *)
(* answering before it does.                                               *)
ChildFault(p) == /\ os[p] \in {"alive", "hung"}
                 /\ faults < MaxFaults
                 /\ \E next \in {"exited", "hung"} \ {os[p]} : os' = [os EXCEPT ![p] = next]
                 /\ faults' = faults + 1
                 /\ UNCHANGED <<processes, native, replies, overdue, nextPid, routes, call, lost>>

(* spawn_native_process(): the logical entry comes first.  When the        *)
(* program cannot be started it stays behind, running and without a child; *)
(* when the child cannot be contained it is removed again.                 *)
SpawnNative(role) ==
    /\ nextPid <= MaxPids
    /\ nextPid' = nextPid + 1
    /\ processes' = [processes EXCEPT ![nextPid] =
                       [role |-> role, state |-> "Running", program |-> TRUE]]
    /\ native' = native \cup {nextPid}
    /\ os' = [os EXCEPT ![nextPid] = "alive"]
    /\ UNCHANGED <<replies, overdue, faults>>

SpawnFails(role) ==
    /\ nextPid <= MaxPids
    /\ faults < MaxFaults
    /\ faults' = faults + 1
    /\ nextPid' = nextPid + 1
    /\ \/ processes' = [processes EXCEPT ![nextPid] =
                          [role |-> role, state |-> "Running", program |-> FALSE]]
       \/ UNCHANGED processes
    /\ UNCHANGED <<native, os, replies, overdue>>

Kill(p) == native' = native \ {p} /\ os' = [os EXCEPT ![p] = "exited"]

(* send_native_command(), answered: the reader still takes a line.         *)
SendAnswered(p) ==
    /\ p \in native
    /\ processes[p].state # "Crashed"
    /\ os[p] = "alive"
    /\ replies[p] < ReplyBudget
    /\ replies' = [replies EXCEPT ![p] = @ + 1]
    /\ overdue' = overdue \ {p}
    /\ UNCHANGED <<processes, native, os>>

NoChild(p) == /\ p \in Known
              /\ (processes[p].state = "Crashed" \/ p \notin native)
              /\ UNCHANGED <<processes, native, os, replies>>
(* Mutant: a late child is marked but not killed.                          *)
TimesOutKeepsChild(p) ==
    /\ p \in native /\ processes[p].state # "Crashed" /\ os[p] = "hung"
    /\ processes' = [processes EXCEPT ![p].state = "Unresponsive"]
    /\ UNCHANGED <<native, os, replies>>
(* Mutant: the read has no deadline and ends only with the child.          *)
TimesOutAtExit(p) ==
    /\ p \in native /\ processes[p].state # "Crashed" /\ os[p] = "exited"
    /\ processes' = [processes EXCEPT ![p].state = "Unresponsive"]
    /\ Kill(p)
    /\ UNCHANGED replies
TimesOut(p) == /\ p \in native /\ processes[p].state # "Crashed" /\ os[p] = "hung"
               /\ processes' = [processes EXCEPT ![p].state = "Unresponsive"]
               /\ Kill(p)
               /\ UNCHANGED replies
WriteFails(p) == /\ p \in native /\ processes[p].state # "Crashed" /\ os[p] = "exited"
                 /\ UNCHANGED <<processes, native, os, replies>>
Disconnects(p) == /\ p \in native /\ processes[p].state # "Crashed"
                  /\ os[p] = "exited" \/ (os[p] = "alive" /\ replies[p] >= ReplyBudget)
                  /\ Kill(p)
                  /\ UNCHANGED <<processes, replies>>
(* The line that passes the allowance arrives cut off and does not parse.  *)
CutOff(p) == /\ p \in native /\ processes[p].state # "Crashed"
             /\ os[p] = "alive" /\ replies[p] = ReplyBudget
             /\ replies' = [replies EXCEPT ![p] = @ + 1]
             /\ UNCHANGED <<processes, native, os>>

(* send_native_command(), in error: there is no child; the 15 s deadline   *)
(* passes; the pipe is broken; the reader has ended, because the child has *)
(* or because its allowance of bytes, one for the whole stream, is used up. *)
SendFails(p) == /\ NoChild(p) \/ TimesOut(p) \/ WriteFails(p) \/ Disconnects(p) \/ CutOff(p)
                /\ UNCHANGED overdue
-----------------------------------------------------------------------------
(* attach_tab(), a tab navigates to an origin: the renderer is reused or   *)
(* spawned, the tab registered, and only then the command sent.            *)
Register(t, o, p) == /\ tabs' = [tabs EXCEPT ![t] = [origin |-> o, process |-> p]]
                     /\ pc' = "navigate" /\ target' = p
                     /\ UNCHANGED <<services, sweep, respawn, lost>>

Reusable(o) == renderers[o] # None /\ Running(renderers[o])

AttachReuse(t, o) == /\ pc = "idle"
                     /\ Reusable(o)
                     /\ Register(t, o, renderers[o])
                     /\ UNCHANGED <<table, renderers, faults>>

AttachSpawn(t, o) == /\ pc = "idle"
                     /\ ~Reusable(o)
                     /\ SpawnNative(o)
                     /\ renderers' = [renderers EXCEPT ![o] = nextPid]
                     /\ Register(t, o, nextPid)

AttachFails(o) == /\ pc = "idle"
                  /\ ~Reusable(o)
                  /\ SpawnFails(o)
                  /\ UNCHANGED <<routes, call, lost>>

Navigate == /\ pc = "navigate"
            /\ SendAnswered(target) \/ SendFails(target)
            /\ pc' = "idle" /\ target' = None
            /\ UNCHANGED <<nextPid, routes, sweep, respawn, lost, faults>>

(* A command is written whole before the wait for its reply begins, and    *)
(* the write has no deadline.  One that is longer than a pipe holds, as a  *)
(* url may be (a heartbeat never is), waits for a child that reads.        *)
NavigateBlocks == /\ pc = "navigate"
                  /\ target \in native /\ processes[target].state # "Crashed"
                  /\ os[target] = "hung"
                  /\ pc' = "write"
                  /\ UNCHANGED <<table, routes, target, sweep, respawn, lost, faults>>

WriteEnds == /\ pc = "write"
             /\ WriteFails(target)
             /\ pc' = "idle" /\ target' = None
             /\ UNCHANGED <<overdue, nextPid, routes, sweep, respawn, lost, faults>>
-----------------------------------------------------------------------------
(* heartbeat_and_recover(): the table is snapshot, then each process is    *)
(* asked in turn.  It is started only while a replacement for every        *)
(* process fits in MaxPids.                                                *)
BeginSweep == /\ pc = "idle"
              /\ nextPid + Cardinality(Known) <= MaxPids + 1
              /\ pc' = "sweep" /\ sweep' = Known
              /\ UNCHANGED <<table, routes, target, respawn, lost, faults>>

SweepSkip(p) == /\ pc = "sweep" /\ p \in sweep
                /\ ~Running(p)
                /\ sweep' = sweep \ {p}
                /\ UNCHANGED <<table, routes, pc, target, respawn, lost, faults>>

SweepAnswered(p) == /\ pc = "sweep" /\ p \in sweep
                    /\ Running(p)
                    /\ SendAnswered(p)
                    /\ sweep' = sweep \ {p}
                    /\ UNCHANGED <<nextPid, routes, pc, target, respawn, lost, faults>>

(* Mutant: the failure is reported and the loop goes on.                   *)
SweepReportsOnly(p) ==
    /\ pc = "sweep" /\ p \in sweep
    /\ Running(p)
    /\ SendFails(p)
    /\ sweep' = sweep \ {p}
    /\ UNCHANGED <<nextPid, routes, pc, target, respawn, lost, faults>>

SweepFails(p) == /\ pc = "sweep" /\ p \in sweep
                 /\ Running(p)
                 /\ SendFails(p)
                 /\ sweep' = sweep \ {p}
                 /\ pc' = "terminate" /\ target' = p
                 /\ UNCHANGED <<nextPid, routes, respawn, lost, faults>>

(* inject_fault_crash() and the first half of recover_process(): the old   *)
(* entry goes, its role and its program are kept for the replacement.      *)
Terminate == /\ pc = "terminate"
             /\ respawn' = [role |-> processes[target].role, program |-> processes[target].program]
             /\ processes' = [processes EXCEPT ![target] = None]
             /\ Kill(target)
             /\ pc' = "respawn"
             /\ UNCHANGED <<replies, overdue, nextPid, routes, target, sweep, lost, faults>>

SpawnLogical(role) ==
    /\ nextPid <= MaxPids
    /\ nextPid' = nextPid + 1
    /\ processes' = [processes EXCEPT ![nextPid] =
                       [role |-> role, state |-> "Running", program |-> FALSE]]
    /\ UNCHANGED <<native, os, replies, overdue, faults>>

(* Mutant: every bound tab is handed over, whichever process it was on.    *)
ReplacedForAll(old, new) ==
    /\ tabs' = [t \in Tabs |->
         IF tabs[t] # None THEN [tabs[t] EXCEPT !.process = new] ELSE tabs[t]]
    /\ renderers' = [o \in Origins |-> IF renderers[o] = old THEN new ELSE renderers[o]]
    /\ services' = [s \in Services |-> IF services[s] = old THEN new ELSE services[s]]

(* The replacement takes the place of the old process everywhere.          *)
Replaced(old, new) ==
    /\ tabs' = [t \in Tabs |->
         IF tabs[t] # None /\ tabs[t].process = old THEN [tabs[t] EXCEPT !.process = new]
                                                    ELSE tabs[t]]
    /\ renderers' = [o \in Origins |-> IF renderers[o] = old THEN new ELSE renderers[o]]
    /\ services' = [s \in Services |-> IF services[s] = old THEN new ELSE services[s]]

Respawn == /\ pc = "respawn"
           /\ \/ respawn.program /\ SpawnNative(respawn.role)
              \/ ~respawn.program /\ SpawnLogical(respawn.role)
           /\ Replaced(target, nextPid)
           /\ pc' = "sweep" /\ target' = None /\ respawn' = None
           /\ UNCHANGED <<sweep, lost>>

RespawnFails == /\ pc = "respawn"
                /\ respawn.program
                /\ SpawnFails(respawn.role)
                /\ lost' = lost \cup {target}
                /\ pc' = "sweep" /\ target' = None /\ respawn' = None
                /\ UNCHANGED <<routes, sweep>>

EndSweep == /\ pc = "sweep" /\ sweep = {}
            /\ pc' = "idle"
            /\ UNCHANGED <<table, routes, target, sweep, respawn, lost, faults>>
-----------------------------------------------------------------------------
(* The manager's own watchdog, between calls of the coordinator: exited    *)
(* children are collected, late ones declared unresponsive and kept.       *)
CheckWatchdog ==
    LET gone == {p \in native : os[p] = "exited"} IN
    /\ pc = "idle"
    /\ native' = native \ gone
    /\ processes' = [p \in Pids |->
         CASE p \in Known /\ p \in gone -> [processes[p] EXCEPT !.state = "Crashed"]
           [] Running(p) /\ p \notin gone /\ p \in overdue ->
                [processes[p] EXCEPT !.state = "Unresponsive"]
           [] OTHER -> processes[p]]
    /\ UNCHANGED <<os, replies, overdue, nextPid, routes, call, lost, faults>>

RecordHeartbeat(p) ==
    /\ pc = "idle" /\ p \in Known
    /\ overdue' = overdue \ {p}
    /\ processes' = [processes EXCEPT ![p].state = IF @ = "Unresponsive" THEN "Running" ELSE @]
    /\ UNCHANGED <<native, os, replies, nextPid, routes, call, lost, faults>>

AdvanceTime == /\ pc = "idle"
               /\ overdue' = Known
               /\ UNCHANGED <<processes, native, os, replies, nextPid, routes, call, lost, faults>>
-----------------------------------------------------------------------------
Attach == \/ \E t \in Tabs, o \in Origins : AttachReuse(t, o) \/ AttachSpawn(t, o)
          \/ \E o \in Origins : AttachFails(o)
Continue == \/ Navigate \/ NavigateBlocks \/ WriteEnds \/ Terminate
            \/ Respawn \/ RespawnFails \/ EndSweep
            \/ \E p \in Pids : SweepSkip(p) \/ SweepAnswered(p) \/ SweepFails(p)
Faults == \E p \in Pids : ChildFault(p)
Watchdog == CheckWatchdog \/ AdvanceTime \/ \E p \in Pids : RecordHeartbeat(p)

Next == Attach \/ BeginSweep \/ Continue \/ Faults
NextWatched == Next \/ Watchdog

(* A call that has started runs on: the wait for a reply has a deadline.   *)
(* That of WriteEnds for a child that has stopped reading has none, and    *)
(* nothing here makes a hung child exit.                                   *)
Fairness == WF_vars(Continue)
Spec == Init /\ [][Next]_vars /\ Fairness
-----------------------------------------------------------------------------
TypeOK == /\ processes \in [Pids -> Entries \cup {None}]
          /\ native \subseteq Pids
          /\ os \in [Pids -> {"none", "alive", "hung", "exited"}]
          /\ replies \in [Pids -> 0..(ReplyBudget + 1)]
          /\ overdue \subseteq Pids /\ nextPid \in 1..(MaxPids + 1)
          /\ services \in [Services -> Pids]
          /\ renderers \in [Origins -> Pids \cup {None}]
          /\ tabs \in [Tabs -> [origin : Origins, process : Pids] \cup {None}]
          /\ pc \in {"idle", "navigate", "write", "sweep", "terminate", "respawn"}
          /\ target \in Pids \cup {None} /\ sweep \subseteq Pids
          /\ respawn \in [role : Roles, program : BOOLEAN] \cup {None}
          /\ lost \subseteq Pids /\ faults \in 0..MaxFaults

(* Site isolation: through reuse, crashes, replacements and failed spawns, *)
(* no tab, origin or service is ever bound to a process of another role.   *)
Isolated == /\ \A t \in Tabs : tabs[t] # None /\ tabs[t].process \in Known =>
                 processes[tabs[t].process].role = tabs[t].origin
            /\ \A o \in Origins : renderers[o] \in Known => processes[renderers[o]].role = o
            /\ \A s \in Services : services[s] \in Known => processes[services[s]].role = s

(* No child is forgotten while it runs: whatever has an endpoint is in the *)
(* table and is the process of its service or origin, except the one that  *)
(* is being replaced.                                                      *)
NoOrphan == \A p \in native : /\ p \in Known
                              /\ \/ \E s \in Services : services[s] = p
                                 \/ \E o \in Origins : renderers[o] = p

(* "one renderer control process per origin"                               *)
OneRendererPerOrigin ==
    \A p, q \in native : p \in Known /\ q \in Known /\ processes[p].role = processes[q].role => p = q

(* After any attaches, recoveries and faults every child has one name, and *)
(* every name leads to a child of its own role (process_coordinator.rs     *)
(* attach_tab, heartbeat_and_recover).                                     *)
BindingsSound == Isolated /\ NoOrphan /\ OneRendererPerOrigin

(* A name leads to an entry unless the recovery of its process failed.     *)
Names == {tabs[t].process : t \in {u \in Tabs : tabs[u] # None}}
         \cup {services[s] : s \in Services} \cup {renderers[o] : o \in Origins}

(* heartbeat_and_recover leaves no child behind that it found dead: what   *)
(* it has visited and calls running has an endpoint, logical entries apart. *)
SweepRecovers == pc \in {"sweep", "terminate", "respawn"} =>
    \A p \in Known \ sweep : Running(p) /\ processes[p].program => p \in native \/ p = target

(* A call returns whatever the children do, unless it is writing a long    *)
(* command to a child that does not read: every step of a sweep ends, and  *)
(* so does every wait for a reply (send_native_command).                   *)
WaitsForReader == pc = "write" /\ os[target] = "hung"
CallsReturn == pc # "idle" ~> pc = "idle" \/ WaitsForReader

(* "a hung child surfaces here as a timeout instead of an infinite block   *)
(* on the calling (UI) thread" (child_process.rs, send_native_command).    *)
NeverBlocked == pc # "idle" ~> pc = "idle"
=============================================================================
