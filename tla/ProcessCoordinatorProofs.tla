----------------------- MODULE ProcessCoordinatorProofs -----------------------
(***************************************************************************)
(* Site isolation and the bound of one running child per role, for any     *)
(* number of origins, services, tabs, processes and faults.                *)
(***************************************************************************)
EXTENDS ProcessCoordinator, FiniteSetTheorems, TLAPS

Bindings == [origin : Origins, process : Pids]

Shape == /\ processes \in [Pids -> Entries \cup {None}]
         /\ native \subseteq Pids
         /\ nextPid \in Nat \ {0}
         /\ services \in [Services -> Pids]
         /\ renderers \in [Origins -> Pids \cup {None}]
         /\ tabs \in [Tabs -> Bindings \cup {None}]
         /\ pc \in {"idle", "navigate", "write", "sweep", "terminate", "respawn"}
         /\ pc \in {"navigate", "write", "terminate", "respawn"} => target \in Pids
         /\ sweep \subseteq Pids
         /\ pc = "respawn" => respawn \in [role : Roles, program : BOOLEAN]

Named(p) == (\E s \in Services : services[s] = p) \/ (\E o \in Origins : renderers[o] = p)

(* Identifiers are not reused: the next one is not in use anywhere.        *)
FreshPids == \A p \in Pids : p >= nextPid =>
               /\ p \notin Known /\ p \notin native /\ ~Named(p)
               /\ \A t \in Tabs : tabs[t] # None => tabs[t].process # p
               /\ pc \in {"navigate", "write", "terminate", "respawn"} => p # target

(* While a process is replaced, its names agree with the role kept for it. *)
Recovering ==
    /\ pc = "terminate" => target \in Known
    /\ pc = "respawn" =>
         /\ target \notin Known
         /\ \A t \in Tabs : tabs[t] # None /\ tabs[t].process = target =>
                              tabs[t].origin = respawn.role
         /\ \A o \in Origins : renderers[o] = target => o = respawn.role
         /\ \A s \in Services : services[s] = target => s = respawn.role

(* A child belongs to a running entry, and a running entry that is backed  *)
(* by the child program is the process of its service or origin.           *)
Backed == /\ \A p \in native : Running(p) /\ processes[p].program
          /\ \A p \in Pids : Running(p) /\ processes[p].program => Named(p)
          /\ pc = "terminate" /\ processes[target].program => Named(target)
          /\ pc = "respawn" /\ respawn.program => Named(target)

(* What is left visited by heartbeat_and_recover is in order, and no       *)
(* process but the one being replaced is exempt from it.                   *)
Visited == /\ pc \in {"idle", "sweep"} => target = None
           /\ SweepRecovers

(* Core also holds when the manager's watchdog declares children late or   *)
(* gone between the calls; Backed and Visited do not.                      *)
Core == Shape /\ FreshPids /\ Isolated /\ Recovering /\ native \subseteq Known
IInv == Core /\ Backed /\ Visited
-----------------------------------------------------------------------------
LEMMA EntryFields ==
  /\ \A e \in Entries : e # None /\ e.role \in Roles /\ e.program \in BOOLEAN
  /\ \A r \in Roles, b \in BOOLEAN :
       /\ [role |-> r, state |-> "Running", program |-> b] \in Entries
       /\ [role |-> r, state |-> "Running", program |-> b] # None
  /\ \A e \in Entries : [e EXCEPT !.state = "Unresponsive"] \in Entries
  /\ \A o \in Origins, p \in Pids : [origin |-> o, process |-> p] \in Bindings
  /\ \A b \in Bindings : b # None /\ b.origin \in Origins /\ b.process \in Pids
  /\ \A p \in Pids : p # None
  /\ Services \subseteq Roles /\ Origins \subseteq Roles
  BY NoneAssumption DEF Entries, Roles, Bindings

LEMMA InitInv == Init => IInv
  <1> SUFFICES ASSUME Init PROVE IInv
    OBVIOUS
  <1> DEFINE N == Cardinality(Services)
             Owner(p) == CHOOSE s \in Services : services[s] = p
  <1>1. N \in Nat /\ N <= MaxPids /\ MaxPids \in Nat
    BY CoordinatorAssumption, FS_CardinalityType
  <1>2. /\ services \in [Services -> 1..N]
        /\ \A s, r \in Services : services[s] = services[r] => s = r
        /\ \A p \in 1..N : \E s \in Services : services[s] = p
    BY DEF Init, Bijection, Injection, Surjection, IsInjective
  <1>3. /\ native = 1..N /\ nextPid = N + 1 /\ pc = "idle" /\ sweep = {} /\ target = None
        /\ renderers = [o \in Origins |-> None] /\ tabs = [t \in Tabs |-> None]
        /\ processes = [p \in Pids |->
             IF p <= N THEN [role |-> Owner(p), state |-> "Running", program |-> TRUE]
                       ELSE None]
    BY DEF Init
  <1>4. /\ \A p \in 1..N : Owner(p) \in Services /\ services[Owner(p)] = p
        /\ \A s \in Services : Owner(services[s]) = s
    BY <1>2
  <1> HIDE DEF N, Owner
  <1>5. 1..N \subseteq Pids /\ \A p \in Pids : p \in Nat /\ (p <= N <=> p \in 1..N)
    BY <1>1 DEF Pids
  <1>6. /\ processes \in [Pids -> Entries \cup {None}]
        /\ \A p \in 1..N : processes[p].role = Owner(p) /\ Running(p) /\ processes[p].program
        /\ Known = 1..N
    <2>1. \A p \in Pids : processes[p] = IF p \in 1..N
                 THEN [role |-> Owner(p), state |-> "Running", program |-> TRUE] ELSE None
      BY <1>3, <1>5
    <2>2. \A p \in 1..N : /\ [role |-> Owner(p), state |-> "Running", program |-> TRUE] \in Entries
                           /\ [role |-> Owner(p), state |-> "Running", program |-> TRUE] # None
      BY <1>4, EntryFields
    <2>3. Known = 1..N
      BY <1>5, <2>1, <2>2 DEF Known
    <2>4. \A p \in 1..N : processes[p].role = Owner(p) /\ processes[p].state = "Running"
                           /\ processes[p].program
      <3> SUFFICES ASSUME NEW p \in 1..N
                   PROVE  processes[p].role = Owner(p) /\ processes[p].state = "Running"
                          /\ processes[p].program
        OBVIOUS
      <3>1. processes[p] = [role |-> Owner(p), state |-> "Running", program |-> TRUE]
        BY <1>5, <2>1
      <3> QED BY ONLY <3>1
    <2>5. processes \in [Pids -> Entries \cup {None}]
      BY <1>3, <2>1, <2>2
    <2> QED BY <2>3, <2>4, <2>5 DEF Running
  <1>7. \A p \in Pids : p \in 1..N \/ ~Named(p)
    BY <1>2, <1>3, EntryFields DEF Named
  <1>8. Shape
    BY <1>1, <1>2, <1>3, <1>5, <1>6 DEF Shape
  <1>9. FreshPids
    BY <1>1, <1>3, <1>5, <1>6, <1>7 DEF FreshPids
  <1>10. Isolated
    <2>1. None \notin Known
      BY EntryFields DEF Known
    <2> QED BY <1>2, <1>3, <1>4, <1>6, <2>1 DEF Isolated
  <1>11. Recovering
    BY <1>3 DEF Recovering
  <1>12. Backed
    <2>1. \A p \in 1..N : Named(p)
      BY <1>2 DEF Named
    <2> QED BY <1>3, <1>6, <2>1 DEF Backed, Running
  <1>13. native \subseteq Known /\ Visited
    BY <1>3, <1>6 DEF Visited, SweepRecovers
  <1> QED BY <1>8, <1>9, <1>10, <1>11, <1>12, <1>13 DEF IInv, Core
-----------------------------------------------------------------------------
(* What an IPC round trip leaves as it is.                                 *)
LEMMA SendKeeps ==
  ASSUME Core, NEW p \in Pids, SendAnswered(p) \/ SendFails(p)
  PROVE  /\ processes' \in [Pids -> Entries \cup {None}]
         /\ Known' = Known
         /\ \A q \in Known : /\ processes'[q].role = processes[q].role
                              /\ processes'[q].program = processes[q].program
         /\ \A q \in Pids : Running(q)' => Running(q)
         /\ native' \subseteq native
         /\ Backed => \A q \in native' : Running(q)'
  <1> USE DEF Core, Shape
  <1>1. CASE UNCHANGED processes /\ native' \subseteq native
    BY <1>1 DEF Known, Running, Backed
  <1>2. CASE TimesOut(p)
    <2>1. /\ p \in Known /\ processes[p] \in Entries
          /\ processes' = [processes EXCEPT ![p].state = "Unresponsive"]
          /\ native' = native \ {p}
      BY <1>2 DEF TimesOut, Kill, Known
    <2> DEFINE e == [processes[p] EXCEPT !.state = "Unresponsive"]
    <2>2. /\ e \in Entries /\ e # None /\ e.state = "Unresponsive"
          /\ e.role = processes[p].role /\ e.program = processes[p].program
      <3>1. e \in Entries
        BY <2>1, EntryFields
      <3>2. e.state = "Unresponsive" /\ e.role = processes[p].role
            /\ e.program = processes[p].program
        BY <2>1 DEF Entries
      <3> QED BY <3>1, <3>2, EntryFields
    <2>3. \A q \in Pids : processes'[q] = IF q = p THEN e ELSE processes[q]
      BY <2>1
    <2>5. processes' = [processes EXCEPT ![p] = e]
      BY <2>1
    <2> HIDE DEF e
    <2>4. processes' \in [Pids -> Entries \cup {None}]
      BY <2>2, <2>5
    <2> QED BY <2>1, <2>2, <2>3, <2>4 DEF Known, Running, Backed
  <1> QED BY <1>1, <1>2 DEF SendAnswered, SendFails, NoChild, WriteFails, Disconnects, CutOff, Kill

(* A send leaves Isolated and the bookkeeping of names as they are.        *)
LEMMA SendInv ==
  ASSUME Core, NEW p \in Pids, SendAnswered(p) \/ SendFails(p),
         UNCHANGED <<nextPid, services, renderers, tabs, respawn>>,
         pc' \in {"idle", "navigate", "sweep", "terminate"},
         pc' = "terminate" => target' = p /\ Running(p),
         pc' \notin {"navigate", "write"}, sweep' \subseteq Pids
  PROVE  Core' /\ (Backed => Backed')
  <1>1. /\ processes' \in [Pids -> Entries \cup {None}]
        /\ Known' = Known
        /\ \A q \in Known : /\ processes'[q].role = processes[q].role
                             /\ processes'[q].program = processes[q].program
        /\ \A q \in Pids : Running(q)' => Running(q)
        /\ native' \subseteq native
        /\ Backed => \A q \in native' : Running(q)'
    BY SendKeeps
  <1>2. Shape'
    BY <1>1 DEF Core, Shape
  <1>3. \A q : Named(q)' <=> Named(q)
    BY DEF Named
  <1>4. ASSUME Backed PROVE Backed'
    <2>1. \A q \in native' : Running(q)' /\ processes'[q].program
      BY <1>1, <1>4 DEF Backed, Running
    <2>2. \A q \in Pids : Running(q)' /\ processes'[q].program => Named(q)'
      BY <1>1, <1>3, <1>4 DEF Backed, Running
    <2>3. pc' = "terminate" => target' = p /\ p \in Known /\ (processes[p].program => Named(p))
      BY <1>4 DEF Backed, Running
    <2>4. pc' = "terminate" /\ processes'[target'].program => Named(target)'
      BY <1>1, <2>3 DEF Named
    <2> QED BY <2>1, <2>2, <2>4 DEF Backed
  <1>5. FreshPids'
    <2>1. \A q \in Pids : q >= nextPid => q # p \/ ~Running(p)
      BY DEF Core, FreshPids, Running
    <2> QED BY <1>1, <1>3, <2>1 DEF Core, FreshPids, Shape
  <1>6. Isolated'
    BY <1>1 DEF Core, Isolated
  <1>7. Recovering'
    BY <1>1, <1>3 DEF Core, Recovering, Running
  <1>8. native' \subseteq Known'
    BY <1>1 DEF Core
  <1> QED BY <1>2, <1>4, <1>5, <1>6, <1>7, <1>8 DEF Core

(* A new entry under the next identifier; the names may be given to it.    *)
LEMMA NewEntry ==
  ASSUME Core, NEW role \in Roles, NEW b \in BOOLEAN, NEW p \in Pids,
         p = nextPid, nextPid' = nextPid + 1,
         processes' = [processes EXCEPT ![p] =
                         [role |-> role, state |-> "Running", program |-> b]]
  PROVE  /\ processes' \in [Pids -> Entries \cup {None}]
         /\ Known' = Known \cup {p} /\ p \notin Known
         /\ \A q \in Known : processes'[q] = processes[q]
         /\ \A q \in Pids \ {p} : Running(q)' <=> Running(q)
         /\ processes'[p].role = role /\ processes'[p].program = b /\ Running(p)'
  <1> DEFINE e == [role |-> role, state |-> "Running", program |-> b]
  <1>1. e \in Entries /\ e # None
    BY EntryFields
  <1>2. e.role = role /\ e.program = b /\ e.state = "Running"
    OBVIOUS
  <1>3. processes' = [processes EXCEPT ![p] = e]
    OBVIOUS
  <1> HIDE DEF e
  <1>4. nextPid \in Nat /\ processes \in [Pids -> Entries \cup {None}]
    BY DEF Core, Shape
  <1>5. p \notin Known
    BY <1>4 DEF Core, FreshPids
  <1>6. processes' \in [Pids -> Entries \cup {None}] /\ processes'[p] = e
        /\ \A q \in Pids \ {p} : processes'[q] = processes[q]
    BY <1>1, <1>3, <1>4
  <1>7. Known' = Known \cup {p}
    BY <1>1, <1>6 DEF Known
  <1>8. Running(p)' /\ \A q \in Pids \ {p} : Running(q)' <=> Running(q)
    BY <1>2, <1>6, <1>7 DEF Running
  <1>9. \A q \in Known : processes'[q] = processes[q]
    BY <1>5, <1>6 DEF Known
  <1>10. processes'[p].role = role /\ processes'[p].program = b
    BY ONLY <1>2, <1>6
  <1> QED BY <1>5, <1>6, <1>7, <1>8, <1>9, <1>10

(* The attach_tab steps.                                                   *)
LEMMA AttachReuseInv ==
  ASSUME Core, NEW t \in Tabs, NEW o \in Origins, AttachReuse(t, o)
  PROVE  Core' /\ (Backed => Backed')
  <1> DEFINE p == renderers[o]
  <1>1. /\ p \in Pids /\ p \in Known
        /\ pc' = "navigate" /\ target' = p
        /\ tabs' = [tabs EXCEPT ![t] = [origin |-> o, process |-> p]]
        /\ UNCHANGED <<table, services, renderers, sweep, respawn>>
    BY DEF AttachReuse, Reusable, Register, Running, Known
  <1>2. processes[p].role = o /\ p < nextPid
    <2>1. processes[p].role = o
      BY <1>1 DEF Core, Isolated
    <2>2. ~(p >= nextPid) /\ nextPid \in Nat /\ p \in Nat
      BY <1>1 DEF Core, FreshPids, Shape, Pids
    <2> QED BY <2>1, <2>2
  <1>3. [origin |-> o, process |-> p] \in Bindings
    BY <1>1, EntryFields
  <1>4. \A u \in Tabs : tabs'[u] = IF u = t THEN [origin |-> o, process |-> p] ELSE tabs[u]
    BY <1>1 DEF Core, Shape
  <1> HIDE DEF p
  <1>5. Shape'
    BY <1>1, <1>3 DEF Core, Shape, table
  <1>6. Known' = Known /\ \A q : (Named(q)' <=> Named(q)) /\ (Running(q)' <=> Running(q))
    BY <1>1 DEF Known, Named, Running, table
  <1>7. FreshPids'
    <2> SUFFICES ASSUME NEW q \in Pids, q >= nextPid
                 PROVE  /\ q \notin Known /\ q \notin native /\ ~Named(q)
                        /\ \A u \in Tabs : tabs'[u] # None => tabs'[u].process # q
                        /\ q # p
      BY <1>1, <1>6 DEF FreshPids, table
    <2>1. q # p
      BY <1>1, <1>2 DEF Core, Shape, Pids
    <2> QED BY <1>4, <2>1 DEF Core, FreshPids
  <1>8. Isolated'
    BY <1>1, <1>2, <1>4, <1>6 DEF Core, Isolated, table
  <1>9. Recovering' /\ native' \subseteq Known' /\ (Backed => Backed')
    BY <1>1, <1>6 DEF Core, Recovering, Backed, table
  <1> QED BY <1>5, <1>7, <1>8, <1>9 DEF Core

LEMMA NextIsFresh ==
  ASSUME Core, nextPid <= MaxPids
  PROVE  /\ nextPid \in Pids /\ nextPid \notin Known /\ nextPid \notin native /\ ~Named(nextPid)
         /\ \A t \in Tabs : tabs[t] # None => tabs[t].process # nextPid
         /\ pc \in {"navigate", "write", "terminate", "respawn"} => nextPid # target
  <1>1. nextPid \in Pids /\ nextPid >= nextPid
    BY CoordinatorAssumption DEF Core, Shape, Pids
  <1> QED BY <1>1 DEF Core, FreshPids

LEMMA AttachSpawnInv ==
  ASSUME Core, NEW t \in Tabs, NEW o \in Origins, AttachSpawn(t, o)
  PROVE  Core' /\ (Backed => Backed')
  <1>1. PICK p \in Pids : p = nextPid
    BY NextIsFresh DEF AttachSpawn, SpawnNative
  <1> DEFINE b == [origin |-> o, process |-> p]
  <1>2. /\ nextPid' = nextPid + 1 /\ pc' = "navigate" /\ target' = p /\ pc = "idle"
        /\ processes' = [processes EXCEPT ![p] =
                           [role |-> o, state |-> "Running", program |-> TRUE]]
        /\ native' = native \cup {p}
        /\ renderers' = [renderers EXCEPT ![o] = p] /\ tabs' = [tabs EXCEPT ![t] = b]
        /\ UNCHANGED <<services, sweep, respawn>> /\ ~Reusable(o)
    BY <1>1 DEF AttachSpawn, SpawnNative, Register
  <1>3. b \in Bindings /\ b.process = p /\ b.origin = o
    BY EntryFields
  <1> HIDE DEF b
  <1>4. /\ processes' \in [Pids -> Entries \cup {None}]
        /\ Known' = Known \cup {p} /\ p \notin Known
        /\ \A q \in Known : processes'[q] = processes[q]
        /\ \A q \in Pids \ {p} : Running(q)' <=> Running(q)
        /\ processes'[p].role = o /\ processes'[p].program = TRUE /\ Running(p)'
    <2>1. o \in Roles /\ TRUE \in BOOLEAN
      BY EntryFields
    <2> QED BY <1>1, <1>2, <2>1, NewEntry
  <1>5. /\ p \notin native /\ ~Named(p)
        /\ \A u \in Tabs : tabs[u] # None => tabs[u].process # p
    BY <1>1, NextIsFresh DEF AttachSpawn, SpawnNative
  <1>6. /\ \A u \in Tabs : tabs'[u] = IF u = t THEN b ELSE tabs[u]
        /\ \A r \in Origins : renderers'[r] = IF r = o THEN p ELSE renderers[r]
    BY <1>2 DEF Core, Shape
  <1>7. Shape'
    BY <1>1, <1>2, <1>3, <1>4 DEF Core, Shape
  <1>8. FreshPids'
    <2> SUFFICES ASSUME NEW q \in Pids, q >= nextPid + 1
                 PROVE  /\ q \notin Known' /\ q \notin native' /\ ~Named(q)'
                        /\ \A u \in Tabs : tabs'[u] # None => tabs'[u].process # q
                        /\ q # p
      BY <1>2 DEF FreshPids
    <2>1. q # p /\ q >= nextPid
      BY <1>1 DEF Core, Shape, Pids
    <2>2. /\ q \notin Known /\ q \notin native /\ ~Named(q)
          /\ \A u \in Tabs : tabs[u] # None => tabs[u].process # q
      BY <2>1 DEF Core, FreshPids
    <2> QED BY <1>2, <1>3, <1>4, <1>6, <2>1, <2>2 DEF Named
  <1>9. Isolated'
    <2>1. /\ \A r \in Origins \ {o} : renderers[r] # p
          /\ \A s \in Services : services[s] # p
      BY <1>5 DEF Named
    <2> QED BY <1>2, <1>3, <1>4, <1>5, <1>6, <2>1 DEF Core, Isolated
  <1>10. Recovering'
    BY <1>2 DEF Recovering
  <1>11. ASSUME Backed PROVE Backed'
    <2>1. \A q \in native' : Running(q)' /\ processes'[q].program
      BY <1>2, <1>4, <1>11 DEF Core, Shape, Backed, Running
    <2>2. \A q \in Pids : Running(q)' /\ processes'[q].program => Named(q)'
      <3> SUFFICES ASSUME NEW q \in Pids, Running(q)', processes'[q].program PROVE Named(q)'
        OBVIOUS
      <3>1. CASE q = p
        BY <1>6, <3>1 DEF Named
      <3>2. CASE q # p
        <4>1. Running(q) /\ processes[q].program
          BY <1>4, <3>2 DEF Running
        <4>2. Named(q)
          BY <1>11, <4>1 DEF Backed
        <4>3. renderers[o] # q
          BY <1>2, <4>1, EntryFields DEF Reusable
        <4> QED BY <1>2, <1>6, <4>2, <4>3 DEF Named
      <3> QED BY <3>1, <3>2
    <2> QED BY <1>2, <2>1, <2>2 DEF Backed
  <1>12. native' \subseteq Known'
    BY <1>2, <1>4 DEF Core
  <1> QED BY <1>7, <1>8, <1>9, <1>10, <1>11, <1>12 DEF Core

(* A failed spawn leaves an entry without a child, or nothing at all.      *)
LEMMA SpawnFailsInv ==
  ASSUME Core, NEW role \in Roles, SpawnFails(role),
         UNCHANGED <<services, renderers, tabs>>,
         \/ pc = "idle" /\ UNCHANGED <<pc, target, sweep, respawn>>
         \/ pc' = "sweep" /\ UNCHANGED sweep
  PROVE  Core' /\ (Backed => Backed')
  <1>1. PICK p \in Pids : p = nextPid
    BY NextIsFresh DEF SpawnFails
  <1>2. nextPid' = nextPid + 1 /\ native' = native
    BY DEF SpawnFails
  <1>3. \A q : Named(q)' <=> Named(q)
    BY DEF Named
  <1>4. p \notin native /\ ~Named(p) /\ \A u \in Tabs : tabs[u] # None => tabs[u].process # p
    BY <1>1, NextIsFresh DEF SpawnFails
  <1>5. /\ processes' \in [Pids -> Entries \cup {None}]
        /\ Known' \subseteq Known \cup {p} /\ Known \subseteq Known'
        /\ \A q \in Known : processes'[q] = processes[q]
        /\ \A q \in Pids \ {p} : Running(q)' <=> Running(q)
        /\ p \in Known' => ~processes'[p].program
    <2>1. CASE processes' = [processes EXCEPT ![p] =
                              [role |-> role, state |-> "Running", program |-> FALSE]]
      <3>1. FALSE \in BOOLEAN
        OBVIOUS
      <3>2. /\ processes' \in [Pids -> Entries \cup {None}]
            /\ Known' = Known \cup {p}
            /\ \A q \in Known : processes'[q] = processes[q]
            /\ \A q \in Pids \ {p} : Running(q)' <=> Running(q)
            /\ processes'[p].program = FALSE
        BY <1>1, <1>2, <2>1, <3>1, NewEntry
      <3> QED BY <3>2
    <2>2. CASE UNCHANGED processes
      <3>1. p \notin Known
        BY <1>1, NextIsFresh DEF SpawnFails
      <3> QED BY <2>2, <3>1 DEF Core, Shape, Known, Running
    <2> QED BY <1>1, <2>1, <2>2 DEF SpawnFails
  <1>6. Shape'
    BY <1>2, <1>5 DEF Core, Shape
  <1>7. FreshPids'
    <2> SUFFICES ASSUME NEW q \in Pids, q >= nextPid + 1
                 PROVE  /\ q \notin Known' /\ q \notin native' /\ ~Named(q)'
                        /\ \A u \in Tabs : tabs'[u] # None => tabs'[u].process # q
      BY <1>2 DEF FreshPids
    <2>1. q # p /\ q >= nextPid
      BY <1>1 DEF Core, Shape, Pids
    <2> QED BY <1>2, <1>3, <1>5, <2>1 DEF Core, FreshPids
  <1>8. Isolated'
    BY <1>4, <1>5 DEF Core, Isolated, Named
  <1>9. Recovering'
    BY DEF Recovering
  <1>10. ASSUME Backed PROVE Backed'
    <2>1. \A q \in native' : Running(q)' /\ processes'[q].program
      BY <1>2, <1>4, <1>5, <1>10 DEF Core, Backed, Running, Shape
    <2>2. \A q \in Pids : Running(q)' /\ processes'[q].program => q # p
      BY <1>5 DEF Running
    <2>3. \A q \in Pids : Running(q)' /\ processes'[q].program => Named(q)'
      BY <1>3, <1>5, <1>10, <2>2 DEF Backed, Running
    <2> QED BY <2>1, <2>3 DEF Backed
  <1>11. native' \subseteq Known'
    BY <1>2, <1>5 DEF Core
  <1> QED BY <1>6, <1>7, <1>8, <1>9, <1>10, <1>11 DEF Core
-----------------------------------------------------------------------------
(* Recovery: the crashed entry goes, then its replacement takes its names. *)
LEMMA TerminateInv ==
  ASSUME Core, Terminate
  PROVE  Core' /\ (Backed => Backed')
  <1>1. PICK p \in Pids : p = target
    BY DEF Terminate, Core, Shape
  <1>2. /\ respawn' = [role |-> processes[p].role, program |-> processes[p].program]
        /\ processes' = [processes EXCEPT ![p] = None]
        /\ native' = native \ {p} /\ pc = "terminate" /\ pc' = "respawn" /\ target' = p
        /\ UNCHANGED <<nextPid, services, renderers, tabs, sweep>>
    BY <1>1 DEF Terminate, Kill, routes
  <1>3. p \in Known /\ processes[p] \in Entries
    BY <1>1, <1>2 DEF Core, Recovering, Shape, Known
  <1>4. /\ processes' \in [Pids -> Entries \cup {None}] /\ Known' = Known \ {p}
        /\ \A q \in Pids \ {p} : processes'[q] = processes[q]
        /\ \A q \in Pids : Running(q)' <=> Running(q) /\ q # p
    <2>1. processes' \in [Pids -> Entries \cup {None}] /\ processes'[p] = None
          /\ \A q \in Pids \ {p} : processes'[q] = processes[q]
      BY <1>2 DEF Core, Shape
    <2>2. Known' = Known \ {p}
      BY <2>1 DEF Known
    <2> QED BY <2>1, <2>2 DEF Running
  <1>5. \A q : Named(q)' <=> Named(q)
    BY <1>2 DEF Named
  <1>6. respawn'.role = processes[p].role /\ respawn'.program = processes[p].program
    BY <1>2
  <1>7. Shape'
    BY <1>2, <1>3, <1>4, EntryFields DEF Core, Shape
  <1>8. FreshPids'
    BY <1>1, <1>2, <1>4, <1>5 DEF Core, FreshPids
  <1>9. Isolated'
    BY <1>2, <1>4 DEF Core, Isolated, Known
  <1>10. Recovering'
    <2>2. /\ \A t \in Tabs : tabs[t] # None /\ tabs[t].process = p => tabs[t].origin = respawn'.role
          /\ \A o \in Origins : renderers[o] = p => o = respawn'.role
          /\ \A s \in Services : services[s] = p => s = respawn'.role
      BY <1>3, <1>6 DEF Core, Isolated
    <2> QED BY <1>2, <1>4, <2>2 DEF Recovering
  <1>11. ASSUME Backed PROVE Backed'
    <2>1. \A q \in native' : Running(q)' /\ processes'[q].program
      BY <1>2, <1>4, <1>11 DEF Core, Backed, Shape
    <2>2. \A q \in Pids : Running(q)' /\ processes'[q].program => Named(q)'
      BY <1>4, <1>5, <1>11 DEF Backed
    <2>3. processes[p].program => Named(p)
      BY <1>1, <1>2, <1>11 DEF Backed
    <2>4. respawn'.program => Named(p)'
      BY ONLY <1>5, <1>6, <2>3
    <2>5. Named(target)' <=> Named(p)'
      BY <1>2 DEF Named
    <2> QED BY <1>2, <2>1, <2>2, <2>4, <2>5 DEF Backed
  <1>12. native' \subseteq Known'
    BY <1>2, <1>4 DEF Core
  <1> QED BY <1>7, <1>8, <1>9, <1>10, <1>11, <1>12 DEF Core

LEMMA RespawnInv ==
  ASSUME Core, Respawn
  PROVE  Core' /\ (Backed => Backed')
  <1>1. PICK p \in Pids : p = nextPid
    BY NextIsFresh DEF Respawn, SpawnNative, SpawnLogical
  <1>2. PICK old \in Pids : old = target
    BY DEF Respawn, Core, Shape
  <1>3. PICK role \in Roles, b \in BOOLEAN : respawn = [role |-> role, program |-> b]
    BY DEF Respawn, Core, Shape
  <1>r. respawn.role = role /\ respawn.program = b
    BY <1>3
  <1>4. /\ nextPid' = nextPid + 1 /\ pc = "respawn" /\ pc' = "sweep"
        /\ processes' = [processes EXCEPT ![p] =
                           [role |-> role, state |-> "Running", program |-> b]]
        /\ native' = native \/ (b /\ native' = native \cup {p})
        /\ Replaced(old, p) /\ UNCHANGED sweep
    <2>1. CASE b /\ SpawnNative(role)
      <3>1. b = TRUE
        BY <2>1
      <3> QED BY <1>1, <1>2, <2>1, <3>1 DEF Respawn, SpawnNative
    <2>2. CASE ~b /\ SpawnLogical(role)
      <3>1. b = FALSE
        BY <2>2
      <3> QED BY <1>1, <1>2, <2>2, <3>1 DEF Respawn, SpawnLogical
    <2>3. (b /\ SpawnNative(role)) \/ (~b /\ SpawnLogical(role))
      BY <1>r DEF Respawn
    <2> QED BY <2>1, <2>2, <2>3
  <1>5. /\ processes' \in [Pids -> Entries \cup {None}]
        /\ Known' = Known \cup {p} /\ p \notin Known
        /\ \A q \in Known : processes'[q] = processes[q]
        /\ \A q \in Pids \ {p} : Running(q)' <=> Running(q)
        /\ processes'[p].role = role /\ processes'[p].program = b /\ Running(p)'
    BY <1>1, <1>4, NewEntry
  <1>6. /\ p \notin native /\ ~Named(p) /\ p # old
        /\ \A u \in Tabs : tabs[u] # None => tabs[u].process # p
    BY <1>1, <1>2, <1>4, NextIsFresh DEF Respawn, SpawnNative, SpawnLogical
  <1>7. /\ old \notin Known
        /\ \A t \in Tabs : tabs[t] # None /\ tabs[t].process = old => tabs[t].origin = role
        /\ \A o \in Origins : renderers[o] = old => o = role
        /\ \A s \in Services : services[s] = old => s = role
    BY <1>2, <1>4, <1>r DEF Core, Recovering
  <1>8. /\ \A o \in Origins : renderers'[o] = IF renderers[o] = old THEN p ELSE renderers[o]
        /\ \A s \in Services : services'[s] = IF services[s] = old THEN p ELSE services[s]
        /\ renderers' \in [Origins -> Pids \cup {None}] /\ services' \in [Services -> Pids]
    BY <1>4 DEF Replaced, Core, Shape
  <1>9. /\ tabs' \in [Tabs -> Bindings \cup {None}]
        /\ \A t \in Tabs : \/ /\ tabs[t] # None /\ tabs[t].process = old
                              /\ tabs'[t] # None /\ tabs'[t].process = p
                              /\ tabs'[t].origin = tabs[t].origin
                           \/ /\ tabs'[t] = tabs[t]
                              /\ tabs[t] # None => tabs[t].process # old
    <2>1. \A c \in Bindings : /\ [c EXCEPT !.process = p] \in Bindings
                              /\ [c EXCEPT !.process = p].process = p
                              /\ [c EXCEPT !.process = p].origin = c.origin
      BY DEF Bindings
    <2>2. tabs' = [t \in Tabs |->
            IF tabs[t] # None /\ tabs[t].process = old THEN [tabs[t] EXCEPT !.process = p]
                                                       ELSE tabs[t]]
      BY <1>4 DEF Replaced
    <2>3. \A t \in Tabs : tabs[t] \in Bindings \/ tabs[t] = None
      BY DEF Core, Shape
    <2> QED BY <2>1, <2>2, <2>3, EntryFields
  <1>10. Shape'
    <2>1. native' \subseteq Pids
      BY <1>4 DEF Core, Shape
    <2>2. nextPid' \in Nat \ {0} /\ pc' = "sweep" /\ sweep' \subseteq Pids
      BY <1>4 DEF Core, Shape
    <2> QED BY <1>5, <1>8, <1>9, <2>1, <2>2 DEF Shape
  <1>11. FreshPids'
    <2> SUFFICES ASSUME NEW q \in Pids, q >= nextPid + 1
                 PROVE  /\ q \notin Known' /\ q \notin native' /\ ~Named(q)'
                        /\ \A u \in Tabs : tabs'[u] # None => tabs'[u].process # q
      BY <1>4 DEF FreshPids
    <2>1. q # p /\ q >= nextPid
      BY <1>1 DEF Core, Shape, Pids
    <2>2. /\ q \notin Known /\ q \notin native /\ ~Named(q)
          /\ \A u \in Tabs : tabs[u] # None => tabs[u].process # q
      BY <2>1 DEF Core, FreshPids
    <2>3. q \notin Known' /\ q \notin native'
      BY <1>4, <1>5, <2>1, <2>2
    <2>4. ~Named(q)'
      BY <1>8, <2>1, <2>2 DEF Named
    <2>5. \A u \in Tabs : tabs'[u] # None => tabs'[u].process # q
      BY <1>9, <2>1, <2>2
    <2> QED BY <2>3, <2>4, <2>5
  <1>12. Isolated'
    <2>1. \A t \in Tabs : tabs'[t] # None /\ tabs'[t].process \in Known' =>
                          processes'[tabs'[t].process].role = tabs'[t].origin
      <3> SUFFICES ASSUME NEW t \in Tabs, tabs'[t] # None, tabs'[t].process \in Known'
                   PROVE  processes'[tabs'[t].process].role = tabs'[t].origin
        OBVIOUS
      <3>1. CASE tabs[t] # None /\ tabs[t].process = old /\ tabs'[t].process = p
                 /\ tabs'[t].origin = tabs[t].origin
        BY <1>5, <1>7, <3>1
      <3>2. CASE tabs'[t] = tabs[t]
        BY <1>5, <1>6, <3>2 DEF Core, Isolated
      <3> QED BY <1>9, <3>1, <3>2
    <2>2. \A o \in Origins : renderers'[o] \in Known' => processes'[renderers'[o]].role = o
      BY <1>5, <1>6, <1>7, <1>8 DEF Core, Isolated, Named
    <2>3. \A s \in Services : services'[s] \in Known' => processes'[services'[s]].role = s
      BY <1>5, <1>6, <1>7, <1>8 DEF Core, Isolated, Named
    <2> QED BY <2>1, <2>2, <2>3 DEF Isolated
  <1>13. Recovering'
    BY <1>4 DEF Recovering
  <1>14. ASSUME Backed PROVE Backed'
    <2>0. processes'[p].program = b /\ (b => Named(old))
      BY <1>2, <1>4, <1>5, <1>r, <1>14 DEF Backed
    <2>1. \A q \in native : q \in Known /\ q # p /\ Running(q) /\ processes[q].program
      BY <1>5, <1>14 DEF Backed, Running
    <2>2. \A q \in native : Running(q)' /\ processes'[q].program
      BY <1>5, <2>1 DEF Core, Shape
    <2>3. \A q \in native' : q \in native \/ (q = p /\ b)
      BY <1>4
    <2>4. \A q \in native' : Running(q)' /\ processes'[q].program
      BY <1>5, <2>0, <2>2, <2>3
    <2>5. \A q \in Pids : Running(q)' /\ processes'[q].program => Named(q)'
      <3> SUFFICES ASSUME NEW q \in Pids, Running(q)', processes'[q].program PROVE Named(q)'
        OBVIOUS
      <3>1. CASE q = p
        <4>1. Named(old)
          BY <2>0, <3>1
        <4> QED BY <1>8, <3>1, <4>1 DEF Named
      <3>2. CASE q # p
        <4>1. Running(q) /\ processes[q].program
          BY <1>5, <3>2 DEF Running
        <4>2. Named(q) /\ q # old
          BY <1>7, <1>14, <4>1 DEF Backed, Running
        <4> QED BY <1>8, <4>2 DEF Named
      <3> QED BY <3>1, <3>2
    <2> QED BY <1>4, <2>4, <2>5 DEF Backed
  <1>15. native' \subseteq Known'
    BY <1>4, <1>5 DEF Core
  <1> QED BY <1>10, <1>11, <1>12, <1>13, <1>14, <1>15 DEF Core
-----------------------------------------------------------------------------
LEMMA NextCore ==
  ASSUME Core, [Next]_vars
  PROVE  Core' /\ (Backed => Backed')
  <1> USE DEF Core
  <1>1. ASSUME NEW p \in Pids, ChildFault(p)
        PROVE  Core' /\ (Backed => Backed')
    BY <1>1 DEF ChildFault, Shape, FreshPids, Isolated, Recovering, Backed, Named, Known, Running,
       routes, call
  <1>2. ASSUME NEW t \in Tabs, NEW o \in Origins, AttachReuse(t, o) \/ AttachSpawn(t, o)
        PROVE  Core' /\ (Backed => Backed')
    BY <1>2, AttachReuseInv, AttachSpawnInv
  <1>3. ASSUME NEW o \in Origins, AttachFails(o)
        PROVE  Core' /\ (Backed => Backed')
    <2>1. /\ o \in Roles /\ SpawnFails(o) /\ pc = "idle"
          /\ UNCHANGED <<services, renderers, tabs>> /\ UNCHANGED <<pc, target, sweep, respawn>>
      BY <1>3, EntryFields DEF AttachFails, routes, call
    <2> QED BY <2>1, SpawnFailsInv
  <1>4. CASE Navigate
    <2>1. target \in Pids
      BY <1>4 DEF Navigate, Shape
    <2>2. /\ UNCHANGED <<nextPid, services, renderers, tabs, respawn, sweep>> /\ pc' = "idle"
          /\ SendAnswered(target) \/ SendFails(target)
      BY <1>4 DEF Navigate, routes
    <2>3. sweep' \subseteq Pids
      BY <2>2 DEF Shape
    <2> QED BY <2>1, <2>2, <2>3, SendInv
  <1>14. CASE NavigateBlocks \/ WriteEnds
    BY <1>14 DEF NavigateBlocks, WriteEnds, WriteFails, Shape, FreshPids, Isolated, Recovering,
       Backed, Named, Known, Running, table, routes
  <1>5. CASE BeginSweep
    BY <1>5 DEF BeginSweep, Shape, FreshPids, Isolated, Recovering, Backed, Named, Known, Running,
       table, routes
  <1>6. ASSUME NEW p \in Pids, SweepSkip(p)
        PROVE  Core' /\ (Backed => Backed')
    BY <1>6 DEF SweepSkip, Shape, FreshPids, Isolated, Recovering, Backed, Named, Known, Running,
       table, routes
  <1>7. ASSUME NEW p \in Pids, SweepAnswered(p)
        PROVE  Core' /\ (Backed => Backed')
    <2>1. /\ UNCHANGED <<nextPid, services, renderers, tabs, respawn>> /\ pc' = "sweep"
          /\ SendAnswered(p) /\ sweep' \subseteq Pids
      BY <1>7 DEF SweepAnswered, routes, Shape
    <2> QED BY <2>1, SendInv
  <1>8. ASSUME NEW p \in Pids, SweepFails(p)
        PROVE  Core' /\ (Backed => Backed')
    <2>1. /\ UNCHANGED <<nextPid, services, renderers, tabs, respawn>> /\ pc' = "terminate"
          /\ target' = p /\ Running(p) /\ SendFails(p) /\ sweep' \subseteq Pids
      BY <1>8 DEF SweepFails, routes, Shape
    <2> QED BY <2>1, SendInv
  <1>9. CASE Terminate
    BY <1>9, TerminateInv
  <1>10. CASE Respawn
    BY <1>10, RespawnInv
  <1>11. CASE RespawnFails
    <2>1. respawn.role \in Roles
      BY <1>11 DEF RespawnFails, Shape
    <2>2. /\ SpawnFails(respawn.role) /\ UNCHANGED <<services, renderers, tabs, sweep>>
          /\ pc' = "sweep"
      BY <1>11 DEF RespawnFails, routes
    <2> QED BY <2>1, <2>2, SpawnFailsInv
  <1>12. CASE EndSweep
    BY <1>12 DEF EndSweep, Shape, FreshPids, Isolated, Recovering, Backed, Named, Known, Running,
       table, routes
  <1>13. CASE UNCHANGED vars
    BY <1>13 DEF Shape, FreshPids, Isolated, Recovering, Backed, Named, Known, Running,
       vars, table, routes, call
  <1> QED BY <1>1, <1>2, <1>3, <1>4, <1>5, <1>6, <1>7, <1>8, <1>9, <1>10, <1>11, <1>12, <1>13,
             <1>14
      DEF Next, Attach, Continue, Faults

(* A sweep leaves no child behind that it found dead.  A failed child is   *)
(* exempt only while it is being replaced.                                 *)
LEMMA NextVisited ==
  ASSUME IInv, [Next]_vars
  PROVE  Visited'
  <1> USE DEF Visited, SweepRecovers
  <1>1. CASE pc' \in {"idle", "navigate", "write"} /\ (pc' = "idle" => target' = None)
    BY <1>1
  <1>2. ASSUME NEW p \in Pids, SweepSkip(p) \/ SweepAnswered(p)
        PROVE  Visited'
    <2>1. /\ pc = "sweep" /\ pc' = "sweep" /\ target' = target /\ sweep' = sweep \ {p}
          /\ UNCHANGED <<processes, native>> /\ (~Running(p) \/ p \in native)
      BY <1>2 DEF SweepSkip, SweepAnswered, SendAnswered, table
    <2>2. target = None /\ \A q \in Pids : q # None
      BY <2>1, EntryFields DEF IInv
    <2> QED BY <2>1, <2>2 DEF IInv, Known, Running
  <1>3. ASSUME NEW p \in Pids, SweepFails(p)
        PROVE  Visited'
    <2>1. /\ pc = "sweep" /\ pc' = "terminate" /\ target' = p /\ sweep' = sweep \ {p}
          /\ \A q \in native : q = p \/ q \in native'
      BY <1>3 DEF SweepFails, SendFails, NoChild, TimesOut, WriteFails, Disconnects, CutOff, Kill
    <2>2. target = None /\ \A q \in Pids : q # None
      BY <2>1, EntryFields DEF IInv
    <2>3. /\ Known' = Known
          /\ \A q \in Known : processes'[q].program = processes[q].program
          /\ \A q \in Pids : Running(q)' => Running(q)
      <3>1. SendFails(p)
        BY <1>3 DEF SweepFails
      <3> QED BY <3>1, SendKeeps DEF IInv
    <2> QED BY <2>1, <2>2, <2>3 DEF IInv, Known
  <1>4. CASE Terminate
    <2>1. /\ pc = "terminate" /\ pc' = "respawn" /\ target' = target /\ sweep' = sweep
          /\ processes' = [processes EXCEPT ![target] = None]
          /\ native' = native \ {target}
      BY <1>4 DEF Terminate, Kill
    <2>2. \A q \in Pids : q # target => processes'[q] = processes[q]
      BY <2>1 DEF IInv, Core, Shape
    <2> QED BY <2>1, <2>2 DEF IInv, Known, Running
  <1>5. CASE Respawn
    <2>1. PICK p \in Pids : p = nextPid
      BY <1>5, NextIsFresh DEF Respawn, SpawnNative, SpawnLogical, IInv
    <2>2. PICK role \in Roles, b \in BOOLEAN : respawn = [role |-> role, program |-> b]
      BY <1>5 DEF Respawn, IInv, Core, Shape
    <2>3. respawn.role = role /\ respawn.program = b
      BY <2>2
    <2>4. /\ nextPid' = nextPid + 1 /\ pc = "respawn" /\ pc' = "sweep" /\ target' = None
          /\ processes' = [processes EXCEPT ![p] =
                             [role |-> role, state |-> "Running", program |-> b]]
          /\ (b => p \in native') /\ native \subseteq native' /\ sweep' = sweep
      <3>1. CASE b /\ SpawnNative(role)
        <4>1. b = TRUE
          BY <3>1
        <4> QED BY <1>5, <2>1, <3>1, <4>1 DEF Respawn, SpawnNative
      <3>2. CASE ~b /\ SpawnLogical(role)
        <4>1. b = FALSE
          BY <3>2
        <4> QED BY <1>5, <2>1, <3>2, <4>1 DEF Respawn, SpawnLogical
      <3>3. (b /\ SpawnNative(role)) \/ (~b /\ SpawnLogical(role))
        BY <1>5, <2>3 DEF Respawn
      <3> QED BY <3>1, <3>2, <3>3
    <2>5. /\ Known' = Known \cup {p} /\ p \notin Known
          /\ \A q \in Known : processes'[q] = processes[q]
          /\ \A q \in Pids \ {p} : Running(q)' <=> Running(q)
          /\ processes'[p].program = b
      BY <2>1, <2>4, NewEntry DEF IInv
    <2>6. target \notin Known
      BY <2>4 DEF IInv, Core, Recovering
    <2>7. ASSUME NEW q \in Known' \ sweep', Running(q)', processes'[q].program
          PROVE  q \in native'
      <3>1. CASE q = p
        BY <2>4, <2>5, <2>7, <3>1
      <3>2. CASE q # p
        <4>1. q \in Known \ sweep /\ Running(q) /\ processes[q].program
          BY <2>4, <2>5, <2>7, <3>2 DEF Known
        <4> QED BY <2>4, <2>6, <4>1 DEF IInv
      <3> QED BY <3>1, <3>2
    <2> QED BY <2>4, <2>7
  <1>6. CASE RespawnFails
    <2>1. PICK p \in Pids : p = nextPid
      BY <1>6, NextIsFresh DEF RespawnFails, SpawnFails, IInv
    <2>2. /\ nextPid' = nextPid + 1 /\ native' = native /\ sweep' = sweep
          /\ pc = "respawn" /\ pc' = "sweep" /\ target' = None
          /\ respawn.role \in Roles /\ SpawnFails(respawn.role)
      BY <1>6 DEF RespawnFails, SpawnFails, IInv, Core, Shape
    <2>3. target \notin Known
      BY <2>2 DEF IInv, Core, Recovering
    <2>4. CASE UNCHANGED processes
      BY <2>2, <2>3, <2>4 DEF IInv, Known, Running
    <2>5. CASE processes' = [processes EXCEPT ![p] =
                 [role |-> respawn.role, state |-> "Running", program |-> FALSE]]
      <3>1. FALSE \in BOOLEAN
        OBVIOUS
      <3>2. /\ Known' = Known \cup {p}
            /\ \A q \in Known : processes'[q] = processes[q]
            /\ \A q \in Pids \ {p} : Running(q)' <=> Running(q)
            /\ processes'[p].program = FALSE
        BY <2>1, <2>2, <2>5, <3>1, NewEntry DEF IInv
      <3>3. ASSUME NEW q \in Known' \ sweep', Running(q)', processes'[q].program
            PROVE  q \in native'
        <4>1. q # p
          BY <3>2, <3>3
        <4>2. q \in Known \ sweep /\ Running(q) /\ processes[q].program
          BY <2>2, <3>2, <3>3, <4>1 DEF Known
        <4> QED BY <2>2, <2>3, <4>2 DEF IInv
      <3> QED BY <2>2, <3>3
    <2> QED BY <2>1, <2>2, <2>4, <2>5 DEF SpawnFails
  <1>7. CASE BeginSweep
    BY <1>7 DEF BeginSweep, table, Known, IInv
  <1>8. CASE UNCHANGED <<processes, native, pc, target, sweep>>
    BY <1>8 DEF IInv, Known, Running
  <1>9. ASSUME NEW p \in Pids, ChildFault(p)
        PROVE  Visited'
    BY <1>8, <1>9 DEF ChildFault, call
  <1>10. ASSUME NEW t \in Tabs, NEW o \in Origins, AttachReuse(t, o) \/ AttachSpawn(t, o)
         PROVE  Visited'
    BY <1>1, <1>10 DEF AttachReuse, AttachSpawn, Register
  <1>11. ASSUME NEW o \in Origins, AttachFails(o)
         PROVE  Visited'
    BY <1>1, <1>11 DEF AttachFails, call, IInv
  <1>12. CASE Navigate \/ NavigateBlocks \/ WriteEnds \/ EndSweep
    BY <1>1, <1>12 DEF Navigate, NavigateBlocks, WriteEnds, EndSweep, IInv
  <1>13. CASE UNCHANGED vars
    BY <1>8, <1>13 DEF vars, table, call
  <1> QED BY <1>2, <1>3, <1>4, <1>5, <1>6, <1>7, <1>9, <1>10, <1>11, <1>12, <1>13
      DEF Next, Attach, Continue, Faults

LEMMA NextInv == IInv /\ [Next]_vars => IInv'
  BY NextCore, NextVisited DEF IInv

LEMMA Invariance == Spec => []IInv
  BY InitInv, NextInv, PTL DEF Spec

(* No tab, origin or service is ever bound to a process of another role.   *)
LEMMA SiteIsolation == Spec => []Isolated
  <1>1. IInv => Isolated
    BY DEF IInv, Core
  <1> QED BY <1>1, Invariance, PTL

LEMMA BackedNoOrphan == IInv => NoOrphan
  BY DEF IInv, Core, Backed, NoOrphan, Named, Shape, Running

(* A running child is in the table and is the one of its service or origin. *)
LEMMA NoOrphanChild == Spec => []NoOrphan
  BY BackedNoOrphan, Invariance, PTL

(* attach_tab and heartbeat_and_recover never run two renderers, or two    *)
(* instances of a service, at a time.                                      *)
LEMMA OneChildPerRole == Spec => []OneRendererPerOrigin
  <1>1. IInv => OneRendererPerOrigin
    <2> SUFFICES ASSUME IInv, NEW p \in native, NEW q \in native, p \in Known, q \in Known,
                        processes[p].role = processes[q].role
                 PROVE  p = q
      BY DEF OneRendererPerOrigin
    <2>1. /\ (\E s \in Services : services[s] = p) \/ (\E o \in Origins : renderers[o] = p)
          /\ (\E s \in Services : services[s] = q) \/ (\E o \in Origins : renderers[o] = q)
      BY BackedNoOrphan DEF NoOrphan
    <2>2. \A s \in Services : s \notin Origins
      BY CoordinatorAssumption
    <2> QED BY <2>1, <2>2 DEF IInv, Core, Isolated
  <1> QED BY <1>1, Invariance, PTL

(* The three together: for any number of origins, tabs, processes and      *)
(* faults every child has one name and every name leads to a child of its  *)
(* own role (attach_tab, heartbeat_and_recover).                           *)
THEOREM BindingSafety == Spec => []BindingsSound
  <1>1. Isolated /\ NoOrphan /\ OneRendererPerOrigin => BindingsSound
    BY DEF BindingsSound
  <1> QED BY <1>1, SiteIsolation, NoOrphanChild, OneChildPerRole, PTL

(* After heartbeat_and_recover has visited a process, it is not left       *)
(* running in the table without a child: dead ones have been replaced,     *)
(* whatever fails during the replacement.                                  *)
THEOREM RecoverySafety == Spec => []SweepRecovers
  <1>1. IInv => SweepRecovers
    BY DEF IInv, Visited
  <1> QED BY <1>1, Invariance, PTL
-----------------------------------------------------------------------------
(* The manager's watchdog between the calls.                               *)
LEMMA WatchdogCore ==
  ASSUME Core, Watchdog
  PROVE  Core'
  <1>1. UNCHANGED <<nextPid, services, renderers, tabs, pc, target, sweep, respawn>>
    BY DEF Watchdog, CheckWatchdog, AdvanceTime, RecordHeartbeat, routes, call
  <1>2. /\ processes' \in [Pids -> Entries \cup {None}] /\ Known' = Known
        /\ \A q \in Known : processes'[q].role = processes[q].role
        /\ native' \subseteq native
    <2>1. ASSUME NEW q \in Pids
          PROVE  \/ processes'[q] = processes[q]
                 \/ q \in Known /\ \E st \in {"Running", "Unresponsive", "Crashed"} :
                                   processes'[q] = [processes[q] EXCEPT !.state = st]
      <3>1. CASE CheckWatchdog
        <4> DEFINE gone == {p \in native : os[p] = "exited"}
        <4> HIDE DEF gone
        <4>1. processes'[q] =
                CASE q \in Known /\ q \in gone -> [processes[q] EXCEPT !.state = "Crashed"]
                  [] Running(q) /\ q \notin gone /\ q \in overdue ->
                       [processes[q] EXCEPT !.state = "Unresponsive"]
                  [] OTHER -> processes[q]
          BY <3>1 DEF CheckWatchdog, gone
        <4>2. Running(q) => q \in Known
          BY DEF Running
        <4> QED BY <4>1, <4>2
      <3>2. CASE \E p \in Pids : RecordHeartbeat(p)
        <4>1. PICK p \in Pids : RecordHeartbeat(p)
          BY <3>2
        <4> DEFINE st == IF processes[p].state = "Unresponsive" THEN "Running"
                         ELSE processes[p].state
        <4>2. /\ p \in Known /\ processes' = [processes EXCEPT ![p] = [processes[p] EXCEPT !.state = st]]
          BY <4>1 DEF RecordHeartbeat
        <4>3. st \in {"Running", "Unresponsive", "Crashed"}
          BY <4>2 DEF Core, Shape, Known, Entries
        <4> HIDE DEF st
        <4> QED BY <4>2, <4>3 DEF Core, Shape
      <3> QED BY <3>1, <3>2 DEF Watchdog, AdvanceTime
    <2>2. ASSUME NEW e \in Entries, NEW st \in {"Running", "Unresponsive", "Crashed"}
          PROVE  /\ [e EXCEPT !.state = st] \in Entries
                 /\ [e EXCEPT !.state = st].role = e.role
      BY DEF Entries
    <2>3. \A q \in Pids : /\ processes'[q] \in Entries \cup {None}
                          /\ processes'[q] = None <=> processes[q] = None
                          /\ q \in Known => processes'[q].role = processes[q].role
      <3> SUFFICES ASSUME NEW q \in Pids
                   PROVE  /\ processes'[q] \in Entries \cup {None}
                          /\ processes'[q] = None <=> processes[q] = None
                          /\ q \in Known => processes'[q].role = processes[q].role
        OBVIOUS
      <3>1. processes[q] \in Entries \cup {None}
        BY DEF Core, Shape
      <3>2. CASE processes'[q] = processes[q]
        BY <3>1, <3>2
      <3>3. CASE q \in Known /\ \E st \in {"Running", "Unresponsive", "Crashed"} :
                                   processes'[q] = [processes[q] EXCEPT !.state = st]
        <4>1. PICK st \in {"Running", "Unresponsive", "Crashed"} :
                processes'[q] = [processes[q] EXCEPT !.state = st]
          BY <3>3
        <4>2. processes[q] \in Entries
          BY <3>1, <3>3 DEF Known
        <4>3. processes'[q] \in Entries /\ processes'[q].role = processes[q].role
          BY <2>2, <4>1, <4>2
        <4> QED BY <4>2, <4>3, EntryFields
      <3> QED BY <2>1, <3>2, <3>3
    <2>4. DOMAIN processes' = Pids /\ processes' = [q \in DOMAIN processes' |-> processes'[q]]
      BY DEF Watchdog, CheckWatchdog, AdvanceTime, RecordHeartbeat, Core, Shape
    <2>5. native' \subseteq native
      BY DEF Watchdog, CheckWatchdog, AdvanceTime, RecordHeartbeat
    <2> QED BY <2>3, <2>4, <2>5 DEF Known
  <1>3. \A q : Named(q)' <=> Named(q)
    BY <1>1 DEF Named
  <1>4. Shape'
    BY <1>1, <1>2 DEF Core, Shape
  <1>5. FreshPids'
    BY <1>1, <1>2, <1>3 DEF Core, FreshPids
  <1>6. Isolated'
    BY <1>1, <1>2 DEF Core, Isolated
  <1>7. Recovering' /\ native' \subseteq Known'
    BY <1>1, <1>2 DEF Core, Recovering
  <1> QED BY <1>4, <1>5, <1>6, <1>7 DEF Core

(* Site isolation outlives the watchdog: children that it collects or      *)
(* declares unresponsive between any two calls leave every name with a     *)
(* process of its own origin.                                              *)
THEOREM WatchedIsolation == Init /\ [][NextWatched]_vars => []Isolated
  <1>1. Init => Core
    BY InitInv DEF IInv
  <1>2. Core /\ [NextWatched]_vars => Core'
    BY NextCore, WatchdogCore DEF NextWatched
  <1>3. Core => Isolated
    BY DEF Core
  <1> QED BY <1>1, <1>2, <1>3, PTL
=============================================================================
