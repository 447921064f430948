--------------------------- MODULE PageLoopProofs ---------------------------
(***************************************************************************)
(* For every page, any number of timers, frames, listeners and observers   *)
(* and whatever the scripts call from inside each other's callbacks.       *)
(***************************************************************************)
EXTENDS PageLoop, SequenceTheorems, FiniteSetTheorems, TLAPS

(* Identities are handed out once, so a timer that was cleared is gone.    *)
TimersSound ==
  /\ nextId \in Nat \ {0}
  /\ DOMAIN timers \subseteq 1..(nextId - 1) /\ cleared \subseteq 1..(nextId - 1)
  /\ cleared \cap DOMAIN timers = {}
  /\ Cardinality(DOMAIN timers) <= MaxTimers

Calls == [node : Nat, type : {"click", "submit"}, meant : Nodes]

QueuesSound ==
  /\ queue \in Seq(Calls) /\ Len(queue) <= MaxPending
  /\ notify \in Seq(Observers) /\ Len(notify) <= MaxPending
  /\ records \in [Observers -> 0..MaxRecords]
  /\ at = "observers" => batch \in Seq(Observers)
  /\ after \in {"idle", "layout", "redraw"}
  /\ live \subseteq Nodes

(* An observer with records stands in the list of the next flush, or of    *)
(* the one that is running.                                                *)
Listed(o) == o \in ToSet(notify) \/ (at = "observers" /\ o \in ToSet(batch))

RecordsScheduled ==
  /\ \A o \in Observers : records[o] > 0 => Listed(o) \/ o \in dropped
  /\ dropped # {} => truncated

(* The two are inductive on their own.                                     *)
Scheduling == QueuesSound /\ RecordsScheduled
-----------------------------------------------------------------------------
Silent == \A i : ~Starts("timer", i)

LEMMA Callbacks ==
  /\ \A kind, i : <<kind, i>> # Nothing
  /\ \A kind, i, j : kind # "timer" => <<kind, i>> # <<"timer", j>>
  BY DEF Nothing

LEMMA FiniteTimers ==
  ASSUME TimersSound
  PROVE  IsFiniteSet(DOMAIN timers)
  <1>1. IsFiniteSet(1..(nextId - 1))
    BY FS_Interval DEF TimersSound
  <1> QED BY <1>1, FS_Subset DEF TimersSound

LEMMA FewerTimers ==
  ASSUME TimersSound
  PROVE  \A i : Cardinality(DOMAIN timers \ {i}) <= MaxTimers
  <1>1. \A i : Cardinality(DOMAIN timers \ {i}) <= Cardinality(DOMAIN timers)
    BY FiniteTimers, FS_Subset
  <1>2. /\ \A i : Cardinality(DOMAIN timers \ {i}) \in Nat
        /\ Cardinality(DOMAIN timers) \in Nat /\ MaxTimers \in Nat
    BY FiniteTimers, FS_Subset, FS_CardinalityType, PageLoopAssumption
  <1>3. Cardinality(DOMAIN timers) <= MaxTimers
    BY DEF TimersSound
  <1> HIDE DEF TimersSound
  <1> QED
    <2> TAKE i
    <2> DEFINE a == Cardinality(DOMAIN timers \ {i})
               b == Cardinality(DOMAIN timers)
    <2>1. a <= b /\ a \in Nat /\ b \in Nat /\ MaxTimers \in Nat /\ b <= MaxTimers
      BY <1>1, <1>2, <1>3
    <2> HIDE DEF a, b
    <2>2. a <= MaxTimers
      BY <2>1
    <2> QED BY <2>2 DEF a

(* A call of a script starts no callback, and none brings a cleared timer  *)
(* back.                                                                   *)
LEMMA CallTimers ==
  ASSUME TimersSound, running # Nothing, ApiCall
  PROVE  TimersSound' /\ Silent
  <1>1. Silent
    BY DEF Silent, Starts
  <1>2. ASSUME NEW delay, NEW interval, SetTimer(delay, interval), nextId' # nextId
        PROVE  TimersSound'
    <2>1. /\ DOMAIN timers' = DOMAIN timers \cup {nextId} /\ nextId' = nextId + 1
          /\ cleared' = cleared
      <3> DEFINE D == DOMAIN timers \cup {nextId}
                 v == [due |-> delay, delay |-> delay, interval |-> interval]
      <3> HIDE DEF D, v
      <3>1. timers' = [i \in D |-> IF i = nextId THEN v ELSE timers[i]]
        BY <1>2 DEF SetTimer, OverBudget, page, D, v
      <3> QED BY <1>2, <3>1 DEF SetTimer, Unchanged, OverBudget, page, D
    <2>2. Cardinality(DOMAIN timers') <= MaxTimers
      <3>1. Cardinality(DOMAIN timers) < MaxTimers
        BY <1>2 DEF SetTimer, OverBudget, page
      <3>2. IsFiniteSet(DOMAIN timers) /\ nextId \notin DOMAIN timers
        BY FiniteTimers DEF TimersSound
      <3>3. /\ Cardinality(DOMAIN timers') = Cardinality(DOMAIN timers) + 1
            /\ Cardinality(DOMAIN timers) \in Nat
        BY <2>1, <3>2, FS_AddElement, FS_CardinalityType
      <3>4. MaxTimers \in Nat
        BY PageLoopAssumption
      <3> DEFINE b == Cardinality(DOMAIN timers)
      <3>5. b < MaxTimers /\ b \in Nat
        BY <3>1, <3>3
      <3> HIDE DEF b
      <3>6. b + 1 <= MaxTimers
        BY <3>4, <3>5
      <3> QED BY <3>3, <3>6 DEF b
    <2> QED BY <2>1, <2>2 DEF TimersSound
  <1>3. ASSUME NEW i \in DOMAIN timers, ClearTimer(i)
        PROVE  TimersSound'
    <2>1. /\ DOMAIN timers' = DOMAIN timers \ {i} /\ nextId' = nextId
          /\ cleared' = cleared \cup {i}
      BY <1>3 DEF ClearTimer, Unchanged, Restrict
    <2>2. Cardinality(DOMAIN timers') <= MaxTimers
      BY <2>1, FewerTimers
    <2> QED BY <2>1, <2>2 DEF TimersSound
  <1>4. CASE UNCHANGED <<timers, cleared>> /\ nextId' \in {nextId, nextId + 1}
    <2>1. nextId \in Nat \ {0}
      BY DEF TimersSound
    <2>2. nextId' \in Nat \ {0} /\ 1..(nextId - 1) \subseteq 1..(nextId' - 1)
      <3>1. \A n \in {nextId, nextId + 1} : n \in Nat \ {0} /\ 1..(nextId - 1) \subseteq 1..(n - 1)
        BY <2>1
      <3> QED BY <1>4, <3>1
    <2> QED BY <1>1, <1>4, <2>2 DEF TimersSound
  <1>5. ASSUME NEW node, NEW type, NEW once,
               \/ AddListener(node, type, once) \/ RequestFrame
               \/ SetTimer(node, type) /\ nextId' = nextId
        PROVE  TimersSound'
    <2>1. nextId + 1 # nextId
      BY DEF TimersSound
    <2>2. UNCHANGED <<timers, cleared>> /\ nextId' \in {nextId, nextId + 1}
      BY <1>5, <2>1 DEF AddListener, RequestFrame, SetTimer, OverBudget, page, Unchanged
    <2> QED BY <1>4, <2>2
  <1>6. ASSUME NEW i, CancelFrame(i) \/ RemoveListener(i) \/ Click(i) \/ Submit(i)
                      \/ Mutate(i) \/ FreeNode(i)
        PROVE  TimersSound'
    BY <1>4, <1>6 DEF CancelFrame, RemoveListener, Click, Submit, Mutate, FreeNode, Unchanged
  <1>7. ASSUME NEW o, NEW x, Observe(o, x) \/ TakeRecords(o, x)
        PROVE  TimersSound'
    BY <1>4, <1>7 DEF Observe, TakeRecords, Unchanged
  <1> QED BY <1>1, <1>2, <1>3, <1>5, <1>6, <1>7 DEF ApiCall

(* pump_timers takes a timer that is still set, and only it runs one.      *)
LEMMA FireTimers ==
  ASSUME TimersSound, Timer
  PROVE  TimersSound' /\ \A i \in cleared : ~Starts("timer", i)
  <1>1. PICK i \in DOMAIN timers : Fire(i)
    BY DEF Timer, Due
  <1>2. DOMAIN timers' \subseteq DOMAIN timers /\ running' = <<"timer", i>>
    BY <1>1 DEF Fire, Restrict
  <1>3. nextId' = nextId /\ cleared' = cleared
    BY DEF Timer
  <1>4. Cardinality(DOMAIN timers') <= MaxTimers
    <2>1. DOMAIN timers' = DOMAIN timers \/ DOMAIN timers' = DOMAIN timers \ {i}
      BY <1>1 DEF Fire, Restrict
    <2> QED BY <2>1, FewerTimers DEF TimersSound
  <1> QED BY <1>1, <1>2, <1>3, <1>4 DEF TimersSound, Starts

LEMMA TimersStep ==
  ASSUME TimersSound, [Next]_vars
  PROVE  TimersSound' /\ \A i \in cleared : ~Starts("timer", i)
  <1>1. CASE /\ UNCHANGED <<timers, cleared, nextId>>
             /\ \/ running' = running \/ running # Nothing
                \/ \E kind, i : kind # "timer" /\ running' = <<kind, i>>
    BY <1>1, Callbacks DEF TimersSound, Starts, Nothing
  <1>2. CASE Outside
    <2>1. CASE running # Nothing /\ ApiCall
      BY <2>1, CallTimers DEF Silent
    <2>2. CASE RunScript
      BY <1>1, <2>2 DEF RunScript, page
    <2>3. ASSUME NEW node, UserClick(node)
          PROVE  TimersSound' /\ \A i \in cleared : ~Starts("timer", i)
      BY <1>1, <2>3 DEF UserClick, page
    <2> QED BY <1>2, <2>1, <2>2, <2>3 DEF Outside
  <1>3. CASE Timer
    BY <1>3, FireTimers
  <1>4. CASE FramesDone
    <2>1. /\ DOMAIN timers' = DOMAIN timers /\ UNCHANGED <<cleared, nextId, running>>
      BY <1>4 DEF FramesDone
    <2> QED BY <2>1, Callbacks DEF TimersSound, Starts
  <1>5. CASE Frame \/ Listener \/ Observer
    BY <1>1, <1>5 DEF Frame, Listener, Observer
  <1>6. CASE TimersDone \/ Round \/ Dispatch \/ LeaveNode \/ EventsDone \/ ObserversDone
    BY <1>1, <1>6 DEF TimersDone, Round, Dispatch, LeaveNode, EventsDone, ObserversDone,
                      Goto, page
  <1>7. CASE BudgetSpent \/ Layout \/ Redraw \/ Clicked \/ Return \/ Pump \/ UNCHANGED vars
    BY <1>1, <1>7 DEF BudgetSpent, Layout, Redraw, Clicked, Return, Pump, Goto, page, vars, turn
  <1> QED BY <1>2, <1>3, <1>4, <1>5, <1>6, <1>7 DEF Next, Runtime

LEMMA TimersInit == Init => TimersSound
  <1>1. Cardinality({}) = 0 /\ 0 <= MaxTimers
    BY FS_EmptySet, PageLoopAssumption
  <1> QED BY <1>1 DEF Init, Quiet, TimersSound

(* A timer that was cleared never fires, also when both were due in the    *)
(* same pump and when an interval was set again before its callback ran.   *)
THEOREM ClearedTimersAreSilent == Spec => ClearedNeverFires
  <1>1. TimersSound /\ [Next]_vars => [\A i \in cleared : ~Starts("timer", i)]_vars
    BY TimersStep
  <1>2. TimersSound /\ [Next]_vars => TimersSound'
    BY TimersStep
  <1> QED BY <1>1, <1>2, TimersInit, PTL DEF Spec, ClearedNeverFires
-----------------------------------------------------------------------------
(* The observers' list, as queue_mutation_record and                       *)
(* queue_layout_observer_records extend it with those of S, in any order.  *)
LEMMA OrderCovers ==
  ASSUME NEW S, IsFiniteSet(S), NEW order \in SetToSeqs(S)
  PROVE  order \in Seq(S) /\ Len(order) = Cardinality(S) /\ ToSet(order) = S
  <1> DEFINE D == 1..Cardinality(S)
  <1>1. Cardinality(S) \in Nat
    BY FS_CardinalityType
  <1>2. order \in Injection(D, S)
    BY DEF SetToSeqs, Injection, IsInjective
  <1>3. IsFiniteSet(D) /\ Cardinality(D) = Cardinality(S)
    BY <1>1, FS_Interval
  <1>4. order \in Surjection(D, S)
    BY <1>2, <1>3, FS_Injection
  <1>5. order \in [D -> S]
    BY <1>2 DEF Injection
  <1>6. order \in Seq(S) /\ Len(order) = Cardinality(S)
    BY <1>1, <1>5, IsASeq, LenProperties
  <1> QED BY <1>4, <1>5, <1>6 DEF Surjection, ToSet

LEMMA SubSeqFirst ==
  ASSUME NEW S, NEW t \in Seq(S), NEW k \in 0..Len(t)
  PROVE  SubSeq(t, 1, k) \in Seq(S) /\ Len(SubSeq(t, 1, k)) = k
  <1>1. Len(t) \in Nat /\ \A i \in 1..Len(t) : t[i] \in S
    BY LenProperties, ElementOfSeq
  <1>2. \A i \in 1..k : t[i] \in S
    BY <1>1
  <1>3. /\ SubSeq(t, 1, k) \in Seq(S)
        /\ Len(SubSeq(t, 1, k)) = (IF 1 <= k THEN k - 1 + 1 ELSE 0)
    BY <1>1, <1>2, SubSeqProperties
  <1> QED BY <1>1, <1>3

LEMMA SubSeqAll ==
  ASSUME NEW S, NEW t \in Seq(S)
  PROVE  SubSeq(t, 1, Len(t)) = t
  <1> DEFINE u == SubSeq(t, 1, Len(t))
  <1>1. Len(t) \in Nat /\ \A i \in 1..Len(t) : t[i] \in S
    BY LenProperties, ElementOfSeq
  <1>2. u \in Seq(S) /\ Len(u) = Len(t)
    BY <1>1, SubSeqFirst
  <1>3. \A i \in 1..Len(t) : u[i] = t[i]
    <2>1. \A i \in 1..(Len(t) - 1 + 1) : u[i] = t[1 + i - 1]
      BY <1>1, SubSeqProperties
    <2> QED BY <1>1, <2>1
  <1> HIDE DEF u
  <1>4. u = t
    BY <1>1, <1>2, <1>3, SeqEqual
  <1> QED BY <1>4 DEF u

LEMMA ListsJoined ==
  ASSUME NEW S, NEW s \in Seq(S), NEW u \in Seq(S)
  PROVE  LET r == s \o u IN
         /\ r \in Seq(S) /\ Len(r) = Len(s) + Len(u)
         /\ ToSet(s) \subseteq ToSet(r) /\ ToSet(u) \subseteq ToSet(r)
  <1> DEFINE r == s \o u
  <1>1. /\ Len(s) \in Nat /\ DOMAIN s = 1..Len(s)
        /\ Len(u) \in Nat /\ DOMAIN u = 1..Len(u)
    BY LenProperties
  <1>2. /\ r \in Seq(S) /\ Len(r) = Len(s) + Len(u) /\ DOMAIN r = 1..(Len(s) + Len(u))
        /\ \A i \in 1..(Len(s) + Len(u)) : r[i] = IF i <= Len(s) THEN s[i] ELSE u[i - Len(s)]
    <2>1. /\ r \in Seq(S) /\ Len(r) = Len(s) + Len(u)
          /\ \A i \in 1..(Len(s) + Len(u)) : r[i] = IF i <= Len(s) THEN s[i] ELSE u[i - Len(s)]
      BY ConcatProperties
    <2> HIDE DEF r
    <2>2. DOMAIN r = 1..Len(r)
      BY <2>1, LenProperties
    <2> QED BY <2>1, <2>2
  <1> HIDE DEF r
  <1>3. ASSUME NEW i \in 1..Len(s) PROVE i \in DOMAIN r /\ r[i] = s[i]
    BY <1>1, <1>2
  <1>4. ASSUME NEW i \in 1..Len(u) PROVE Len(s) + i \in DOMAIN r /\ r[Len(s) + i] = u[i]
    BY <1>1, <1>2
  <1>5. ToSet(s) \subseteq ToSet(r)
    BY <1>1, <1>3 DEF ToSet
  <1>6. ToSet(u) \subseteq ToSet(r)
    BY <1>1, <1>4 DEF ToSet
  <1> QED BY <1>2, <1>5, <1>6 DEF r

LEMMA MinOfTwo ==
  \A a, b \in Nat : /\ Min({a, b}) \in {a, b} /\ Min({a, b}) <= a /\ Min({a, b}) <= b
  <1> SUFFICES ASSUME NEW a \in Nat, NEW b \in Nat
               PROVE  Min({a, b}) \in {a, b} /\ Min({a, b}) <= a /\ Min({a, b}) <= b
    OBVIOUS
  <1>1. \E x \in {a, b} : \A y \in {a, b} : x <= y
    OBVIOUS
  <1> QED BY <1>1 DEF Min

LEMMA RecordedKeeps ==
  ASSUME QueuesSound, RecordsScheduled, NEW watching \in SUBSET Observers, Recorded(watching)
  PROVE  /\ notify' \in Seq(Observers) /\ Len(notify') <= MaxPending
         /\ records' \in [Observers -> 0..MaxRecords]
         /\ ToSet(notify) \subseteq ToSet(notify')
         /\ \A o \in Observers :
              records'[o] > 0 => records[o] > 0 \/ o \in ToSet(notify') \/ o \in dropped'
         /\ dropped \subseteq dropped' /\ (dropped' # {} => truncated')
  <1> DEFINE woken == {o \in watching : records[o] = 0}
             space == MaxPending - Len(notify)
  <1>1. /\ MaxPending \in Nat \ {0} /\ MaxRecords \in Nat \ {0}
        /\ Len(notify) \in Nat /\ space \in Nat /\ Len(notify) + space = MaxPending
        /\ IsFiniteSet(woken)
    <2>1. Len(notify) \in Nat /\ Len(notify) <= MaxPending
      BY LenProperties DEF QueuesSound
    <2>2. IsFiniteSet(woken)
      BY PageLoopAssumption, FS_Subset
    <2> QED BY <2>1, <2>2, PageLoopAssumption
  <1> HIDE DEF space
  <1> DEFINE Listing(order) == SubSeq(order, 1, Min({Len(order), space}))
  <1>2. PICK order \in SetToSeqs(woken) :
          /\ notify' = notify \o Listing(order)
          /\ dropped' = dropped \cup (woken \ ToSet(Listing(order)))
    BY DEF Recorded, space
  <1>3. order \in Seq(woken) /\ Len(order) = Cardinality(woken) /\ ToSet(order) = woken
    BY <1>1, OrderCovers
  <1>4. order \in Seq(Observers) /\ Len(order) \in Nat
    BY <1>3, SeqMonotonic, LenProperties
  <1> DEFINE k == Min({Len(order), space})
             listed == SubSeq(order, 1, k)
  <1>5. k \in {Len(order), space} /\ k \in 0..Len(order) /\ k <= space
    BY <1>1, <1>4, MinOfTwo
  <1>6. notify' = notify \o listed /\ dropped' = dropped \cup (woken \ ToSet(listed))
    BY <1>2
  <1> HIDE DEF k, Listing
  <1>7. dropped \subseteq dropped' /\ (dropped' # {} => truncated')
    <2>1. truncated' = (truncated \/ Len(order) > space)
      BY <1>3 DEF Recorded, space
    <2>2. Len(order) > space \/ k = Len(order)
      BY <1>1, <1>4, <1>5
    <2>3. k = Len(order) => dropped' = dropped
      <3>1. k = Len(order) => listed = order
        BY <1>4, SubSeqAll
      <3> HIDE DEF listed, woken
      <3> QED BY <1>3, <1>6, <3>1
    <2>4. dropped # {} => truncated
      BY DEF RecordsScheduled
    <2> QED BY <1>6, <2>1, <2>2, <2>3, <2>4
  <1>8. /\ notify' \in Seq(Observers) /\ Len(notify') = Len(notify) + k
        /\ ToSet(notify) \subseteq ToSet(notify')
        /\ woken \subseteq ToSet(notify') \cup dropped'
    <2>1. notify \in Seq(Observers)
      BY DEF QueuesSound
    <2>2. listed \in Seq(Observers) /\ Len(listed) = k
      BY <1>4, <1>5, SubSeqFirst
    <2> HIDE DEF woken, listed
    <2>3. /\ notify \o listed \in Seq(Observers)
          /\ Len(notify \o listed) = Len(notify) + k
          /\ ToSet(notify) \subseteq ToSet(notify \o listed)
          /\ ToSet(listed) \subseteq ToSet(notify \o listed)
      BY <2>1, <2>2, ListsJoined
    <2> QED BY <1>6, <2>3
  <1>9. /\ records' \in [Observers -> 0..MaxRecords]
        /\ \A o \in Observers : records'[o] > 0 => records[o] > 0 \/ o \in woken
    <2>1. \A o \in Observers : records[o] \in 0..MaxRecords
      BY DEF QueuesSound
    <2>2. \A o \in Observers : records'[o] = IF o \in watching THEN Min({records[o] + 1, MaxRecords})
                                             ELSE records[o]
      BY DEF Recorded
    <2>3. \A o \in Observers : Min({records[o] + 1, MaxRecords}) \in 0..MaxRecords
      BY <1>1, <2>1, MinOfTwo
    <2>4. records' = [o \in Observers |-> records'[o]]
      BY DEF Recorded
    <2>5. \A o \in Observers : records'[o] \in 0..MaxRecords
      BY <2>1, <2>2, <2>3
    <2>6. ASSUME NEW o \in Observers, records'[o] > 0, ~(records[o] > 0) PROVE o \in woken
      <3>1. records[o] = 0
        BY <2>1, <2>6
      <3>2. o \in watching
        BY <2>2, <2>6
      <3> QED BY <3>1, <3>2
    <2> QED BY <2>4, <2>5, <2>6
  <1> QED BY <1>1, <1>5, <1>7, <1>8, <1>9

(* A step that leaves the queues and the observers' lists to themselves.   *)
LEMMA QuietStep ==
  ASSUME Scheduling, UNCHANGED <<queue, notify, records, truncated, dropped>>,
         live' \subseteq live,
         \/ at' = at /\ batch' = batch
         \/ at' # "observers" /\ (at = "observers" => batch = <<>>),
         after' \in {"idle", "layout", "redraw"}
  PROVE  Scheduling'
  <1>1. QueuesSound'
    BY DEF Scheduling, QueuesSound
  <1>2. \A o : Listed(o) => Listed(o)'
    BY DEF Listed, ToSet
  <1>3. RecordsScheduled'
    BY <1>2 DEF Scheduling, RecordsScheduled
  <1> QED BY <1>1, <1>3 DEF Scheduling

(* queue_pending_dispatch.                                                 *)
LEMMA QueuedStep ==
  ASSUME Scheduling, NEW node \in Nat, NEW type \in {"click", "submit"}, NEW meant \in Nodes,
         Queued(node, type, meant), UNCHANGED <<notify, records, dropped, live, at, batch, after>>
  PROVE  Scheduling'
  <1>1. CASE UNCHANGED queue /\ truncated' = TRUE
    BY <1>1 DEF Scheduling, QueuesSound, RecordsScheduled, Listed
  <1>2. CASE Len(queue) < MaxPending
    <2> DEFINE c == [node |-> node, type |-> type, meant |-> meant]
    <2>1. c \in Calls
      BY DEF Calls
    <2>2. queue' = Append(queue, c) /\ UNCHANGED truncated
      BY <1>2 DEF Queued
    <2> HIDE DEF c
    <2>3. queue' \in Seq(Calls) /\ Len(queue') = Len(queue) + 1 /\ Len(queue) \in Nat
      BY <2>1, <2>2, AppendProperties, LenProperties DEF Scheduling, QueuesSound
    <2>4. MaxPending \in Nat
      BY PageLoopAssumption
    <2>5. QueuesSound'
      BY <1>2, <2>3, <2>4 DEF Scheduling, QueuesSound
    <2>6. RecordsScheduled'
      BY <2>2 DEF Scheduling, RecordsScheduled, Listed
    <2> QED BY <2>5, <2>6 DEF Scheduling
  <1> QED BY <1>1, <1>2 DEF Queued

LEMMA RecordedStep ==
  ASSUME Scheduling, NEW watching \in SUBSET Observers, Recorded(watching),
         UNCHANGED <<queue, live>>,
         (at' = at /\ batch' = batch) \/ {at, at'} \cap {"observers"} = {},
         after' \in {"idle", "layout", "redraw"}
  PROVE  Scheduling'
  <1>1. /\ notify' \in Seq(Observers) /\ Len(notify') <= MaxPending
        /\ records' \in [Observers -> 0..MaxRecords]
        /\ ToSet(notify) \subseteq ToSet(notify')
        /\ \A o \in Observers :
             records'[o] > 0 => records[o] > 0 \/ o \in ToSet(notify') \/ o \in dropped'
        /\ dropped \subseteq dropped' /\ (dropped' # {} => truncated')
    BY RecordedKeeps DEF Scheduling
  <1>2. QueuesSound'
    BY <1>1 DEF Scheduling, QueuesSound
  <1>3. \A o : Listed(o) \/ o \in ToSet(notify') => Listed(o)'
    <2>1. ToSet(notify') = ToSet(notify)'
      OBVIOUS
    <2>2. at = "observers" => at' = "observers" /\ ToSet(batch)' = ToSet(batch)
      BY DEF ToSet
    <2> QED BY <1>1, <2>1, <2>2 DEF Listed
  <1>4. RecordsScheduled'
    BY <1>1, <1>3 DEF Scheduling, RecordsScheduled
  <1> QED BY <1>2, <1>4 DEF Scheduling

LEMMA CallStep ==
  ASSUME Scheduling, ApiCall
  PROVE  Scheduling'
  <1>0. after \in {"idle", "layout", "redraw"} /\ live \subseteq Nodes
    BY DEF Scheduling, QueuesSound
  <1>1. ASSUME NEW x, NEW y, SetTimer(x, y) \/ ClearTimer(x) \/ RequestFrame \/ CancelFrame(x)
                             \/ RemoveListener(x) \/ FreeNode(x) \/ Observe(x, y)
        PROVE  Scheduling'
    <2>1. /\ UNCHANGED <<queue, notify, records, truncated, dropped, at, after, batch>>
          /\ live' \subseteq live
      BY <1>1 DEF SetTimer, ClearTimer, RequestFrame, OverBudget, page, CancelFrame, RemoveListener, FreeNode,
                  Observe, Unchanged, turn
    <2> QED BY <1>0, <2>1, QuietStep
  <1>2. ASSUME NEW node, NEW type, NEW once, AddListener(node, type, once)
        PROVE  Scheduling'
    <2>1. UNCHANGED <<queue, notify, records, truncated, dropped, at, after, batch, live>>
      BY <1>2 DEF AddListener, Unchanged, turn
    <2> QED BY <1>0, <2>1, QuietStep
  <1>3. ASSUME NEW node \in live, Click(node) \/ Submit(node)
        PROVE  Scheduling'
    <2>1. node \in Nat /\ Handle[node] \in Nat /\ node \in Nodes
      BY <1>0, PageLoopAssumption
    <2>2. /\ UNCHANGED <<notify, records, dropped, live, at, batch, after>>
          /\ Queued(node, "click", node) \/ Queued(Handle[node], "submit", node)
      BY <1>3 DEF Click, Submit, Unchanged, turn
    <2> QED BY <2>1, <2>2, QueuedStep
  <1>4. ASSUME NEW node, Mutate(node)
        PROVE  Scheduling'
    <2> DEFINE W == {o \in Observers \ LayoutObservers : <<o, node>> \in watches}
    <2>1. W \in SUBSET Observers
      OBVIOUS
    <2>2. Recorded(W) /\ UNCHANGED <<queue, live, at, batch, after>>
      BY <1>4 DEF Mutate, Unchanged, turn
    <2> HIDE DEF W
    <2> QED BY <1>0, <2>1, <2>2, RecordedStep
  <1>5. ASSUME NEW o, NEW forget, TakeRecords(o, forget)
        PROVE  Scheduling'
    <2>1. /\ records' = [records EXCEPT ![o] = 0] /\ dropped' = dropped \ {o}
          /\ UNCHANGED <<queue, notify, truncated, live, at, batch, after>>
      BY <1>5 DEF TakeRecords, Unchanged, turn
    <2>2. /\ records' \in [Observers -> 0..MaxRecords]
          /\ \A x \in Observers : records'[x] > 0 => records[x] > 0 /\ x # o
      <3>1. records \in [Observers -> 0..MaxRecords] /\ 0 \in 0..MaxRecords /\ ~(0 > 0)
        BY PageLoopAssumption DEF Scheduling, QueuesSound
      <3>2. \A x \in Observers : records'[x] = IF x = o THEN 0 ELSE records[x]
        BY <2>1, <3>1
      <3> QED BY <2>1, <3>1, <3>2
    <2> QED BY <2>1, <2>2 DEF Scheduling, QueuesSound, RecordsScheduled, Listed
  <1> QED BY <1>1, <1>2, <1>3, <1>4, <1>5 DEF ApiCall

(* flush_observer_callbacks takes the whole list, then each record.        *)
LEMMA ObserverStep ==
  ASSUME Scheduling, Observer
  PROVE  Scheduling'
  <1> DEFINE h == Head(batch)
             t == Tail(batch)
  <1>1. batch \in Seq(Observers) /\ batch # <<>> /\ at = "observers"
    BY DEF Observer, At, Scheduling, QueuesSound
  <1>2. /\ h \in Observers /\ t \in Seq(Observers)
        /\ \A o \in ToSet(batch) : o = h \/ o \in ToSet(t)
    <2>1. /\ Len(batch) \in Nat \ {0} /\ DOMAIN batch = 1..Len(batch) /\ h = batch[1]
          /\ h \in Observers /\ t \in Seq(Observers)
          /\ Len(t) = Len(batch) - 1 /\ \A i \in 1..Len(t) : t[i] = batch[i + 1]
      BY <1>1, HeadTailProperties, LenProperties, EmptySeq
    <2> HIDE DEF t, h
    <2>2. DOMAIN t = 1..Len(t)
      BY <2>1, LenProperties
    <2>3. ASSUME NEW i \in 1..Len(batch), i # 1
          PROVE  i - 1 \in DOMAIN t /\ t[i - 1] = batch[i]
      BY <2>1, <2>2, <2>3
    <2> QED BY <2>1, <2>3 DEF ToSet
  <1>3. /\ batch' = t /\ records' = [records EXCEPT ![h] = 0] /\ dropped' = dropped \ {h}
        /\ UNCHANGED <<at, after, queue, notify, truncated, live>>
    BY DEF Observer
  <1> HIDE DEF h, t
  <1>4. /\ records' \in [Observers -> 0..MaxRecords] /\ records'[h] = 0
        /\ \A o \in Observers \ {h} : records'[o] = records[o]
    BY <1>2, <1>3, PageLoopAssumption DEF Scheduling, QueuesSound
  <1>5. QueuesSound'
    BY <1>2, <1>3, <1>4 DEF Scheduling, QueuesSound
  <1>6. \A o \in Observers \ {h} : Listed(o) => Listed(o)'
    BY <1>1, <1>2, <1>3 DEF Listed
  <1>7. ASSUME NEW o \in Observers, records'[o] > 0
        PROVE  Listed(o)' \/ o \in dropped'
    <2>1. o # h /\ records[o] > 0
      BY <1>3, <1>4, <1>7
    <2> QED BY <1>3, <1>6, <2>1 DEF Scheduling, RecordsScheduled
  <1> QED BY <1>3, <1>5, <1>7 DEF Scheduling, RecordsScheduled

LEMMA EventsDoneStep ==
  ASSUME Scheduling, EventsDone
  PROVE  Scheduling'
  <1>1. /\ at = "dispatch" /\ at' = "observers" /\ batch' = notify /\ notify' = <<>>
        /\ UNCHANGED <<after, queue, records, truncated, dropped, live>>
    BY DEF EventsDone, At
  <1>2. Len(<<>>) = 0 /\ 0 <= MaxPending /\ <<>> \in Seq(Observers)
    BY PageLoopAssumption, EmptySeq
  <1>3. QueuesSound'
    BY <1>1, <1>2 DEF Scheduling, QueuesSound
  <1>4. \A o : Listed(o) => Listed(o)'
    BY <1>1 DEF Listed
  <1> QED BY <1>1, <1>3, <1>4 DEF Scheduling, RecordsScheduled

LEMMA RoundStep ==
  ASSUME Scheduling, Round
  PROVE  Scheduling'
  <1>1. /\ at = "round" /\ at' = "dispatch" /\ queue' = <<>>
        /\ UNCHANGED <<after, notify, records, truncated, dropped, live>>
    BY DEF Round, At
  <1>2. Len(<<>>) = 0 /\ 0 <= MaxPending /\ <<>> \in Seq(Calls)
    BY PageLoopAssumption, EmptySeq
  <1>3. QueuesSound'
    BY <1>1, <1>2 DEF Scheduling, QueuesSound
  <1>4. \A o : Listed(o) => Listed(o)'
    BY <1>1 DEF Listed
  <1> QED BY <1>1, <1>3, <1>4 DEF Scheduling, RecordsScheduled

LEMMA LayoutStep ==
  ASSUME Scheduling, Layout \/ Redraw
  PROVE  Scheduling'
  <1>1. Watching \in SUBSET Observers
    BY PageLoopAssumption DEF Watching
  <1>2. /\ Recorded(Watching) /\ UNCHANGED <<queue, live>>
        /\ at \in {"layout", "redraw"} /\ at' \in {"round", "idle"}
        /\ after' \in {"idle", "redraw"}
    BY DEF Layout, Redraw, At
  <1> QED BY <1>1, <1>2, RecordedStep

LEMMA SchedulingStep ==
  ASSUME Scheduling, [Next]_vars
  PROVE  Scheduling'
  <1>0. after \in {"idle", "layout", "redraw"}
    BY DEF Scheduling, QueuesSound
  <1>1. CASE Outside
    <2>1. CASE RunScript
      <3>1. /\ UNCHANGED <<queue, notify, records, truncated, dropped, live>>
            /\ at = "idle" /\ at' = "round" /\ after' = "idle"
        BY <2>1 DEF RunScript, At, page
      <3> QED BY <3>1, QuietStep
    <2>2. ASSUME NEW node, UserClick(node) PROVE Scheduling'
      <3>1. /\ UNCHANGED <<queue, notify, records, truncated, dropped, live, after>>
            /\ at = "idle" /\ at' = "clicked"
        BY <2>2 DEF UserClick, At, page
      <3> QED BY <1>0, <3>1, QuietStep
    <2> QED BY <1>1, <2>1, <2>2, CallStep DEF Outside
  <1>2. CASE Frame \/ Timer \/ Dispatch \/ Listener \/ LeaveNode
    <2>1. /\ UNCHANGED <<queue, notify, records, truncated, dropped, live, after, at>>
          /\ batch' = batch \/ at # "observers"
      BY <1>2 DEF Frame, Timer, Dispatch, Listener, LeaveNode, At, page
    <2> QED BY <1>0, <2>1, QuietStep
  <1>3. CASE FramesDone \/ TimersDone \/ Clicked \/ Pump
    <2>1. /\ UNCHANGED <<queue, notify, records, truncated, dropped, live>>
          /\ at \in {"frames", "timers", "clicked", "idle"}
          /\ at' \in {"timers", "round", "idle", "frames"} /\ after' \in {after, "layout"}
      BY <1>3 DEF FramesDone, TimersDone, Clicked, Pump, Goto, At, page
    <2> QED BY <1>0, <2>1, QuietStep
  <1>4. CASE ObserversDone
    <2>1. /\ UNCHANGED <<queue, notify, records, truncated, dropped, live>> /\ batch = <<>>
          /\ at' \in {after, "round"} /\ after' \in {after, "idle"}
      BY <1>4 DEF ObserversDone, FlushEnds, page
    <2> QED BY <1>0, <2>1, QuietStep
  <1>5. CASE BudgetSpent
    <2>1. /\ UNCHANGED <<queue, notify, records, live, dropped>> /\ truncated' = TRUE
          /\ at' = after /\ after' = "idle"
      BY <1>5 DEF BudgetSpent, FlushEnds
    <2>2. at # "observers" /\ at' # "observers" /\ after' \in {"idle", "layout", "redraw"}
      BY <1>0, <1>5, <2>1 DEF BudgetSpent, At
    <2> QED BY <2>1, <2>2 DEF Scheduling, QueuesSound, RecordsScheduled, Listed
  <1>6. CASE Return \/ UNCHANGED vars
    <2>1. UNCHANGED <<queue, notify, records, truncated, dropped, live, after, at, batch>>
      BY <1>6 DEF Return, vars, turn, page
    <2> QED BY <1>0, <2>1, QuietStep
  <1> QED BY <1>1, <1>2, <1>3, <1>4, <1>5, <1>6, RoundStep, EventsDoneStep, ObserverStep,
             LayoutStep DEF Next, Runtime

LEMMA SchedulingInit == Init => Scheduling
  <1>1. Len(<<>>) = 0 /\ 0 <= MaxPending /\ <<>> \in Seq(Observers) /\ <<>> \in Seq(Calls)
    BY PageLoopAssumption, EmptySeq
  <1>2. 0 \in 0..MaxRecords /\ ~(0 > 0)
    BY PageLoopAssumption
  <1> QED BY <1>1, <1>2 DEF Init, Quiet, Scheduling, QueuesSound, RecordsScheduled

(* An observer with records that its page has not been given stands in the *)
(* list of the next or the running flush, or that list was full when it    *)
(* got the first of them, and then the page's report says so: nothing else *)
(* leaves records behind, neither takeRecords(), disconnect() and          *)
(* mutations made by an observer's own callback nor a budget that ran out. *)
THEOREM RecordsAreScheduled == Spec => []RecordsScheduled
  <1>1. Scheduling => RecordsScheduled
    BY DEF Scheduling
  <1> QED BY <1>1, SchedulingInit, SchedulingStep, PTL DEF Spec

(* Whatever the callbacks call, a page has at most MAX_ACTIVE_TIMERS       *)
(* timers, neither of its two queues passes MAX_PENDING_TASKS and no       *)
(* observer holds more records than MAX_MUTATION_RECORDS.  Animation       *)
(* frames are not among them: Frame puts back what a pump does not run.    *)
PendingBounded ==
  /\ Cardinality(DOMAIN timers) <= MaxTimers
  /\ Len(queue) <= MaxPending /\ Len(notify) <= MaxPending
  /\ \A o \in Observers : records[o] <= MaxRecords

(* Timers, queued events, scheduled observers and their records are        *)
(* bounded (set_timer, queue_pending_dispatch, queue_mutation_record and   *)
(* queue_layout_observer_records).                                         *)
THEOREM PendingWorkIsBounded == Spec => []PendingBounded
  <1>1. TimersSound /\ Scheduling => PendingBounded
    <2>1. \A n \in 0..MaxRecords : n <= MaxRecords
      BY PageLoopAssumption
    <2> QED BY <2>1 DEF TimersSound, Scheduling, QueuesSound, PendingBounded
  <1>2. TimersSound /\ [Next]_vars => TimersSound'
    BY TimersStep
  <1> QED BY <1>1, <1>2, TimersInit, SchedulingInit, SchedulingStep, PTL DEF Spec
=============================================================================
