----------------------- MODULE NetworkSchedulerProofs -----------------------
(***************************************************************************)
(* The safety of the network scheduler for any number of requests and any  *)
(* limits.  The type invariant is not inductive alone: queued stays a      *)
(* natural number only because it counts the calls in Counted, permits     *)
(* stays within its range only because free and held permits add up, and   *)
(* Release may only grant to a call that really waits.  Inv says all of    *)
(* this at once.  The token's invariant needs its own types: that no       *)
(* future is ahead of the epoch makes every notification visible to the    *)
(* futures created before it.                                              *)
(***************************************************************************)
EXTENDS Transfers, DataLemmas

(* A retry is scheduled only while attempts are left.                      *)
RetryBound == \A r \in Requests : pc[r] = "backoff" => attempt[r] < MaxRetries

Inv == /\ TypeOK
       /\ WaitersMatch
       /\ RetryBound
       /\ PermitsConserved
       /\ QueueAccounting
       /\ AdmissionBound
-----------------------------------------------------------------------------
(* How one call's move changes the number of calls in a set of places.     *)
LEMMA AtCount ==
  ASSUME NEW S
  PROVE  IsFiniteSet(At(S)) /\ Cardinality(At(S)) \in Nat
  BY RequestsAssumption, FS_Subset, FS_CardinalityType DEF At

LEMMA GotoCount ==
  ASSUME TypeOK, NEW r \in Requests, NEW label \in PCs, Goto(r, label), NEW S
  PROVE  /\ (pc[r] \in S <=> label \in S) => At(S)' = At(S)
         /\ pc[r] \notin S /\ label \in S =>
              At(S)' = At(S) \cup {r} /\ Cardinality(At(S)') = Cardinality(At(S)) + 1
         /\ pc[r] \in S /\ label \notin S =>
              At(S)' = At(S) \ {r} /\ Cardinality(At(S)') = Cardinality(At(S)) - 1
  <1>1. \A x \in Requests : pc'[x] = IF x = r THEN label ELSE pc[x]
    BY DEF TypeOK, Goto
  <1>2. IsFiniteSet(At(S))
    BY AtCount
  <1>3. CASE pc[r] \in S <=> label \in S
    BY <1>1, <1>3 DEF At
  <1>4. CASE pc[r] \notin S /\ label \in S
    <2>1. At(S)' = At(S) \cup {r} /\ r \notin At(S)
      BY <1>1, <1>4 DEF At
    <2> QED BY <1>2, <1>4, <2>1, FS_AddElement
  <1>5. CASE pc[r] \in S /\ label \notin S
    <2>1. At(S)' = At(S) \ {r} /\ r \in At(S)
      BY <1>1, <1>5 DEF At
    <2> QED BY <1>2, <1>5, <2>1, FS_RemoveElement
  <1> QED BY <1>3, <1>4, <1>5

(* A call in a counted place is a reason for queued to be positive.        *)
LEMMA CountedPositive ==
  ASSUME Inv, NEW r \in Requests, pc[r] \in Counted
  PROVE  queued \in Nat \ {0} /\ queued - 1 \in Nat
  <1>1. r \in At(Counted) /\ IsFiniteSet(At(Counted)) /\ Cardinality(At(Counted)) \in Nat
    BY AtCount DEF At
  <1>2. Cardinality(At(Counted)) # 0
    BY <1>1, FS_EmptySet
  <1> QED BY <1>1, <1>2 DEF Inv, QueueAccounting

LEMMA PlacesDef == /\ Counted \subseteq PCs /\ Holding \subseteq PCs
                   /\ Admitted \subseteq Counted
  BY DEF Counted, Admitted, Holding, Transporting, PCs
-----------------------------------------------------------------------------
LEMMA InitInv == Init => Inv
  <1> SUFFICES ASSUME Init PROVE Inv
    OBVIOUS
  <1>1. \A S : "new" \notin S => At(S) = {}
    BY DEF Init, At
  <1>2. At(Counted) = {} /\ At(Admitted) = {} /\ At(Holding) = {} /\ At({"waiting"}) = {}
    BY <1>1 DEF Counted, Admitted, Holding, Transporting
  <1>3. TypeOK
    BY LimitsAssumption DEF Init, TypeOK, PCs
  <1>4. WaitersMatch
    BY <1>2 DEF Init, WaitersMatch, ToSet, IsInjective
  <1>5. PermitsConserved /\ QueueAccounting /\ AdmissionBound
    BY <1>2, FS_EmptySet, LimitsAssumption
       DEF Init, PermitsConserved, QueueAccounting, AdmissionBound
  <1>6. RetryBound
    BY DEF Init, RetryBound
  <1> QED BY <1>3, <1>4, <1>5, <1>6 DEF Inv

(* A move between two places that no counter tells apart.                  *)
LEMMA QuietMove ==
  ASSUME Inv, NEW r \in Requests, NEW label \in PCs, Goto(r, label),
         pc[r] \in Holding <=> label \in Holding,
         pc[r] \in Counted <=> label \in Counted,
         pc[r] \in Admitted <=> label \in Admitted,
         pc[r] # "waiting", label # "waiting",
         UNCHANGED <<queued, permits, waiters>>
  PROVE  WaitersMatch' /\ PermitsConserved' /\ QueueAccounting' /\ AdmissionBound'
  <1>1. /\ At(Holding)' = At(Holding) /\ At(Counted)' = At(Counted)
        /\ At(Admitted)' = At(Admitted) /\ At({"waiting"})' = At({"waiting"})
    BY GotoCount DEF Inv
  <1> QED BY <1>1 DEF Inv, WaitersMatch, PermitsConserved, QueueAccounting, AdmissionBound

LEMMA CountInv == ASSUME Inv, NEW r \in Requests, Count(r) PROVE Inv'
  <1> DEFINE label == IF queued >= MaxQueued THEN "overflow" ELSE "counted"
  <1>1. /\ label \in PCs /\ Goto(r, label) /\ pc[r] = "checked" /\ queued' = queued + 1
        /\ UNCHANGED <<result, attempt, permits, waiters, cancelled>>
    BY DEF Count, PCs, Counted
  <1>2. TypeOK' /\ RetryBound'
    BY <1>1 DEF Inv, TypeOK, RetryBound, Goto
  <1>3. At(Holding)' = At(Holding) /\ At({"waiting"})' = At({"waiting"})
    BY <1>1, GotoCount DEF Inv, Holding, Transporting
  <1>4. Cardinality(At(Counted)') = Cardinality(At(Counted)) + 1
    BY <1>1, GotoCount DEF Inv, Counted
  <1>5. AdmissionBound'
    <2>1. CASE queued >= MaxQueued
      <3>1. At(Admitted)' = At(Admitted)
        BY <1>1, <2>1, GotoCount DEF Inv, Counted, Admitted
      <3> QED BY <3>1 DEF Inv, AdmissionBound
    <2>2. CASE ~(queued >= MaxQueued)
      <3>1. Cardinality(At(Admitted)') = Cardinality(At(Admitted)) + 1
        BY <1>1, <2>2, GotoCount DEF Inv, Counted, Admitted
      <3>2. At(Admitted) \subseteq At(Counted)
        BY PlacesDef DEF At
      <3>3. Cardinality(At(Admitted)) <= queued
        BY <3>2, AtCount, FS_Subset DEF Inv, QueueAccounting
      <3>4. Cardinality(At(Admitted)) \in Nat
        BY AtCount
      <3> QED BY <2>2, <3>1, <3>3, <3>4, LimitsAssumption DEF AdmissionBound, Inv, TypeOK
    <2> QED BY <2>1, <2>2
  <1> QED BY <1>1, <1>2, <1>3, <1>4, <1>5
          DEF Inv, WaitersMatch, PermitsConserved, QueueAccounting

LEMMA RejectInv == ASSUME Inv, NEW r \in Requests, Reject(r) PROVE Inv'
  <1>1. /\ Goto(r, "done") /\ pc[r] \in {"overflow", "expired"} /\ queued' = queued - 1
        /\ UNCHANGED <<attempt, permits, waiters, cancelled>>
        /\ "done" \in PCs /\ pc[r] \in Counted
        /\ \E o \in Outcomes : Decide(r, o)
    BY DEF Reject, Counted, PCs, Outcomes
  <1>2. queued - 1 \in Nat
    BY <1>1, CountedPositive
  <1>3. TypeOK' /\ RetryBound'
    BY <1>1, <1>2 DEF Inv, TypeOK, RetryBound, Goto, Decide
  <1>4. At(Holding)' = At(Holding) /\ At({"waiting"})' = At({"waiting"})
    BY <1>1, GotoCount DEF Inv, Holding, Transporting
  <1>5. Cardinality(At(Counted)') = Cardinality(At(Counted)) - 1
    BY <1>1, GotoCount DEF Inv, Counted
  <1>6. \/ At(Admitted)' = At(Admitted)
        \/ Cardinality(At(Admitted)') = Cardinality(At(Admitted)) - 1
    BY <1>1, GotoCount DEF Inv, Counted, Admitted
  <1>7. AdmissionBound'
    BY <1>6, AtCount, LimitsAssumption DEF Inv, AdmissionBound
  <1> QED BY <1>1, <1>3, <1>4, <1>5, <1>7
          DEF Inv, WaitersMatch, PermitsConserved, QueueAccounting

LEMMA DequeueInv == ASSUME Inv, NEW r \in Requests, Dequeue(r) PROVE Inv'
  <1>1. /\ Goto(r, "admitted") /\ pc[r] = "granted" /\ queued' = queued - 1
        /\ UNCHANGED <<result, attempt, permits, waiters, cancelled>>
        /\ "admitted" \in PCs /\ pc[r] \in Counted
    BY DEF Dequeue, Counted, Holding, PCs
  <1>2. queued - 1 \in Nat
    BY <1>1, CountedPositive
  <1>3. TypeOK' /\ RetryBound'
    BY <1>1, <1>2 DEF Inv, TypeOK, RetryBound, Goto
  <1>4. At(Holding)' = At(Holding) /\ At({"waiting"})' = At({"waiting"})
    BY <1>1, GotoCount DEF Inv, Holding
  <1>5. /\ Cardinality(At(Counted)') = Cardinality(At(Counted)) - 1
        /\ Cardinality(At(Admitted)') = Cardinality(At(Admitted)) - 1
    BY <1>1, GotoCount DEF Inv, Counted, Admitted
  <1>6. AdmissionBound'
    BY <1>5, AtCount, LimitsAssumption DEF Inv, AdmissionBound
  <1> QED BY <1>1, <1>3, <1>4, <1>5, <1>6
          DEF Inv, WaitersMatch, PermitsConserved, QueueAccounting

LEMMA AcquireInv == ASSUME Inv, NEW r \in Requests, Acquire(r) PROVE Inv'
  <1>1. /\ pc[r] = "counted" /\ "granted" \in PCs /\ "waiting" \in PCs
        /\ UNCHANGED <<result, attempt, queued, cancelled>>
        /\ permits \in Nat /\ MaxConcurrency \in Nat
    BY LimitsAssumption DEF Acquire, PCs, Counted, Inv, TypeOK
  <1>2. CASE permits > 0
    <2>1. Goto(r, "granted") /\ permits' = permits - 1 /\ waiters' = waiters
      BY <1>1, <1>2 DEF Acquire
    <2>2. TypeOK' /\ RetryBound'
      BY <1>1, <1>2, <2>1, LimitsAssumption DEF Inv, TypeOK, RetryBound, Goto
    <2>3. Cardinality(At(Holding)') = Cardinality(At(Holding)) + 1
      BY <1>1, <2>1, GotoCount DEF Inv, Holding, Transporting
    <2>4. /\ At(Counted)' = At(Counted) /\ At(Admitted)' = At(Admitted)
          /\ At({"waiting"})' = At({"waiting"})
      BY <1>1, <2>1, GotoCount DEF Inv, Counted, Admitted
    <2>5. PermitsConserved'
      BY <1>1, <1>2, <2>1, <2>3, AtCount DEF Inv, PermitsConserved
    <2> QED BY <1>1, <2>1, <2>2, <2>4, <2>5
            DEF Inv, WaitersMatch, QueueAccounting, AdmissionBound
  <1>3. CASE ~(permits > 0)
    <2>1. Goto(r, "waiting") /\ permits = 0 /\ permits' = permits /\ waiters' = Append(waiters, r)
      BY <1>1, <1>3 DEF Acquire
    <2>2. r \notin ToSet(waiters)
      BY <1>1 DEF Inv, WaitersMatch, At
    <2>3. /\ waiters' \in Seq(Requests) /\ ToSet(waiters') = ToSet(waiters) \cup {r}
          /\ IsInjective(waiters')
      BY <2>1, <2>2, QueueAppend DEF Inv, TypeOK, WaitersMatch
    <2>4. TypeOK' /\ RetryBound'
      BY <1>1, <2>1, <2>3 DEF Inv, TypeOK, RetryBound, Goto
    <2>5. /\ At(Counted)' = At(Counted) /\ At(Admitted)' = At(Admitted)
          /\ At(Holding)' = At(Holding)
      BY <1>1, <2>1, GotoCount DEF Inv, Counted, Admitted, Holding, Transporting
    <2>6. At({"waiting"})' = At({"waiting"}) \cup {r}
      BY <1>1, <2>1, GotoCount DEF Inv
    <2>7. WaitersMatch'
      BY <2>3, <2>6 DEF Inv, WaitersMatch
    <2>8. PermitsConserved'
      BY <2>1, <2>5 DEF Inv, PermitsConserved
    <2> QED BY <1>1, <2>4, <2>5, <2>7, <2>8 DEF Inv, QueueAccounting, AdmissionBound
  <1> QED BY <1>2, <1>3

LEMMA WaitTimeoutInv == ASSUME Inv, NEW r \in Requests, WaitTimeout(r) PROVE Inv'
  <1>1. /\ pc[r] = "waiting" /\ "expired" \in PCs /\ Goto(r, "expired")
        /\ UNCHANGED <<result, attempt, queued, permits, cancelled>>
    BY DEF WaitTimeout, PCs, Counted
  <1>2. PICK i \in DOMAIN waiters : waiters[i] = r /\ waiters' = RemoveAt(waiters, i)
    BY DEF WaitTimeout
  <1>3. /\ waiters' \in Seq(Requests) /\ ToSet(waiters') = ToSet(waiters) \ {r}
        /\ IsInjective(waiters')
    BY <1>2, QueueRemove DEF Inv, TypeOK, WaitersMatch
  <1>4. TypeOK' /\ RetryBound'
    BY <1>1, <1>3 DEF Inv, TypeOK, RetryBound, Goto
  <1>5. /\ At(Counted)' = At(Counted) /\ At(Admitted)' = At(Admitted)
        /\ At(Holding)' = At(Holding)
    BY <1>1, GotoCount DEF Inv, Counted, Admitted, Holding, Transporting
  <1>6. At({"waiting"})' = At({"waiting"}) \ {r}
    BY <1>1, GotoCount DEF Inv
  <1>7. WaitersMatch'
    BY <1>3, <1>6 DEF Inv, WaitersMatch
  <1>8. ~(permits > 0)
    <2>1. r \in ToSet(waiters)
      BY <1>1 DEF Inv, WaitersMatch, At
    <2>2. waiters # <<>>
      BY <2>1 DEF ToSet
    <2> QED BY <2>2 DEF Inv, PermitsConserved
  <1>9. PermitsConserved'
    BY <1>1, <1>5, <1>8 DEF Inv, PermitsConserved
  <1> QED BY <1>1, <1>4, <1>5, <1>7, <1>9 DEF Inv, QueueAccounting, AdmissionBound

(* Handing the permit over moves two calls: r out of Holding, the head of  *)
(* the queue into it, so the number of holders stays the same.             *)
LEMMA ReleaseInv == ASSUME Inv, NEW r \in Requests, Release(r) PROVE Inv'
  <1>1. /\ pc[r] = "settled" /\ "done" \in PCs /\ "granted" \in PCs
        /\ UNCHANGED <<result, attempt, queued, cancelled>>
        /\ permits \in Nat /\ MaxConcurrency \in Nat
    BY LimitsAssumption DEF Release, PCs, Counted, Inv, TypeOK
  <1>2. CASE waiters = <<>>
    <2>1. Goto(r, "done") /\ permits' = permits + 1 /\ waiters' = waiters
      BY <1>1, <1>2 DEF Release
    <2>2. Cardinality(At(Holding)') = Cardinality(At(Holding)) - 1
      BY <1>1, <2>1, GotoCount DEF Inv, Holding, Transporting
    <2>3. r \in At(Holding)
      BY <1>1 DEF At, Holding
    <2>4. Cardinality(At(Holding)) \in Nat \ {0}
      BY <2>3, AtCount, FS_EmptySet
    <2>5. permits + 1 \in 0..MaxConcurrency
      BY <1>1, <2>4 DEF Inv, PermitsConserved
    <2>6. TypeOK' /\ RetryBound'
      BY <1>1, <2>1, <2>5 DEF Inv, TypeOK, RetryBound, Goto
    <2>7. /\ At(Counted)' = At(Counted) /\ At(Admitted)' = At(Admitted)
          /\ At({"waiting"})' = At({"waiting"})
      BY <1>1, <2>1, GotoCount DEF Inv, Counted, Admitted
    <2>8. PermitsConserved'
      BY <1>1, <1>2, <2>1, <2>2, <2>4 DEF Inv, PermitsConserved
    <2> QED BY <1>1, <2>1, <2>6, <2>7, <2>8
            DEF Inv, WaitersMatch, QueueAccounting, AdmissionBound
  <1>3. CASE waiters # <<>>
    <2> DEFINE h == Head(waiters)
    <2>1. /\ pc' = [pc EXCEPT ![r] = "done", ![h] = "granted"]
          /\ permits' = permits /\ waiters' = Tail(waiters)
      BY <1>1, <1>3 DEF Release
    <2>2. /\ waiters' \in Seq(Requests) /\ h \in ToSet(waiters)
          /\ ToSet(waiters') = ToSet(waiters) \ {h} /\ IsInjective(waiters')
      BY <1>3, <2>1, QueueTail DEF Inv, TypeOK, WaitersMatch
    <2>3. h \in Requests /\ pc[h] = "waiting" /\ h # r
      BY <1>1, <2>2 DEF Inv, WaitersMatch, At
    <2> HIDE DEF h
    <2>4. \A x \in Requests : pc'[x] = IF x = h THEN "granted"
                                       ELSE IF x = r THEN "done" ELSE pc[x]
      BY <1>1, <2>1, <2>3 DEF Inv, TypeOK
    <2>5. TypeOK' /\ RetryBound'
      BY <1>1, <2>1, <2>2, <2>3, <2>4 DEF Inv, TypeOK, RetryBound
    <2>6. /\ At(Counted)' = At(Counted) /\ At(Admitted)' = At(Admitted)
          /\ At({"waiting"})' = At({"waiting"}) \ {h}
      BY <1>1, <2>3, <2>4 DEF At, Counted, Admitted
    <2>7. /\ At(Holding)' = (At(Holding) \ {r}) \cup {h}
          /\ r \in At(Holding) /\ h \notin At(Holding)
      BY <1>1, <2>3, <2>4 DEF At, Holding, Transporting
    <2>8. Cardinality(At(Holding)') = Cardinality(At(Holding))
      <3> DEFINE H == At(Holding)
                 K == H \ {r}
      <3>1. IsFiniteSet(H) /\ Cardinality(H) \in Nat /\ r \in H
        BY <2>7, AtCount
      <3> HIDE DEF H
      <3>2. IsFiniteSet(K) /\ Cardinality(K) = Cardinality(H) - 1
        BY <3>1, FS_RemoveElement
      <3>3. h \notin K
        BY <2>7 DEF H
      <3> HIDE DEF K
      <3>4. Cardinality(K \cup {h}) = Cardinality(K) + 1
        BY <3>2, <3>3, FS_AddElement
      <3>5. At(Holding)' = K \cup {h}
        BY <2>7 DEF H, K
      <3> QED BY <3>1, <3>2, <3>4, <3>5 DEF H
    <2>9. WaitersMatch'
      BY <2>2, <2>6 DEF Inv, WaitersMatch
    <2>10. PermitsConserved'
      BY <1>1, <1>3, <2>1, <2>8 DEF Inv, PermitsConserved
    <2> QED BY <1>1, <2>5, <2>6, <2>9, <2>10 DEF Inv, QueueAccounting, AdmissionBound
  <1> QED BY <1>2, <1>3
-----------------------------------------------------------------------------
(* The steps that decide an outcome while the permit is held, and the      *)
(* transport's own: none of them moves a counter.                          *)
LEMMA SettleInv ==
  ASSUME Inv, NEW r \in Requests, NEW o \in Outcomes, Settle(r, o),
         pc[r] \in Transporting
  PROVE  Inv'
  <1>1. /\ Goto(r, "settled") /\ "settled" \in PCs /\ Decide(r, o)
        /\ UNCHANGED <<attempt, queued, permits, waiters, cancelled>>
        /\ pc[r] \in Holding /\ "settled" \in Holding
        /\ pc[r] \notin Counted /\ "settled" \notin Counted
        /\ pc[r] \notin Admitted /\ "settled" \notin Admitted
        /\ pc[r] # "waiting"
    BY DEF Settle, PCs, Holding, Counted, Admitted, Transporting
  <1>2. TypeOK' /\ RetryBound'
    BY <1>1 DEF Inv, TypeOK, RetryBound, Goto, Decide
  <1> QED BY <1>1, <1>2, QuietMove DEF Inv

LEMMA TransportInv ==
  ASSUME Inv, NEW r \in Requests, Transport(r) \/ Timer(r) \/ ObserveCancel(r)
  PROVE  Inv'
  <1>1. CASE WaitTimeout(r)
    BY <1>1, WaitTimeoutInv
  <1>2. CASE RequestTimeout(r) \/ ObserveCancel(r)
    BY <1>2, SettleInv DEF RequestTimeout, ObserveCancel, Outcomes
  <1>3. ASSUME NEW b \in BOOLEAN, TransportSucceeds(r, b) \/ TransportFails(r, b)
        PROVE  Inv'
    <2>1. pc[r] \in Transporting /\ \E o \in Outcomes : Settle(r, o)
      BY <1>3 DEF TransportSucceeds, TransportFails, Transporting, Outcomes
    <2> QED BY <2>1, SettleInv
  <1>4. CASE Retry(r)
    <2>1. /\ Goto(r, "backoff") /\ "backoff" \in PCs /\ pc[r] = "running"
          /\ UNCHANGED <<result, attempt, queued, permits, waiters, cancelled>>
          /\ attempt[r] < MaxRetries
      BY <1>4 DEF Retry, PCs, Holding, Transporting
    <2>2. TypeOK' /\ RetryBound'
      BY <2>1 DEF Inv, TypeOK, RetryBound, Goto
    <2>3. WaitersMatch' /\ PermitsConserved' /\ QueueAccounting' /\ AdmissionBound'
      BY <2>1, QuietMove DEF Holding, Transporting, Counted, Admitted
    <2> QED BY <2>2, <2>3 DEF Inv
  <1>5. CASE BackoffElapses(r)
    <2>1. /\ Goto(r, "running") /\ "running" \in PCs /\ pc[r] = "backoff"
          /\ attempt' = [attempt EXCEPT ![r] = @ + 1]
          /\ UNCHANGED <<result, queued, permits, waiters, cancelled>>
      BY <1>5 DEF BackoffElapses, PCs, Holding, Transporting
    <2>2. TypeOK' /\ RetryBound'
      BY <2>1, LimitsAssumption DEF Inv, TypeOK, RetryBound, Goto
    <2>3. WaitersMatch' /\ PermitsConserved' /\ QueueAccounting' /\ AdmissionBound'
      BY <2>1, QuietMove DEF Holding, Transporting, Counted, Admitted
    <2> QED BY <2>2, <2>3 DEF Inv
  <1> QED BY <1>1, <1>2, <1>3, <1>4, <1>5 DEF Transport, Timer

LEMMA StartLaunchInv ==
  ASSUME Inv, NEW r \in Requests, Start(r) \/ Launch(r)
  PROVE  Inv'
  <1>1. CASE Start(r)
    <2>1. PICK label \in {"checked", "done"} :
            /\ Goto(r, label) /\ (UNCHANGED result \/ \E o \in Outcomes : Decide(r, o))
            /\ pc[r] = "new" /\ UNCHANGED <<attempt, queued, permits, waiters, cancelled>>
      BY <1>1 DEF Start, Outcomes
    <2>2. TypeOK' /\ RetryBound'
      BY <2>1 DEF Inv, TypeOK, RetryBound, Goto, Decide, PCs
    <2>3. WaitersMatch' /\ PermitsConserved' /\ QueueAccounting' /\ AdmissionBound'
      BY <2>1, QuietMove DEF Holding, Transporting, Counted, Admitted, PCs
    <2> QED BY <2>2, <2>3 DEF Inv
  <1>2. CASE Launch(r)
    <2>1. PICK label \in {"settled", "running"} :
            /\ Goto(r, label) /\ (UNCHANGED result \/ \E o \in Outcomes : Decide(r, o))
            /\ pc[r] = "admitted" /\ UNCHANGED <<attempt, queued, permits, waiters, cancelled>>
      BY <1>2 DEF Launch, Outcomes
    <2>2. TypeOK' /\ RetryBound'
      BY <2>1 DEF Inv, TypeOK, RetryBound, Goto, Decide, PCs, Holding, Transporting
    <2>3. WaitersMatch' /\ PermitsConserved' /\ QueueAccounting' /\ AdmissionBound'
      BY <2>1, QuietMove DEF Holding, Transporting, Counted, Admitted, PCs
    <2> QED BY <2>2, <2>3 DEF Inv
  <1> QED BY <1>1, <1>2

LEMMA NextInv == Inv /\ [Next]_vars => Inv'
  <1> SUFFICES ASSUME Inv, [Next]_vars PROVE Inv'
    OBVIOUS
  <1>1. ASSUME NEW t \in Tokens, Cancel(t) PROVE Inv'
    BY <1>1 DEF Cancel, Inv, TypeOK, WaitersMatch, RetryBound, PermitsConserved,
                QueueAccounting, AdmissionBound, At
  <1>2. ASSUME NEW r \in Requests, Code(r) PROVE Inv'
    BY <1>2, CountInv, RejectInv, AcquireInv, DequeueInv, StartLaunchInv, ReleaseInv DEF Code
  <1>3. CASE UNCHANGED vars
    BY <1>3 DEF vars, Inv, TypeOK, WaitersMatch, RetryBound, PermitsConserved,
                QueueAccounting, AdmissionBound, At
  <1> QED BY <1>1, <1>2, <1>3, StartLaunchInv, TransportInv DEF Next

(* Every variable keeps its type; queued never goes below zero and permits *)
(* never above the configured concurrency.                                 *)
THEOREM TypeCorrect == Spec => []TypeOK
<1>1. Inv => TypeOK
  BY DEF Inv
<1> QED BY <1>1, InitInv, NextInv, PTL DEF Spec

(* No way out of fetch() loses or mints a permit, and a free permit never  *)
(* lies beside a waiting call.                                             *)
THEOREM PermitSafety == Spec => []PermitsConserved
<1>1. Inv => PermitsConserved
  BY DEF Inv
<1> QED BY <1>1, InitInv, NextInv, PTL DEF Spec

(* queued counts the calls that are queued, and no race on fetch_add       *)
(* admits more of them than max_queued.                                    *)
THEOREM QueueSafety == Spec => [](QueueAccounting /\ AdmissionBound)
<1>1. Inv => QueueAccounting /\ AdmissionBound
  BY DEF Inv
<1> QED BY <1>1, InitInv, NextInv, PTL DEF Spec
-----------------------------------------------------------------------------
(* The refinement.  A step of fetch() is a step of the bounded service     *)
(* when it starts the transport or decides the outcome, a stutter          *)
(* otherwise; what the mapping needs beyond Inv is that exactly the calls  *)
(* past their decision carry a result.                                     *)
DecidedLate == \A r \in Requests : result[r] # None <=> pc[r] \in {"settled", "done"}

LEMMA NextDecidedLate == Inv /\ DecidedLate /\ [Next]_vars => DecidedLate'
  <1> SUFFICES ASSUME Inv, DecidedLate, [Next]_vars PROVE DecidedLate'
    OBVIOUS
  <1> TypeOK
    BY DEF Inv
  <1> USE NoneAssumption DEF TypeOK, DecidedLate, Goto, Decide, Outcomes
  <1>1. ASSUME NEW t \in Tokens, Cancel(t) PROVE DecidedLate'
    BY <1>1 DEF Cancel
  <1>2. ASSUME NEW r \in Requests, Start(r) PROVE DecidedLate'
    BY <1>2 DEF Start
  <1>3. ASSUME NEW r \in Requests, Code(r) PROVE DecidedLate'
    <2>1. CASE Count(r)
      BY <2>1 DEF Count
    <2>2. CASE Reject(r)
      BY <2>2 DEF Reject
    <2>3. CASE Acquire(r)
      BY <2>3 DEF Acquire
    <2>4. CASE Dequeue(r)
      BY <2>4 DEF Dequeue
    <2>5. CASE Launch(r)
      BY <2>5 DEF Launch
    <2>6. CASE Release(r)
      <3>1. CASE waiters = <<>>
        BY <2>6, <3>1 DEF Release
      <3>2. CASE waiters # <<>>
        <4>1. Head(waiters) \in Requests /\ pc[Head(waiters)] = "waiting"
          BY <3>2, QueueTail DEF Inv, WaitersMatch, At
        <4> QED BY <2>6, <3>2, <4>1 DEF Release
      <3> QED BY <3>1, <3>2
    <2> QED BY <1>3, <2>1, <2>2, <2>3, <2>4, <2>5, <2>6 DEF Code
  <1>4. ASSUME NEW r \in Requests, Timer(r) \/ ObserveCancel(r) PROVE DecidedLate'
    BY <1>4 DEF Timer, WaitTimeout, RequestTimeout, ObserveCancel, Settle, Transporting
  <1>5. ASSUME NEW r \in Requests, Transport(r) PROVE DecidedLate'
    BY <1>5 DEF Transport, TransportSucceeds, TransportFails, Retry, BackoffElapses,
                Settle, Transporting
  <1>6. CASE UNCHANGED vars
    BY <1>6 DEF vars
  <1> QED BY <1>1, <1>2, <1>3, <1>4, <1>5, <1>6 DEF Next

(* Steps that neither touch a result nor enter or leave the transport.     *)
LEMMA ServiceStutter ==
  ASSUME TypeOK, NEW r \in Requests, NEW label \in PCs, Goto(r, label),
         pc[r] \in Transporting <=> label \in Transporting,
         UNCHANGED <<result, cancelled>>
  PROVE  UNCHANGED Service!vars
  <1>1. At(Transporting)' = At(Transporting)
    BY GotoCount
  <1> QED BY <1>1 DEF Service!vars, IsCancelled

LEMMA ServiceAnswer ==
  ASSUME Inv, DecidedLate, NEW r \in Requests, NEW label \in {"settled", "done"},
         Goto(r, label), NEW o \in Outcomes, Decide(r, o), UNCHANGED cancelled,
         pc[r] \notin {"settled", "done"},
         o = "ok" => pc[r] \in Transporting /\ ~IsCancelled(r),
         o = "cancelled" => IsCancelled(r)
  PROVE  Service!Answer(r, o)
  <1>1. At(Transporting)' = At(Transporting) \ {r}
    BY DEF Inv, TypeOK, Goto, At, Transporting
  <1>2. result[r] = None
    BY DEF DecidedLate
  <1> QED BY <1>1, <1>2 DEF Service!Answer, Decide, At, IsCancelled

LEMMA ServiceEnter ==
  ASSUME Inv, DecidedLate, NEW r \in Requests, pc[r] = "admitted", Goto(r, "running"),
         ~IsCancelled(r), UNCHANGED <<result, cancelled>>
  PROVE  Service!Enter(r)
  <1>1. At(Transporting)' = At(Transporting) \cup {r} /\ r \notin At(Transporting)
    BY DEF Inv, TypeOK, Goto, At, Transporting
  <1>2. result[r] = None
    BY DEF DecidedLate
  <1>3. Cardinality(At(Transporting)) < MaxConcurrency
    <2> DEFINE H == At(Holding)
               T == At(Transporting)
    <2>1. T \subseteq H /\ r \in H /\ r \notin T
      BY DEF At, Holding, Transporting
    <2>2. IsFiniteSet(H) /\ Cardinality(H) \in Nat /\ Cardinality(T) \in Nat
      BY AtCount
    <2>3. Cardinality(H) <= MaxConcurrency
      BY <2>2, LimitsAssumption DEF Inv, TypeOK, PermitsConserved
    <2> HIDE DEF H, T
    <2>4. Cardinality(T) < Cardinality(H)
      <3>1. T \in SUBSET H /\ T # H
        BY <2>1
      <3>2. Cardinality(T) <= Cardinality(H) /\ Cardinality(T) # Cardinality(H)
        BY <2>2, <3>1, FS_Subset
      <3> QED BY <2>2, <3>2
    <2>5. Cardinality(T) < MaxConcurrency
      BY <2>2, <2>3, <2>4, LimitsAssumption
    <2> QED BY <2>5 DEF T
  <1>4. {x \in Requests : IsCancelled(x)}' = {x \in Requests : IsCancelled(x)}
    BY DEF IsCancelled
  <1> DEFINE T == At(Transporting)
             W == {x \in Requests : IsCancelled(x)}
  <1>5. r \notin T \cup W
    BY <1>1
  <1> HIDE DEF T, W
  <1>6. T' = T \cup {r} /\ W' = W /\ Cardinality(T) < MaxConcurrency
    BY <1>1, <1>3, <1>4 DEF T, W
  <1>7. Service!Cardinality(T) = Cardinality(T)
    BY Zenon DEF Service!Cardinality, Cardinality
  <1> QED BY <1>2, <1>5, <1>6, <1>7 DEF Service!Enter, T, W

LEMMA ServiceStep == Inv /\ DecidedLate /\ [Next]_vars => [Service!Next]_Service!vars
  <1> SUFFICES ASSUME Inv, DecidedLate, [Next]_vars
               PROVE  Service!Next \/ UNCHANGED Service!vars
    OBVIOUS
  <1> TypeOK
    BY DEF Inv
  <1> DEFINE Answers == \E r \in Requests, o \in Outcomes : Service!Answer(r, o)
  <1>1. ASSUME NEW t \in Tokens, Cancel(t) PROVE Service!Next
    <2> DEFINE S == {r \in Requests : TokenOf[r] = t}
    <2>1. Service!Withdraw(S)
      BY <1>1 DEF Service!Withdraw, Cancel, At, IsCancelled
    <2> QED BY <2>1 DEF Service!Next
  <1>2. ASSUME NEW r \in Requests, Start(r) PROVE Answers \/ UNCHANGED Service!vars
    <2>1. CASE r \in HttpRequests /\ ~IsCancelled(r)
      BY <1>2, <2>1, ServiceStutter DEF Start, PCs, Transporting, Counted
    <2>2. CASE r \notin HttpRequests
      BY <1>2, <2>2, ServiceAnswer DEF Start, Outcomes
    <2>3. CASE r \in HttpRequests /\ IsCancelled(r)
      BY <1>2, <2>3, ServiceAnswer DEF Start, Outcomes
    <2> QED BY <2>1, <2>2, <2>3
  <1>3. ASSUME NEW r \in Requests, Code(r) PROVE Service!Next \/ UNCHANGED Service!vars
    <2>1. CASE Count(r) \/ Acquire(r) \/ Dequeue(r)
      BY <2>1, ServiceStutter DEF Count, Acquire, Dequeue, PCs, Counted, Holding, Transporting
    <2>2. CASE Reject(r)
      <3>1. Answers
        BY <2>2, ServiceAnswer DEF Reject, Outcomes
      <3> QED BY <3>1 DEF Service!Next
    <2>3. CASE Launch(r)
      <3>1. CASE IsCancelled(r)
        <4>1. Answers
          BY <2>3, <3>1, ServiceAnswer DEF Launch, Outcomes
        <4> QED BY <4>1 DEF Service!Next
      <3>2. CASE ~IsCancelled(r)
        <4>1. Service!Enter(r)
          BY <2>3, <3>2, ServiceEnter DEF Launch
        <4> QED BY <4>1 DEF Service!Next
      <3> QED BY <3>1, <3>2
    <2>4. CASE Release(r)
      <3>1. CASE waiters = <<>>
        BY <2>4, <3>1, ServiceStutter DEF Release, PCs, Transporting
      <3>2. CASE waiters # <<>>
        <4>1. Head(waiters) \in Requests /\ pc[Head(waiters)] = "waiting"
          BY <3>2, QueueTail DEF Inv, TypeOK, WaitersMatch, At
        <4>2. At(Transporting)' = At(Transporting)
          BY <2>4, <3>2, <4>1 DEF Release, At, TypeOK, Transporting
        <4> QED BY <2>4, <4>2 DEF Release, Service!vars, IsCancelled
      <3> QED BY <3>1, <3>2
    <2> QED BY <1>3, <2>1, <2>2, <2>3, <2>4 DEF Code
  <1>4. ASSUME NEW r \in Requests, Timer(r) \/ ObserveCancel(r) PROVE Answers \/ UNCHANGED Service!vars
    <2>1. CASE WaitTimeout(r)
      BY <2>1, ServiceStutter DEF WaitTimeout, PCs, Counted, Transporting
    <2>2. CASE RequestTimeout(r) \/ ObserveCancel(r)
      BY <2>2, ServiceAnswer DEF RequestTimeout, ObserveCancel, Settle, Outcomes, Transporting
    <2> QED BY <1>4, <2>1, <2>2 DEF Timer
  <1>5. ASSUME NEW r \in Requests, Transport(r) PROVE Answers \/ UNCHANGED Service!vars
    <2>1. ASSUME NEW b \in BOOLEAN, TransportSucceeds(r, b) PROVE Answers
      BY <2>1, ServiceAnswer DEF TransportSucceeds, Settle, Outcomes, Transporting
    <2>2. ASSUME NEW b \in BOOLEAN, TransportFails(r, b) PROVE Answers
      BY <2>2, ServiceAnswer DEF TransportFails, Settle, Outcomes, Transporting
    <2>3. CASE Retry(r) \/ BackoffElapses(r)
      BY <2>3, ServiceStutter DEF Retry, BackoffElapses, PCs, Holding, Transporting
    <2> QED BY <1>5, <2>1, <2>2, <2>3 DEF Transport
  <1>6. CASE UNCHANGED vars
    BY <1>6 DEF vars, Service!vars, At, IsCancelled
  <1>7. Answers => Service!Next
    BY DEF Service!Next
  <1> QED BY <1>1, <1>2, <1>3, <1>4, <1>5, <1>6, <1>7 DEF Next

(* The scheduler implements the bounded service: at most MaxConcurrency    *)
(* requests are worked on, each is answered once, never with data after    *)
(* its cancellation, and "cancelled" only to those that were cancelled.    *)
THEOREM Refinement == Spec => ImplementsService
<1>1. Init => Service!Init /\ DecidedLate
  BY NoneAssumption DEF Init, Service!Init, DecidedLate, At, Transporting, IsCancelled
<1> QED BY <1>1, InitInv, NextInv, NextDecidedLate, ServiceStep, PTL
        DEF Spec, ImplementsService, Service!Spec
-----------------------------------------------------------------------------
(* The token's variables keep their types, and no future is ahead of the   *)
(* notifications (CancellationToken::cancelled).                           *)
THEOREM TokenTyping == Token!Spec => []Token!TypeOK
  <1>1. Token!Init => Token!TypeOK
    <2> SUFFICES ASSUME Token!Init PROVE Token!TypeOK
      OBVIOUS
    <2>1. flag \in BOOLEAN
      BY DEF Token!Init
    <2>2. seen \in [Waiters -> Nat] /\ \A w \in Waiters : seen[w] <= epoch
      BY DEF Token!Init
    <2> QED BY <2>1, <2>2 DEF Token!Init, Token!TypeOK
  <1>2. Token!TypeOK /\ [Token!Next]_(Token!vars) => Token!TypeOK'
    <2> SUFFICES ASSUME Token!TypeOK, [Token!Next]_(Token!vars) PROVE Token!TypeOK'
      OBVIOUS
    <2> USE DEF Token!TypeOK
    <2>1. ASSUME NEW c \in Cancellers, Token!StoreFlag(c) PROVE Token!TypeOK'
      BY <2>1 DEF Token!StoreFlag
    <2>2. ASSUME NEW c \in Cancellers, Token!NotifyWaiters(c) PROVE Token!TypeOK'
      BY <2>2 DEF Token!NotifyWaiters
    <2>3. ASSUME NEW w \in Waiters, Token!Register(w) PROVE Token!TypeOK'
      BY <2>3 DEF Token!Register
    <2>4. ASSUME NEW w \in Waiters, Token!CheckFlag(w) PROVE Token!TypeOK'
      BY <2>4 DEF Token!CheckFlag
    <2>5. ASSUME NEW w \in Waiters, Token!Wake(w) PROVE Token!TypeOK'
      BY <2>5 DEF Token!Wake
    <2>6. CASE UNCHANGED Token!vars
      BY <2>6 DEF Token!vars
    <2> QED BY <2>1, <2>2, <2>3, <2>4, <2>5, <2>6 DEF Token!Next, Token!WaiterStep
  <1> QED BY <1>1, <1>2, PTL DEF Token!Spec

(* No interleaving of cancel() and cancelled() leaves a task asleep on a   *)
(* cancelled token with no notification on its way to it.                  *)
THEOREM WakeupIsNeverLost == Token!Spec => []NoLostWakeup
  <1> USE DEF NoLostWakeup
  <1>1. Token!Init => NoLostWakeup
    BY DEF Token!Init, Token!NoLostWakeup
  <1>2. Token!TypeOK /\ NoLostWakeup /\ [Token!Next]_(Token!vars) => NoLostWakeup'
    <2> SUFFICES ASSUME Token!TypeOK, NoLostWakeup, [Token!Next]_(Token!vars)
                 PROVE  NoLostWakeup'
      OBVIOUS
    <2> USE DEF Token!TypeOK, Token!NoLostWakeup
    <2>1. ASSUME NEW c \in Cancellers, Token!StoreFlag(c) PROVE NoLostWakeup'
      BY <2>1 DEF Token!StoreFlag
    <2>2. ASSUME NEW c \in Cancellers, Token!NotifyWaiters(c) PROVE NoLostWakeup'
      <3>1. \A w \in Waiters : seen'[w] # epoch'
        BY <2>2 DEF Token!NotifyWaiters
      <3> QED BY <3>1
    <2>3. ASSUME NEW w \in Waiters, Token!Register(w) PROVE NoLostWakeup'
      BY <2>3 DEF Token!Register
    <2>4. ASSUME NEW w \in Waiters, Token!CheckFlag(w) PROVE NoLostWakeup'
      BY <2>4 DEF Token!CheckFlag
    <2>5. ASSUME NEW w \in Waiters, Token!Wake(w) PROVE NoLostWakeup'
      BY <2>5 DEF Token!Wake
    <2>6. CASE UNCHANGED Token!vars
      BY <2>6 DEF Token!vars
    <2> QED BY <2>1, <2>2, <2>3, <2>4, <2>5, <2>6 DEF Token!Next, Token!WaiterStep
  <1> QED BY <1>1, <1>2, TokenTyping, PTL DEF Token!Spec
=============================================================================
