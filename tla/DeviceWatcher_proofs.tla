------------------------- MODULE DeviceWatcher_proofs -------------------------
(***************************************************************************)
(* Proofs about DeviceWatcher for any services, any backoff and any number *)
(* of retries.  The three promises about the entries need each other and   *)
(* one more fact: only a service that is recovering is ever restarted.     *)
(***************************************************************************)
EXTENDS DeviceWatcher, TLAPS

\* A service counts as healthy again only with its attempts and its backoff
\* back at the start.
HealthyIsFresh ==
  \A s \in Services : state[s] = "healthy" => retries[s] = 0 /\ since[s] = MaxBackoff

\* Only a service that was found broken is being restarted.
RestartsTheBroken == pc = "restarting" => state[Order[turn]] = "recovering"

IInv == TypeOK /\ RetriesBounded /\ GivesUpLate /\ HealthyIsFresh /\ RestartsTheBroken

\* The thread always points at an entry.
LEMMA EntryType ==
  ASSUME TypeOK
  PROVE  Len(Order) \in Nat /\ turn \in 1 .. Len(Order) /\ Order[turn] \in Services
  <1>1. Order \in Seq(Services) /\ turn \in 1 .. Len(Order)
    BY OrderAssumption DEF TypeOK
  <1>2. QED
    BY <1>1

\* Going on to the next entry keeps the thread within the list.
LEMMA NextEntryType ==
  ASSUME TypeOK, NextEntry
  PROVE  pc' \in {"poll", "waiting"} /\ turn' \in 1 .. Len(Order)
  <1>1. Len(Order) \in Nat /\ turn \in 1 .. Len(Order)
    BY EntryType
  <1>2. QED
    BY <1>1 DEF NextEntry

\* The invariant holds initially.
LEMMA InitIInv == Init => IInv
  <1> SUFFICES ASSUME Init PROVE IInv
    OBVIOUS
  <1>1. TypeOK
    <2>1. 1 \in 1 .. Len(Order)
      <3>1. Order \in Seq(Services) /\ Len(Order) > 0
        BY OrderAssumption
      <3>2. QED
        BY <3>1
    <2>2. MaxBackoff \in 0 .. MaxBackoff /\ 0 \in 0 .. RetryBound
      BY NumberAssumption
    <2>3. QED
      BY <2>1, <2>2 DEF Init, WatcherInit, TypeOK, States, Threads
  <1>2. RetriesBounded /\ GivesUpLate /\ HealthyIsFresh /\ RestartsTheBroken
    BY NumberAssumption
       DEF Init, WatcherInit, RetriesBounded, GivesUpLate, HealthyIsFresh,
           RestartsTheBroken
  <1>3. QED
    BY <1>1, <1>2 DEF IInv

\* The entry of s as a check that finds it healthy leaves it.
Refreshed(s) ==
  /\ state' = [state EXCEPT ![s] = "healthy"]
  /\ retries' = [retries EXCEPT ![s] = 0]
  /\ since' = [since EXCEPT ![s] = MaxBackoff]
  /\ ever' = [ever EXCEPT ![s] = TRUE]

\* The healthy path preserves the invariant.
LEMMA RecoveredKeepsIInv ==
  ASSUME IInv, NEW s \in Services, s = Order[turn], Recovered(s),
         UNCHANGED <<rested, stopVars, healthy>>
  PROVE  IInv'
  <1> USE DEF IInv
  <1>1. Refreshed(s)
    BY DEF Recovered, Refreshed, TypeOK, HealthyIsFresh
  <1>2. TypeOK'
    <2>1. registry' \in [Services -> {"up", "down"}]
      BY DEF Recovered, TypeOK
    <2>2. pc' \in Threads /\ turn' \in 1 .. Len(Order)
      BY NextEntryType DEF Recovered, Threads
    <2>3. 0 \in 0 .. RetryBound /\ MaxBackoff \in 0 .. MaxBackoff
      BY NumberAssumption
    <2>4. QED
      BY <1>1, <2>1, <2>2, <2>3 DEF Refreshed, TypeOK, States, stopVars
  <1>3. RetriesBounded' /\ GivesUpLate' /\ HealthyIsFresh'
    BY <1>1, NumberAssumption
       DEF Refreshed, TypeOK, RetriesBounded, GivesUpLate, HealthyIsFresh
  <1>4. RestartsTheBroken'
    BY NextEntryType DEF Recovered, RestartsTheBroken
  <1>5. QED
    BY <1>2, <1>3, <1>4

\* The unhealthy path preserves the invariant.
LEMMA UnhealthyKeepsIInv ==
  ASSUME IInv, NEW s \in Services, s = Order[turn], Unhealthy(s),
         UNCHANGED <<rested, stopVars, healthy>>
  PROVE  IInv'
  <1> USE DEF IInv
  <1>1. CASE state[s] = "failed" /\ NextEntry /\ UNCHANGED <<state, retries, since, registry>>
    <2>1. TypeOK'
      BY <1>1, NextEntryType DEF Unhealthy, TypeOK, Threads, stopVars
    <2>2. QED
      BY <1>1, <2>1, NextEntryType
         DEF Unhealthy, RetriesBounded, GivesUpLate, HealthyIsFresh, RestartsTheBroken
  <1>2. ASSUME NoteFailure(s), state[s] # "failed"
        PROVE  /\ state' = [state EXCEPT ![s] = "recovering"]
               /\ since' \in [Services -> 0 .. MaxBackoff]
               /\ \A t \in Services : t # s => since'[t] = since[t]
               /\ registry' \in [Services -> {"up", "down"}]
    <2>1. CASE state[s] = "healthy"
      <3>1. 0 \in 0 .. MaxBackoff
        BY NumberAssumption
      <3>2. /\ state' = [state EXCEPT ![s] = "recovering"]
            /\ since' = [since EXCEPT ![s] = 0]
            /\ registry' = [registry EXCEPT ![s] = "down"]
        BY <1>2, <2>1 DEF NoteFailure
      <3>3. since' \in [Services -> 0 .. MaxBackoff] /\ registry' \in [Services -> {"up", "down"}]
        BY <3>1, <3>2 DEF TypeOK
      <3>4. \A t \in Services : t # s => since'[t] = since[t]
        BY <3>2 DEF TypeOK
      <3>5. QED
        BY <3>2, <3>3, <3>4
    <2>2. CASE state[s] # "healthy"
      <3>1. state[s] = "recovering"
        BY <1>2, <2>2 DEF TypeOK, States
      <3>2. state = [state EXCEPT ![s] = "recovering"]
        BY <3>1 DEF TypeOK
      <3>3. QED
        BY <1>2, <2>2, <3>2 DEF NoteFailure, TypeOK
    <2>3. QED
      BY <2>1, <2>2
  <1>3. CASE /\ state[s] # "failed" /\ NoteFailure(s) /\ UNCHANGED retries
             /\ \/ pc' = "crashed" /\ UNCHANGED turn
                \/ NextEntry
    <2>1. TypeOK'
      <3>1. pc' \in Threads /\ turn' \in 1 .. Len(Order)
        BY <1>3, NextEntryType DEF TypeOK, Threads
      <3>2. QED
        BY <1>2, <1>3, <3>1 DEF Unhealthy, TypeOK, States, stopVars
    <2>2. pc' # "restarting"
      BY <1>3, NextEntryType
    <2>3. UNCHANGED <<retries, ever>> /\ state' = [state EXCEPT ![s] = "recovering"]
      BY <1>2, <1>3 DEF Unhealthy
    <2>4. RetriesBounded' /\ GivesUpLate'
      BY <2>3 DEF TypeOK, RetriesBounded, GivesUpLate
    <2>5. HealthyIsFresh'
      BY <1>2, <1>3, <2>3 DEF TypeOK, HealthyIsFresh
    <2>6. RestartsTheBroken'
      BY <2>2 DEF RestartsTheBroken
    <2>7. QED
      BY <2>1, <2>4, <2>5, <2>6
  <1>4. CASE /\ GivesUp(s) /\ NextEntry /\ UNCHANGED retries
             /\ state' = [state EXCEPT ![s] = "failed"]
             /\ since' = IF state[s] = "healthy" THEN [since EXCEPT ![s] = 0] ELSE since
             /\ registry' = [registry EXCEPT ![s] = "down"]
    <2>1. TypeOK'
      <3>1. pc' \in Threads /\ turn' \in 1 .. Len(Order)
        BY <1>4, NextEntryType DEF Threads
      <3>2. since' \in [Services -> 0 .. MaxBackoff]
        BY <1>4, NumberAssumption DEF TypeOK
      <3>3. QED
        BY <1>4, <3>1, <3>2 DEF Unhealthy, TypeOK, States, stopVars
    <2>2. RetriesBounded' /\ GivesUpLate' /\ HealthyIsFresh'
      BY <1>4 DEF Unhealthy, GivesUp, TypeOK, RetriesBounded, GivesUpLate, HealthyIsFresh
    <2>3. RestartsTheBroken'
      BY <1>4, NextEntryType DEF RestartsTheBroken
    <2>4. QED
      BY <2>1, <2>2, <2>3
  <1>5. CASE /\ state[s] # "failed" /\ ~GivesUp(s) /\ NoteFailure(s)
             /\ retries' = [retries EXCEPT ![s] = IF @ < RetryBound THEN @ + 1 ELSE @]
             /\ pc' = "restarting" /\ UNCHANGED turn
    <2>1. TypeOK'
      <3>1. retries' \in [Services -> 0 .. RetryBound]
        BY <1>5, NumberAssumption DEF TypeOK
      <3>2. QED
        BY <1>2, <1>5, <3>1 DEF Unhealthy, TypeOK, States, Threads, stopVars
    <2>2. RetriesBounded'
      BY <1>5, NumberAssumption DEF Unhealthy, GivesUp, TypeOK, RetriesBounded
    <2>3. GivesUpLate' /\ HealthyIsFresh'
      <3>1. state' = [state EXCEPT ![s] = "recovering"] /\ UNCHANGED ever
        BY <1>2, <1>5 DEF Unhealthy
      <3>2. \A t \in Services : t # s => retries'[t] = retries[t] /\ since'[t] = since[t]
        BY <1>2, <1>5 DEF TypeOK
      <3>3. QED
        BY <3>1, <3>2 DEF TypeOK, GivesUpLate, HealthyIsFresh
    <2>4. RestartsTheBroken'
      BY <1>2, <1>5 DEF TypeOK, RestartsTheBroken
    <2>5. QED
      BY <2>1, <2>2, <2>3, <2>4
  <1> HIDE DEF IInv
  <1>6. state[s] = "failed" => NextEntry /\ UNCHANGED <<state, retries, since, registry>>
    BY DEF Unhealthy
  <1>7. state[s] # "failed" /\ (Overflows(s) \/ TooEarly(s))
          => NoteFailure(s) /\ UNCHANGED retries /\ ((pc' = "crashed" /\ UNCHANGED turn) \/ NextEntry)
    BY DEF Unhealthy
  <1>8. state[s] # "failed" /\ ~(Overflows(s) \/ TooEarly(s)) /\ GivesUp(s)
          => /\ NextEntry /\ UNCHANGED retries
             /\ state' = [state EXCEPT ![s] = "failed"]
             /\ since' = IF state[s] = "healthy" THEN [since EXCEPT ![s] = 0] ELSE since
             /\ registry' = [registry EXCEPT ![s] = "down"]
    BY DEF Unhealthy
  <1>9. state[s] # "failed" /\ ~(Overflows(s) \/ TooEarly(s)) /\ ~GivesUp(s)
          => /\ NoteFailure(s) /\ pc' = "restarting" /\ UNCHANGED turn
             /\ retries' = [retries EXCEPT ![s] = IF @ < RetryBound THEN @ + 1 ELSE @]
    BY DEF Unhealthy
  <1>10. QED
    BY <1>1, <1>3, <1>4, <1>5, <1>6, <1>7, <1>8, <1>9

\* A restart that ends preserves the invariant.
LEMMA RestartedKeepsIInv ==
  ASSUME IInv, NEW s \in Services, RestartEnds(s)
  PROVE  IInv'
  <1> USE DEF IInv
  <1>1. PICK reg \in {"up", "down"} : Restarted(s, reg)
    BY DEF RestartEnds
  <1>2. TypeOK'
    <2>1. pc' \in Threads /\ turn' \in 1 .. Len(Order)
      BY <1>1, NextEntryType DEF Restarted, Threads
    <2>2. healthy' \in [Services -> BOOLEAN]
      BY DEF RestartEnds, TypeOK
    <2>3. 0 \in 0 .. MaxBackoff
      BY NumberAssumption
    <2>4. QED
      BY <1>1, <2>1, <2>2, <2>3 DEF Restarted, TypeOK, stopVars
  <1>3. state[s] = "recovering"
    BY <1>1 DEF Restarted, RestartsTheBroken
  <1>4. RetriesBounded' /\ GivesUpLate' /\ HealthyIsFresh'
    BY <1>1, <1>3 DEF Restarted, TypeOK, RetriesBounded, GivesUpLate, HealthyIsFresh
  <1>5. RestartsTheBroken'
    BY <1>1, NextEntryType DEF Restarted, RestartsTheBroken
  <1>6. QED
    BY <1>2, <1>4, <1>5

\* Time passing preserves the invariant.
LEMMA TickKeepsIInv ==
  ASSUME IInv, Tick, UNCHANGED healthy
  PROVE  IInv'
  <1> USE DEF IInv
  <1>1. \A t \in 0 .. MaxBackoff : Later(t) \in 0 .. MaxBackoff
    BY NumberAssumption DEF Later
  <1>2. Later(MaxBackoff) = MaxBackoff
    BY NumberAssumption DEF Later
  <1>3. TypeOK'
    BY <1>1 DEF Tick, TypeOK, threadVars, stopVars
  <1>4. QED
    BY <1>2, <1>3
       DEF Tick, threadVars, RetriesBounded, GivesUpLate, HealthyIsFresh, RestartsTheBroken

\* The invariant is inductive, so it holds in every reachable state.
LEMMA Invariance == Spec => []IInv
  <1>1. IInv /\ [Next]_vars => IInv'
    <2> SUFFICES ASSUME IInv, [Next]_vars PROVE IInv'
      OBVIOUS
    <2> USE DEF IInv
    <2>1. CASE PollStep
      <3>1. CASE Check
        <4>1. Order[turn] \in Services
          BY EntryType
        <4>2. QED
          BY <2>1, <3>1, <4>1, RecoveredKeepsIInv, UnhealthyKeepsIInv DEF PollStep, Check
      <3>2. CASE Wake \/ Admit
        <4>1. TypeOK' /\ pc' # "restarting"
          BY <2>1, <3>2 DEF PollStep, Wake, Admit, TypeOK, Threads, entryVars, stopVars
        <4>2. QED
          BY <2>1, <3>2, <4>1
             DEF PollStep, Wake, Admit, entryVars, RetriesBounded, GivesUpLate,
                 HealthyIsFresh, RestartsTheBroken
      <3>3. QED
        BY <2>1, <3>1, <3>2 DEF PollStep
    <2>2. ASSUME NEW s \in Services, HealthChanges(s) PROVE IInv'
      BY <2>2 DEF HealthChanges, watcherVars, TypeOK, RetriesBounded, GivesUpLate,
                  HealthyIsFresh, RestartsTheBroken
    <2>3. CASE (Stop \/ Joined) /\ UNCHANGED healthy
      BY <2>3 DEF Stop, Joined, entryVars, threadVars, TypeOK, RetriesBounded,
                  GivesUpLate, HealthyIsFresh, RestartsTheBroken
    <2>4. CASE UNCHANGED vars
      BY <2>4 DEF vars, watcherVars, TypeOK, RetriesBounded, GivesUpLate,
                  HealthyIsFresh, RestartsTheBroken
    <2>5. QED
      BY <2>1, <2>2, <2>3, <2>4, RestartedKeepsIInv, TickKeepsIInv DEF Next, Over
  <1>2. QED
    BY InitIInv, <1>1, PTL DEF Spec

-----------------------------------------------------------------------------

\* Every variable keeps its type, whatever the services do.
THEOREM TypeCorrect == Spec => []TypeOK
  BY Invariance, PTL DEF IInv

\* A service that was healthy once is never restarted more than MaxRetries
\* times in a row.
THEOREM BoundedRetries == Spec => []RetriesBounded
  BY Invariance, PTL DEF IInv

\* The watcher never gives up on a service that has not been healthy yet, nor
\* before the attempts are used.
THEOREM NeverGivesUpEarly == Spec => []GivesUpLate
  BY Invariance, PTL DEF IInv

\* A service that counts as healthy starts its next recovery from scratch.
THEOREM RecoveryStartsFresh == Spec => []HealthyIsFresh
  BY Invariance, PTL DEF IInv

-----------------------------------------------------------------------------

(* The end of the thread needs an invariant of its own: a stop() that has begun
   has set the event first.                                                   *)
StopInv == (stopper # "none" => stopEvent) /\ NoCheckAfterStop

\* Once stop() has returned, the poll thread checks no service any more.
THEOREM StopIsFinal == Spec => []NoCheckAfterStop
  <1>1. Init => StopInv
    BY DEF Init, WatcherInit, StopInv, NoCheckAfterStop
  <1>2. StopInv /\ [Next]_vars => StopInv'
    <2> SUFFICES ASSUME StopInv, [Next]_vars PROVE StopInv'
      OBVIOUS
    <2> USE DEF StopInv, NoCheckAfterStop
    <2>1. CASE Wake \/ Admit
      BY <2>1 DEF Wake, Admit, stopVars
    <2>2. CASE Check
      BY <2>2 DEF Check, stopVars
    <2>3. ASSUME NEW s \in Services, RestartEnds(s) PROVE StopInv'
      BY <2>3 DEF RestartEnds, Restarted, NextEntry, stopVars
    <2>4. CASE Stop \/ Joined \/ Tick
      BY <2>4 DEF Stop, Joined, Tick, threadVars, stopVars
    <2>5. ASSUME NEW s \in Services, HealthChanges(s) PROVE StopInv'
      BY <2>5 DEF HealthChanges, watcherVars
    <2>6. CASE UNCHANGED vars
      BY <2>6 DEF vars, watcherVars
    <2>7. QED
      BY <2>1, <2>2, <2>3, <2>4, <2>5, <2>6 DEF Next, PollStep, Over
  <1>3. QED
    BY <1>1, <1>2, PTL DEF Spec, StopInv

-----------------------------------------------------------------------------

(* The seconds since the last failure never run ahead of those since the last
   restart, once there has been one; so a backoff that has passed since the one
   has passed since the other.  A service that is being recovered has had one.  *)
Spaced ==
  \A s \in Services :
    /\ state[s] = "recovering" => retries[s] > 0
    /\ retries[s] > 0 => since[s] <= rested[s]

\* A backoff is a number of seconds.
LEMMA BackoffType ==
  ASSUME TypeOK, NEW s \in Services
  PROVE  Backoff(s) \in Int
  <1>1. CASE retries[s] = 0
    BY <1>1 DEF Backoff
  <1>2. CASE retries[s] # 0
    <2> DEFINE n == Capped(retries[s]) - 1
    <2>1. n \in Nat /\ BaseBackoff \in Int /\ MaxBackoff \in Int
      BY <1>2, NumberAssumption DEF Capped, TypeOK
    <2> HIDE DEF n
    <2>2. 2 ^ n \in Int
      BY <2>1, Z3
    <2>3. BaseBackoff * 2 ^ n \in Int
      BY <2>1, <2>2
    <2>4. Capped(BaseBackoff * 2 ^ n) \in Int
      BY <2>1, <2>3 DEF Capped
    <2>5. QED
      BY <1>2, <2>4 DEF Backoff, n
  <1>3. QED
    BY <1>1, <1>2

\* Before the first attempt there is no backoff, nothing to give up, and no
\* overflow, so the attempt is made at once.
LEMMA FirstAttemptIsImmediate ==
  ASSUME TypeOK, NEW s \in Services, retries[s] = 0, Unhealthy(s), state[s] = "healthy"
  PROVE  /\ retries' = [retries EXCEPT ![s] = 1]
         /\ state' = [state EXCEPT ![s] = "recovering"]
         /\ since' = [since EXCEPT ![s] = 0]
  <1>1. ~Overflows(s) /\ ~TooEarly(s) /\ ~GivesUp(s)
    BY NumberAssumption DEF Overflows, TooEarly, Backoff, GivesUp
  <1>2. QED
    BY <1>1, NumberAssumption DEF Unhealthy, NoteFailure, TypeOK

\* A check that finds its service healthy leaves nothing to compare.
LEMMA RecoveredClocks ==
  ASSUME IInv, Spaced, Check, Recovered(Order[turn])
  PROVE  Spaced'
  <1> USE DEF IInv, Spaced
  <1>1. Order[turn] \in Services
    BY EntryType
  <1>2. Refreshed(Order[turn]) /\ UNCHANGED rested
    BY <1>1 DEF Check, Recovered, Refreshed, TypeOK, HealthyIsFresh
  <1>3. QED
    BY <1>1, <1>2 DEF Refreshed, TypeOK

\* Only a check that finds its service unhealthy adds to a retry count.
LEMMA AttemptIsCheck ==
  ASSUME IInv, Next, NEW s \in Services, retries'[s] > retries[s]
  PROVE  Check /\ s = Order[turn] /\ Unhealthy(s)
  <1> USE DEF IInv
  <1>1. retries[s] \in Nat /\ ~(retries[s] > retries[s])
    BY NumberAssumption DEF TypeOK
  <1>2. ~UNCHANGED retries
    BY <1>1
  <1>3. Check
    BY <1>2 DEF Next, PollStep, Wake, Admit, RestartEnds, Restarted, HealthChanges, Stop,
                Joined, Tick, Over, vars, watcherVars, entryVars
  <1>4. Order[turn] \in Services
    BY EntryType
  <1>5. ~Recovered(Order[turn])
    <2>1. Recovered(Order[turn]) => \A t \in Services : retries'[t] \in {retries[t], 0}
      BY <1>4 DEF Recovered, TypeOK
    <2>2. QED
      BY <1>1, <2>1
  <1>6. Unhealthy(Order[turn])
    BY <1>3, <1>5 DEF Check
  <1>7. \A t \in Services : t # Order[turn] => retries'[t] = retries[t]
    BY <1>6 DEF Unhealthy, TypeOK
  <1>8. s = Order[turn]
    BY <1>1, <1>7
  <1>9. QED
    BY <1>3, <1>6, <1>8

\* The first failure of a service sets its own clock to zero, and no other.
LEMMA FirstFailureClocks ==
  ASSUME TypeOK, Spaced, NEW s \in Services, UNCHANGED rested,
         retries' = [retries EXCEPT ![s] = 1],
         state' = [state EXCEPT ![s] = "recovering"],
         since' = [since EXCEPT ![s] = 0]
  PROVE  Spaced'
  <1>1. \A t \in Services : rested[t] \in Nat
    BY NumberAssumption DEF TypeOK
  <1>2. retries'[s] = 1 /\ since'[s] = 0
    BY DEF TypeOK
  <1>3. \A t \in Services : t # s => /\ retries'[t] = retries[t] /\ state'[t] = state[t]
                                    /\ since'[t] = since[t]
    BY DEF TypeOK
  <1>4. QED
    BY <1>1, <1>2, <1>3 DEF Spaced

\* A step keeps the two clocks in order.
LEMMA StepKeepsSpaced ==
  ASSUME IInv, Spaced, [Next]_vars
  PROVE  Spaced'
  <1> USE DEF IInv, Spaced
  <1>1. CASE Check
    <2> DEFINE s == Order[turn]
    <2>1. s \in Services
      BY EntryType
    <2>2. CASE Recovered(s)
      BY <1>1, <2>1, <2>2, RecoveredClocks
    <2>3. CASE Unhealthy(s)
      <3>1. CASE state[s] = "healthy"
        <4>1. retries[s] = 0
          BY <2>1, <3>1 DEF HealthyIsFresh
        <4>2. QED
          <5>1. /\ retries' = [retries EXCEPT ![s] = 1]
                /\ state' = [state EXCEPT ![s] = "recovering"]
                /\ since' = [since EXCEPT ![s] = 0]
            BY <2>1, <2>3, <3>1, <4>1, FirstAttemptIsImmediate
          <5>2. UNCHANGED rested
            BY <1>1 DEF Check
          <5>3. TypeOK
            OBVIOUS
          <5> HIDE DEF s, IInv, Spaced
          <5>4. QED
            BY <2>1, <5>1, <5>2, <5>3, FirstFailureClocks
      <3>2. CASE state[s] # "healthy"
        <4>1. UNCHANGED <<since, rested>> /\ retries' \in [Services -> Nat]
          <5>1. UNCHANGED <<since, rested>>
            BY <1>1, <2>3, <3>2 DEF Check, Unhealthy, NoteFailure
          <5>2. retries \in [Services -> Nat] /\ retries[s] + 1 \in Nat
            BY <2>1, NumberAssumption DEF TypeOK
          <5>3. \/ retries' = retries
                \/ retries' = [retries EXCEPT ![s] = IF @ < RetryBound THEN @ + 1 ELSE @]
            BY <2>3 DEF Unhealthy
          <5>4. QED
            BY <5>1, <5>2, <5>3
        <4>2. \A t \in Services : /\ retries'[t] >= retries[t]
                                  /\ t # s => retries'[t] = retries[t]
          <5>1. \/ retries' = retries
                \/ retries' = [retries EXCEPT ![s] = IF @ < RetryBound THEN @ + 1 ELSE @]
            BY <2>3 DEF Unhealthy
          <5>2. \A t \in Services : retries[t] \in Nat
            BY NumberAssumption DEF TypeOK
          <5>3. QED
            BY <2>1, <5>1, <5>2 DEF TypeOK
        <4>3. \A t \in Services : state'[t] = "recovering" => state[t] = "recovering"
          BY <2>1, <2>3, <3>2 DEF Unhealthy, NoteFailure, TypeOK, States
        <4>4. state[s] = "recovering" \/ state[s] = "failed"
          BY <2>1, <3>2 DEF TypeOK, States
        <4>5. retries[s] > 0
          BY <2>1, <4>4, NumberAssumption DEF GivesUpLate, TypeOK
        <4>6. QED
          <5>1. SUFFICES ASSUME NEW t \in Services
                         PROVE  /\ state'[t] = "recovering" => retries'[t] > 0
                                /\ retries'[t] > 0 => since'[t] <= rested'[t]
            BY DEF Spaced
          <5>2. retries[t] \in Nat /\ retries'[t] \in Nat /\ retries'[t] >= retries[t]
            BY <4>1, <4>2, NumberAssumption DEF TypeOK
          <5>3. state'[t] = "recovering" => retries'[t] > 0
            BY <4>3, <5>2 DEF Spaced
          <5>4. retries'[t] > 0 => retries[t] > 0
            BY <4>2, <4>5
          <5>5. QED
            BY <4>1, <5>3, <5>4 DEF Spaced
      <3>3. QED
        BY <3>1, <3>2
    <2>4. QED
      BY <1>1, <2>2, <2>3 DEF Check
  <1>2. ASSUME NEW s \in Services, RestartEnds(s) PROVE Spaced'
    BY <1>2 DEF RestartEnds, Restarted, TypeOK
  <1>3. CASE Tick
    BY <1>3, NumberAssumption DEF Tick, Later, TypeOK
  <1>4. CASE UNCHANGED entryVars
    BY <1>4 DEF entryVars
  <1>5. QED
    BY <1>1, <1>2, <1>3, <1>4
       DEF Next, PollStep, Wake, Admit, Stop, Joined, HealthChanges, Over, vars,
           watcherVars, entryVars

\* Two attempts on the same service are at least the first one's backoff apart.
THEOREM BackoffIsKept == Spec => AttemptsAreSpaced
  <1> DEFINE Act == \A s \in Services :
                      retries'[s] > retries[s] /\ retries[s] > 0 => rested[s] >= Backoff(s)
  <1>1. Init => Spaced
    BY NumberAssumption DEF Init, WatcherInit, Spaced
  <1>2. IInv /\ Spaced /\ [Next]_vars => Spaced'
    BY StepKeepsSpaced
  <1>3. IInv /\ Spaced /\ [Next]_vars => [Act]_vars
    <2> SUFFICES ASSUME IInv, Spaced, Next,
                        NEW s \in Services, retries'[s] > retries[s], retries[s] > 0
                 PROVE  rested[s] >= Backoff(s)
      BY DEF Act
    <2> USE DEF IInv
    <2>1. Check /\ s = Order[turn] /\ Unhealthy(s)
      BY AttemptIsCheck
    <2>2. state[s] # "healthy"
      BY DEF HealthyIsFresh
    <2>3. ~TooEarly(s)
      BY <2>1, <2>2 DEF Unhealthy, TypeOK
    <2>4. since[s] <= rested[s] /\ since[s] \in Int /\ rested[s] \in Int
      BY DEF Spaced, TypeOK
    <2>5. QED
      BY <2>2, <2>3, <2>4, BackoffType DEF TooEarly
  <1>4. QED
    BY Invariance, <1>1, <1>2, <1>3, PTL DEF Spec, AttemptsAreSpaced

=============================================================================
