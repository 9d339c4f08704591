----------------------------- MODULE Server_proofs -----------------------------
(***************************************************************************)
(* Proofs about Server for any settings of the watcher and any number of   *)
(* failing set-ups: its services behave as DeviceWatcher takes services to *)
(* behave, and the sport service, once it has a client, keeps it.          *)
(***************************************************************************)
EXTENDS Server, TLAPS

\* The order of registration is a list of the two services.
LEMMA OrderFacts ==
  /\ Order \in Seq(Services) /\ Len(Order) = 2
  /\ Order[1] = "state" /\ Order[2] = "sport"
  BY DEF Order, Services

\* Health answers for both services.
LEMMA HealthType ==
  ASSUME subscribed \in BOOLEAN, client \in BOOLEAN
  PROVE  Health \in [Services -> BOOLEAN]
  BY DEF Health

\* What DeviceWatcher's type invariant says of the watcher's own variables.
WatcherTypeOK ==
  /\ state \in [Services -> {"healthy", "recovering", "failed"}]
  /\ retries \in [Services -> 0 .. RetryBound]
  /\ ever \in [Services -> BOOLEAN]
  /\ since \in [Services -> 0 .. MaxBackoff]
  /\ rested \in [Services -> 0 .. MaxBackoff]
  /\ registry \in [Services -> {"up", "down"}]
  /\ pc \in {"grace", "waiting", "poll", "checking", "restarting", "ended", "crashed"}
  /\ turn \in 1 .. 2
  /\ stopEvent \in BOOLEAN
  /\ stopper \in {"none", "joining", "returned"}

\* What it says of the services.
BoxTypeOK ==
  /\ link \in BOOLEAN /\ bound \in BOOLEAN /\ subscribed \in BOOLEAN
  /\ lowstate \in BOOLEAN /\ client \in BOOLEAN /\ down \in BOOLEAN
  /\ failures \in 0 .. MaxFailures
  /\ packet \in {"never", "fresh", "stale"}
  /\ phase \in {"serving", "stopped"}

\* The type invariant is the two together.
LEMMA TypesTogether == TypeOK <=> WatcherTypeOK /\ BoxTypeOK
  <1>1. BoxTypeOK => (WatcherTypeOK <=> DW!TypeOK)
    BY OrderFacts, HealthType
       DEF WatcherTypeOK, BoxTypeOK, DW!TypeOK, DW!States, DW!Threads
  <1>2. QED
    BY <1>1 DEF TypeOK, BoxTypeOK

\* The same of the next state.
LEMMA TypesTogetherNext == TypeOK' <=> WatcherTypeOK' /\ BoxTypeOK'
  BY TypesTogether, PTL

-----------------------------------------------------------------------------
(* The watcher's steps.                                                    *)

\* Going on to the next entry keeps the thread within the list, and out of a
\* restart.
LEMMA NextEntryMoves ==
  ASSUME WatcherTypeOK, DW!NextEntry
  PROVE  pc' \in {"poll", "waiting"} /\ turn' \in 1 .. 2
  BY OrderFacts DEF WatcherTypeOK, DW!NextEntry

\* A check is a check of the state service or of the sport service.
LEMMA TurnIsService ==
  ASSUME WatcherTypeOK
  PROVE  Order[turn] \in Services /\ Order[turn] \in {"state", "sport"}
  BY OrderFacts DEF WatcherTypeOK, Services

\* A failure that is noted keeps the types.
LEMMA NoteFailureTypes ==
  ASSUME WatcherTypeOK, NEW s \in Services, DW!NoteFailure(s)
  PROVE  /\ state' \in [Services -> {"healthy", "recovering", "failed"}]
         /\ since' \in [Services -> 0 .. MaxBackoff]
         /\ registry' \in [Services -> {"up", "down"}]
         /\ \A t \in Services : state'[t] = "failed" => state[t] = "failed"
         /\ \A t \in Services : registry'[t] = "up" => registry[t] = "up"
  <1>1. 0 \in 0 .. MaxBackoff
    BY SettingsAssumption
  <1>2. QED
    BY <1>1 DEF WatcherTypeOK, DW!NoteFailure

\* A check finds a service healthy and says so, or finds it unhealthy: then it
\* is not registered as available unless it was, and may be restarted or, if it
\* was healthy once, given up.
LEMMA CheckEffects ==
  ASSUME WatcherTypeOK, DW!Check, NEW s, s = Order[turn]
  PROVE  /\ WatcherTypeOK'
         /\ \A t \in Services \ {s} : /\ state'[t] = state[t] /\ ever'[t] = ever[t]
                                      /\ registry'[t] = registry[t]
         /\ \/ /\ Health[s] /\ pc' # "restarting"
               /\ state'[s] = "healthy" /\ registry'[s] \in {registry[s], "up"}
            \/ /\ ~Health[s] /\ UNCHANGED ever
               /\ registry'[s] = "up" => registry[s] = "up"
               /\ state'[s] = "failed" => state[s] = "failed" \/ ever[s]
               /\ pc' = "restarting" => turn' = turn
  <1>1. s \in Services
    BY TurnIsService
  <1>2. UNCHANGED <<rested, stopEvent, stopper>>
    BY DEF DW!Check, DW!stopVars
  <1>3. 0 \in 0 .. MaxBackoff /\ MaxBackoff \in 0 .. MaxBackoff /\ 0 \in 0 .. RetryBound
    BY SettingsAssumption
  <1>4. CASE DW!Recovered(s)
    <2>1. /\ state' \in [Services -> {"healthy", "recovering", "failed"}]
          /\ retries' \in [Services -> 0 .. RetryBound]
          /\ ever' \in [Services -> BOOLEAN]
          /\ since' \in [Services -> 0 .. MaxBackoff]
          /\ registry' \in [Services -> {"up", "down"}]
      BY <1>1, <1>3, <1>4 DEF WatcherTypeOK, DW!Recovered
    <2>2. pc' \in {"poll", "waiting"} /\ turn' \in 1 .. 2
      BY <1>4, NextEntryMoves DEF DW!Recovered
    <2>3. WatcherTypeOK'
      BY <1>2, <2>1, <2>2 DEF WatcherTypeOK
    <2>4. /\ \A t \in Services \ {s} : /\ state'[t] = state[t] /\ ever'[t] = ever[t]
                                       /\ registry'[t] = registry[t]
          /\ Health[s] /\ state'[s] = "healthy" /\ registry'[s] \in {registry[s], "up"}
      BY <1>1, <1>4 DEF WatcherTypeOK, DW!Recovered
    <2>5. QED
      BY <2>2, <2>3, <2>4
  <1>5. CASE DW!Unhealthy(s)
    <2>1. retries' \in [Services -> 0 .. RetryBound]
      <3>1. \A n \in 0 .. RetryBound : (IF n < RetryBound THEN n + 1 ELSE n) \in 0 .. RetryBound
        BY SettingsAssumption
      <3>2. CASE UNCHANGED retries
        BY <3>2 DEF WatcherTypeOK
      <3>3. CASE retries' = [retries EXCEPT ![s] = IF @ < RetryBound THEN @ + 1 ELSE @]
        BY <1>1, <3>1, <3>3 DEF WatcherTypeOK
      <3>4. QED
        BY <1>5, <3>2, <3>3 DEF DW!Unhealthy
    <2>2. /\ ~Health[s] /\ UNCHANGED ever
          /\ \/ DW!NextEntry
             \/ pc' \in {"crashed", "restarting"} /\ turn' = turn
      BY <1>5 DEF DW!Unhealthy
    <2>3. pc' \in {"poll", "waiting", "crashed", "restarting"} /\ turn' \in 1 .. 2
          /\ (pc' = "restarting" => turn' = turn)
      BY <2>2, NextEntryMoves DEF WatcherTypeOK
    <2>4. /\ state' \in [Services -> {"healthy", "recovering", "failed"}]
          /\ since' \in [Services -> 0 .. MaxBackoff]
          /\ registry' \in [Services -> {"up", "down"}]
          /\ \A t \in Services \ {s} : state'[t] = state[t] /\ registry'[t] = registry[t]
          /\ registry'[s] = "up" => registry[s] = "up"
          /\ state'[s] = "failed" => state[s] = "failed" \/ ever[s]
      <3>1. CASE DW!NoteFailure(s)
        <4>1. \A t \in Services \ {s} : state'[t] = state[t] /\ registry'[t] = registry[t]
          BY <1>1, <3>1 DEF WatcherTypeOK, DW!NoteFailure
        <4>2. QED
          BY <1>1, <3>1, <4>1, NoteFailureTypes
      <3>2. CASE UNCHANGED <<state, since, registry>>
        BY <3>2 DEF WatcherTypeOK
      <3>3. CASE /\ DW!GivesUp(s) /\ state' = [state EXCEPT ![s] = "failed"]
                 /\ since' = IF state[s] = "healthy" THEN [since EXCEPT ![s] = 0] ELSE since
                 /\ registry' = [registry EXCEPT ![s] = "down"]
        <4>1. ever[s]
          BY <3>3 DEF DW!GivesUp
        <4>2. QED
          BY <1>1, <1>3, <3>3, <4>1 DEF WatcherTypeOK
      <3>4. QED
        BY <1>5, <3>1, <3>2, <3>3 DEF DW!Unhealthy
    <2>5. WatcherTypeOK'
      BY <1>2, <2>1, <2>2, <2>3, <2>4 DEF WatcherTypeOK
    <2>6. QED
      BY <2>2, <2>3, <2>4, <2>5
  <1>6. QED
    BY <1>4, <1>5 DEF DW!Check

\* A restart that ends registers its service and lets the thread go on.
LEMMA RestartedEffects ==
  ASSUME WatcherTypeOK, NEW s \in Services, NEW reg \in {"up", "down"},
         DW!Restarted(s, reg)
  PROVE  /\ WatcherTypeOK' /\ pc' # "restarting"
         /\ registry' = [registry EXCEPT ![s] = reg] /\ UNCHANGED <<state, ever>>
  <1>1. pc' \in {"poll", "waiting"} /\ turn' \in 1 .. 2
    BY NextEntryMoves DEF DW!Restarted
  <1>2. 0 \in 0 .. MaxBackoff
    BY SettingsAssumption
  <1>3. QED
    BY <1>1, <1>2 DEF WatcherTypeOK, DW!Restarted, DW!stopVars

\* The other steps of the watcher keep the types and leave the entries alone.
LEMMA QuietEffects ==
  ASSUME WatcherTypeOK, DW!Wake \/ DW!Admit \/ DW!Stop \/ DW!Joined \/ DW!Tick
  PROVE  /\ WatcherTypeOK' /\ UNCHANGED <<state, ever, registry, turn>>
         /\ pc' = "restarting" => pc = "restarting"
  <1>1. CASE DW!Wake \/ DW!Admit \/ DW!Stop \/ DW!Joined
    BY <1>1 DEF WatcherTypeOK, DW!Wake, DW!Admit, DW!Stop, DW!Joined,
                DW!entryVars, DW!stopVars, DW!threadVars
  <1>2. CASE DW!Tick
    <2>1. \A t \in 0 .. MaxBackoff : DW!Later(t) \in 0 .. MaxBackoff
      BY SettingsAssumption DEF DW!Later
    <2>2. QED
      BY <1>2, <2>1 DEF WatcherTypeOK, DW!Tick, DW!stopVars, DW!threadVars
  <1>3. QED
    BY <1>1, <1>2

-----------------------------------------------------------------------------
(* The sport service and its client.  A client that was made is never      *)
(* dropped, because only an unhealthy service is restarted, and health is  *)
(* having a client.                                                        *)

EverHasClient == ever["sport"] => client

ResetHasNone == RestartAt("sport") => ~client

ServerInv == TypeOK /\ SportIsThere /\ SportIsNeverGivenUp /\ EverHasClient /\ ResetHasNone

\* The invariant holds initially.
LEMMA InitServerInv == Init => ServerInv
  <1> SUFFICES ASSUME Init PROVE ServerInv
    OBVIOUS
  <1> USE DEF Init, DW!WatcherInit
  <1>1. BoxTypeOK
    BY DEF BoxTypeOK
  <1>2. MaxBackoff \in 0 .. MaxBackoff /\ 0 \in 0 .. RetryBound
    BY SettingsAssumption
  <1>3. ever \in [Services -> BOOLEAN] /\ ever["sport"] = client
    BY HealthType DEF Health, Services
  <1>4. WatcherTypeOK
    <2>1. /\ registry \in [Services -> {"up", "down"}]
          /\ state \in [Services -> {"healthy", "recovering", "failed"}]
      OBVIOUS
    <2>2. /\ retries \in [Services -> 0 .. RetryBound]
          /\ since \in [Services -> 0 .. MaxBackoff]
          /\ rested \in [Services -> 0 .. MaxBackoff]
      BY <1>2
    <2>3. pc = "grace" /\ turn = 1 /\ stopEvent = FALSE /\ stopper = "none"
      OBVIOUS
    <2> HIDE DEF Init, DW!WatcherInit
    <2>4. turn \in 1 .. 2
      BY <2>3
    <2>5. stopEvent \in BOOLEAN /\ stopper \in {"none", "joining", "returned"}
      BY <2>3
    <2>6. QED
      BY <1>3, <2>1, <2>2, <2>3, <2>4, <2>5 DEF WatcherTypeOK
  <1>5. SportIsThere /\ SportIsNeverGivenUp /\ EverHasClient /\ ResetHasNone
    BY <1>3 DEF SportIsThere, SportIsNeverGivenUp, EverHasClient, ResetHasNone, RestartAt, Services
  <1>6. QED
    BY <1>1, <1>4, <1>5, TypesTogether DEF ServerInv

\* The invariant about the client, for a step that only leaves a restart, and
\* takes from the registry and the entries nothing it needs.
LEMMA ClientKeepsServerInv ==
  ASSUME ServerInv, TypeOK', client' = client,
         registry'["sport"] = "up" => registry["sport"] = "up" \/ client,
         state'["sport"] # "failed",
         ever'["sport"] => ever["sport"] \/ client,
         RestartAt("sport")' => RestartAt("sport") \/ ~client
  PROVE  ServerInv'
  BY DEF ServerInv, SportIsThere, SportIsNeverGivenUp, EverHasClient, ResetHasNone

\* A step of the watcher's thread that polls preserves the invariant.
LEMMA PollKeepsServerInv ==
  ASSUME ServerInv, Poll
  PROVE  ServerInv'
  <1>1. UNCHANGED <<link, bound, stateVars, client, failures, down, phase>>
    BY DEF Poll, others
  <1>2. WatcherTypeOK /\ BoxTypeOK
    BY TypesTogether DEF ServerInv
  <1>3. BoxTypeOK'
    BY <1>1, <1>2 DEF BoxTypeOK, stateVars
  <1>4. CASE DW!Wake \/ DW!Admit
    <2>1. /\ WatcherTypeOK' /\ UNCHANGED <<state, ever, registry, turn>>
          /\ pc' = "restarting" => pc = "restarting"
      BY <1>2, <1>4, QuietEffects
    <2>2. TypeOK'
      BY <1>3, <2>1, TypesTogetherNext
    <2>3. QED
      BY <1>1, <2>1, <2>2, ClientKeepsServerInv DEF ServerInv, SportIsNeverGivenUp, RestartAt
  <1>5. CASE DW!Check
    <2> DEFINE s == Order[turn]
    <2>1. s \in {"state", "sport"} /\ "sport" \in Services
      BY <1>2, TurnIsService DEF Services
    <2>2. Health["sport"] = client
      BY DEF Health, Services
    <2>3. /\ WatcherTypeOK'
          /\ \A t \in Services \ {s} : /\ state'[t] = state[t] /\ ever'[t] = ever[t]
                                       /\ registry'[t] = registry[t]
          /\ \/ /\ Health[s] /\ pc' # "restarting"
                /\ state'[s] = "healthy" /\ registry'[s] \in {registry[s], "up"}
             \/ /\ ~Health[s] /\ UNCHANGED ever
                /\ registry'[s] = "up" => registry[s] = "up"
                /\ state'[s] = "failed" => state[s] = "failed" \/ ever[s]
                /\ pc' = "restarting" => turn' = turn
      BY <1>2, <1>5, CheckEffects
    <2>4. TypeOK'
      BY <1>3, <2>3, TypesTogetherNext
    <2>5. CASE s = "sport"
      BY <1>1, <2>2, <2>3, <2>4, <2>5, ClientKeepsServerInv
         DEF ServerInv, SportIsNeverGivenUp, EverHasClient, RestartAt
    <2>6. CASE s = "state"
      <3>1. /\ state'["sport"] = state["sport"] /\ ever'["sport"] = ever["sport"]
            /\ registry'["sport"] = registry["sport"]
        BY <2>1, <2>3, <2>6
      <3>2. ~RestartAt("sport")'
        BY <2>3, <2>6 DEF RestartAt, Order
      <3>3. QED
        BY <1>1, <2>4, <3>1, <3>2, ClientKeepsServerInv DEF ServerInv, SportIsNeverGivenUp
    <2>7. QED
      BY <2>1, <2>5, <2>6
  <1>6. QED
    BY <1>4, <1>5 DEF Poll

\* A restart preserves the invariant: it drops the client of a service that has
\* none, and registers what it made.
LEMMA RestartKeepsServerInv ==
  ASSUME ServerInv, Restart
  PROVE  ServerInv' /\ (client => client')
  <1>1. WatcherTypeOK /\ BoxTypeOK
    BY TypesTogether DEF ServerInv
  <1>2. \A n : n = failures + 1 /\ failures < MaxFailures => n \in 0 .. MaxFailures
    BY <1>1, FailureAssumption DEF BoxTypeOK
  <1>3. BoxTypeOK'
    BY <1>1, <1>2
       DEF BoxTypeOK, Restart, SportReset, SportInit, StateStop, StateStart, stateVars,
           Binds, SetupRaises
  <1>4. CASE SportReset \/ StateStop
    <2>1. client' = client /\ UNCHANGED watcherVars
      BY <1>1, <1>4 DEF SportReset, StateStop, ServerInv, ResetHasNone, BoxTypeOK
    <2>2. WatcherTypeOK'
      BY <1>1, <2>1 DEF WatcherTypeOK, watcherVars
    <2>3. QED
      BY <1>3, <2>1, <2>2, TypesTogetherNext
         DEF watcherVars, ServerInv, SportIsThere, SportIsNeverGivenUp, EverHasClient,
             ResetHasNone, RestartAt
  <1>5. ASSUME NEW s \in Services, NEW reg \in {"up", "down"}, DW!Restarted(s, reg),
               client => client', s = "sport" /\ reg = "up" => client'
        PROVE  ServerInv'
    <2>1. /\ WatcherTypeOK' /\ pc' # "restarting"
          /\ registry' = [registry EXCEPT ![s] = reg] /\ UNCHANGED <<state, ever>>
      BY <1>1, <1>5, RestartedEffects
    <2>2. registry'["sport"] = "up" => client'
      <3>1. CASE s = "sport"
        BY <1>1, <1>5, <2>1, <3>1 DEF WatcherTypeOK
      <3>2. CASE s # "sport"
        BY <1>1, <1>5, <2>1, <3>2 DEF WatcherTypeOK, ServerInv, SportIsThere
      <3>3. QED
        BY <3>1, <3>2
    <2>3. TypeOK'
      BY <1>3, <2>1, TypesTogetherNext
    <2>4. QED
      BY <1>5, <2>1, <2>2, <2>3
         DEF ServerInv, SportIsThere, SportIsNeverGivenUp, EverHasClient, ResetHasNone, RestartAt
  <1>6. CASE SportInit
    <2>1. \/ client' = TRUE /\ DW!Restarted("sport", "up")
          \/ client' = client /\ DW!Restarted("sport", "down")
      BY <1>6 DEF SportInit
    <2>2. QED
      BY <1>5, <2>1 DEF Services
  <1>7. CASE StateStart
    <2>1. client' = client /\ \E reg \in {"up", "down"} : DW!Restarted("state", reg)
      BY <1>7 DEF StateStart
    <2>2. QED
      BY <1>5, <2>1 DEF Services
  <1>8. QED
    BY <1>4, <1>6, <1>7, <1>5 DEF Restart

\* The other steps preserve the invariant.
LEMMA OthersKeepServerInv ==
  ASSUME ServerInv,
         \/ LinkChanges \/ OnSport \/ OnLowstate \/ PacketAges \/ ServicesStopped
         \/ Time \/ Shutdown \/ WatcherJoined \/ UNCHANGED vars
  PROVE  ServerInv' /\ client' = client
  <1>1. WatcherTypeOK /\ BoxTypeOK
    BY TypesTogether DEF ServerInv
  <1>2. BoxTypeOK' /\ client' = client
    <2>1. CASE LinkChanges \/ OnSport \/ OnLowstate
      BY <1>1, <2>1 DEF BoxTypeOK, LinkChanges, OnSport, OnLowstate, others, vars, stateVars
    <2>2. CASE PacketAges \/ ServicesStopped
      BY <1>1, <2>2 DEF BoxTypeOK, PacketAges, ServicesStopped, others, vars, stateVars
    <2>3. CASE Time \/ Shutdown \/ WatcherJoined \/ UNCHANGED vars
      BY <1>1, <2>3 DEF BoxTypeOK, Time, Shutdown, WatcherJoined, others, vars, stateVars
    <2>4. QED
      BY <2>1, <2>2, <2>3
  <1>3. /\ WatcherTypeOK' /\ UNCHANGED <<state, ever, registry, turn>>
        /\ pc' = "restarting" => pc = "restarting"
    <2>1. CASE Time \/ Shutdown \/ WatcherJoined
      BY <1>1, <2>1, QuietEffects DEF Time, Shutdown, WatcherJoined
    <2>2. CASE UNCHANGED watcherVars
      BY <1>1, <2>2 DEF WatcherTypeOK, watcherVars
    <2>3. QED
      BY <2>1, <2>2 DEF LinkChanges, OnSport, OnLowstate, PacketAges, ServicesStopped, vars
  <1>4. TypeOK'
    BY <1>2, <1>3, TypesTogetherNext
  <1>5. QED
    BY <1>2, <1>3, <1>4, ClientKeepsServerInv DEF ServerInv, SportIsNeverGivenUp, RestartAt

\* The invariant is inductive, and a client is kept by every step.
LEMMA ServerInvariance ==
  ASSUME ServerInv, [Next]_vars
  PROVE  ServerInv' /\ (client => client')
  <1>1. CASE Poll
    BY <1>1, PollKeepsServerInv DEF Poll, others
  <1>2. CASE Restart
    BY <1>2, RestartKeepsServerInv
  <1>3. CASE ~Poll /\ ~Restart
    BY <1>3, OthersKeepServerInv DEF Next
  <1>4. QED
    BY <1>1, <1>2, <1>3

\* So it holds in every reachable state.
LEMMA ServerSafe == Spec => []ServerInv
  <1>1. ServerInv /\ [Next]_vars => ServerInv'
    BY ServerInvariance
  <1>2. QED
    BY InitServerInv, <1>1, PTL DEF Spec

\* Every variable keeps its type, whatever the robot does and however the set-ups
\* fail.
THEOREM TypeCorrect == Spec => []TypeOK
  BY ServerSafe, PTL DEF ServerInv

\* No command is turned away with 503 by a sport service that is registered as
\* available: it has a client.
THEOREM AvailableMeansClient == Spec => []SportIsThere
  BY ServerSafe, PTL DEF ServerInv

\* The watcher never gives up on the sport service.
THEOREM SportIsAlwaysTried == Spec => []SportIsNeverGivenUp
  BY ServerSafe, PTL DEF ServerInv

\* A sport client that works is never taken away by a restart.
THEOREM RestartsKeepClient == Spec => ClientIsKept
  <1>1. ServerInv /\ [Next]_vars => [client => client']_vars
    BY ServerInvariance
  <1>2. QED
    BY ServerSafe, <1>1, PTL DEF Spec, ClientIsKept

-----------------------------------------------------------------------------
(* The services as DeviceWatcher sees them.                                *)

\* The initial states are initial states of the watcher.
LEMMA InitImplements == Init => DW!Init
  <1> SUFFICES ASSUME Init PROVE DW!Init
    OBVIOUS
  <1>1. DW!WatcherInit /\ subscribed \in BOOLEAN /\ client \in BOOLEAN
    BY DEF Init
  <1>2. registry \in [Services -> {"up", "down"}]
    BY DEF Init
  <1>3. QED
    BY <1>1, <1>2, HealthType DEF DW!Init

\* A service whose health changes by itself is one of the watcher's boxes.
LEMMA HealthOfOne ==
  ASSUME BoxTypeOK, BoxTypeOK', NEW s \in Services,
         \A t \in Services \ {s} : Health'[t] = Health[t], UNCHANGED watcherVars
  PROVE  [DW!Next]_DW!vars
  <1>1. Health \in [Services -> BOOLEAN]
    BY HealthType DEF BoxTypeOK
  <1>2. Health' = [t \in Services |-> Health'[t]]
    BY DEF Health
  <1>3. Health'[s] \in BOOLEAN
    BY DEF Health, BoxTypeOK
  <1>4. CASE Health'[s] = Health[s]
    <2>1. Health' = Health
      BY <1>1, <1>2, <1>4
    <2>2. QED
      BY <2>1 DEF DW!vars, DW!watcherVars, watcherVars
  <1>5. CASE Health'[s] # Health[s]
    <2>1. Health' = [Health EXCEPT ![s] = ~@]
      BY <1>1, <1>2, <1>3, <1>5
    <2>2. DW!HealthChanges(s)
      BY <2>1 DEF DW!HealthChanges, DW!watcherVars, watcherVars
    <2>3. QED
      BY <2>2 DEF DW!Next
  <1>6. QED
    BY <1>4, <1>5

\* A restart that ends gives its service any health, and no other service.
LEMMA RestartOfOne ==
  ASSUME BoxTypeOK, BoxTypeOK', NEW s \in Services, NEW reg \in {"up", "down"},
         DW!Restarted(s, reg), \A t \in Services \ {s} : Health'[t] = Health[t]
  PROVE  DW!Next
  <1>1. Health \in [Services -> BOOLEAN]
    BY HealthType DEF BoxTypeOK
  <1>2. Health' = [t \in Services |-> Health'[t]]
    BY DEF Health
  <1>3. Health'[s] \in BOOLEAN
    BY DEF Health, BoxTypeOK
  <1>4. Health' = [Health EXCEPT ![s] = Health'[s]]
    BY <1>1, <1>2
  <1>5. DW!RestartEnds(s)
    BY <1>3, <1>4 DEF DW!RestartEnds
  <1>6. QED
    BY <1>5 DEF DW!Next

\* Every step of the server is a step of the watcher, or leaves the watcher and
\* the health of its services alone.
LEMMA StepImplements ==
  ASSUME TypeOK, TypeOK', [Next]_vars
  PROVE  [DW!Next]_DW!vars
  <1>1. BoxTypeOK /\ BoxTypeOK'
    BY TypesTogether, TypesTogetherNext
  <1>2. "state" \in Services /\ "sport" \in Services
    BY DEF Services
  <1>3. client' = client => \A t \in Services \ {"state"} : Health'[t] = Health[t]
    BY DEF Health, Services
  <1>4. UNCHANGED <<subscribed, packet>>
          => \A t \in Services \ {"sport"} : Health'[t] = Health[t]
    BY DEF Health, Services
  <1>5. UNCHANGED <<subscribed, packet, client>> => UNCHANGED Health
    BY DEF Health
  <1>6. CASE client' = client /\ UNCHANGED watcherVars
    BY <1>1, <1>2, <1>3, <1>6, HealthOfOne
  <1>7. CASE SportReset
    BY <1>1, <1>2, <1>4, <1>7, HealthOfOne DEF SportReset, stateVars
  <1>8. CASE SportInit
    <2>1. /\ \E reg \in {"up", "down"} : DW!Restarted("sport", reg)
          /\ UNCHANGED <<subscribed, packet>>
      BY <1>8 DEF SportInit, stateVars
    <2>2. QED
      BY <1>1, <1>2, <1>4, <2>1, RestartOfOne
  <1>9. CASE StateStart
    <2>1. /\ \E reg \in {"up", "down"} : DW!Restarted("state", reg)
          /\ client' = client
      BY <1>9 DEF StateStart
    <2>2. QED
      BY <1>1, <1>2, <1>3, <2>1, RestartOfOne
  <1>10. CASE Poll \/ Time \/ Shutdown \/ WatcherJoined
    <2>1. UNCHANGED Health
      BY <1>5, <1>10 DEF Poll, Time, Shutdown, WatcherJoined, others, stateVars
    <2>2. DW!Wake \/ DW!Admit \/ DW!Check \/ DW!Tick \/ DW!Stop \/ DW!Joined
      BY <1>10 DEF Poll, Time, Shutdown, WatcherJoined
    <2>3. QED
      BY <2>1, <2>2 DEF DW!Next, DW!PollStep
  <1>11. QED
    BY <1>6, <1>7, <1>8, <1>9, <1>10
       DEF Next, Restart, LinkChanges, OnSport, OnLowstate, PacketAges, StateStop,
           ServicesStopped, vars

\* The server implements the watcher's specification: with the real services in
\* its boxes the watcher sees nothing it does not see there, so all that is
\* proved of DeviceWatcher for any services holds of these two.
THEOREM ServerImplementsWatcher == Spec => WatcherSpec
  <1>1. TypeOK /\ TypeOK' /\ [Next]_vars => [DW!Next]_DW!vars
    BY StepImplements
  <1>2. QED
    BY TypeCorrect, InitImplements, <1>1, PTL DEF Spec, WatcherSpec, DW!Spec

=============================================================================
