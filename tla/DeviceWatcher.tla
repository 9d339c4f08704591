----------------------------- MODULE DeviceWatcher -----------------------------
(***************************************************************************)
(* The device watcher                                                      *)
(* (src/src/impl/device_watcher/device_watcher_service.py): one thread     *)
(* polls the registered services in turn and restarts the unhealthy ones   *)
(* with exponential backoff, while another thread may stop it.             *)
(*                                                                         *)
(* A service is a box here: its health changes as it likes, and a restart  *)
(* ends with any health and any registration, or raises.  Module Server    *)
(* puts the real services in the boxes.                                    *)
(*                                                                         *)
(* A check of a service is two steps, the look at the stop event and the   *)
(* check itself, because the event may be set between them; a restart is   *)
(* two more, because it blocks.  Time is counted per service, as the       *)
(* seconds since its last failure, and stops counting at MaxBackoff.       *)
(***************************************************************************)
EXTENDS Integers, Sequences, FiniteSets

CONSTANTS
  Services,     \* the registered services
  Order,        \* the order they were registered in
  BaseBackoff, MaxBackoff, MaxRetries,   \* the constructor's arguments
  RetryBound,   \* bound: retry_count is not counted beyond it
  FloatLimit    \* the n for which 2 ** n no longer fits a float: 1024

ASSUME OrderAssumption ==
  /\ Order \in Seq(Services) /\ Len(Order) > 0
  /\ \A s \in Services : \E i \in 1 .. Len(Order) : Order[i] = s
ASSUME NumberAssumption ==
  /\ BaseBackoff \in Nat \ {0} /\ MaxBackoff \in Nat \ {0} /\ MaxRetries \in Nat
  /\ RetryBound \in Nat /\ RetryBound > MaxRetries /\ FloatLimit \in Nat

VARIABLES
  state,        \* WatchEntry.state
  retries,      \* WatchEntry.retry_count
  ever,         \* WatchEntry.ever_healthy
  since,        \* time.time() - WatchEntry.last_failure_time
  rested,       \* history: the seconds since restart() last returned
  registry,     \* service_registry: what each service is registered as
  pc,           \* where the poll thread is
  turn,         \* the entry it has got to, a position in Order
  stopEvent,    \* _stop_event
  stopper,      \* where the caller of stop() is
  healthy       \* what each service's is_healthy() would give now

entryVars == <<state, retries, ever, since, rested>>
threadVars == <<pc, turn>>
stopVars == <<stopEvent, stopper>>
watcherVars == <<state, retries, ever, since, rested, registry, pc, turn, stopEvent, stopper>>
vars == <<watcherVars, healthy>>

States == {"healthy", "recovering", "failed"}
Threads == {"grace", "waiting", "poll", "checking", "restarting", "ended", "crashed"}

\* register() of every service, then start(): ever_healthy is the health at
\* registration, the failure time 0.0 is further back than any backoff.
WatcherInit ==
  /\ state = [s \in Services |-> "healthy"]
  /\ retries = [s \in Services |-> 0]
  /\ ever = healthy
  /\ since = [s \in Services |-> MaxBackoff]
  /\ rested = [s \in Services |-> MaxBackoff]
  /\ pc = "grace"
  /\ turn = 1
  /\ stopEvent = FALSE
  /\ stopper = "none"

Init ==
  /\ healthy \in [Services -> BOOLEAN]
  /\ registry \in [Services -> {"up", "down"}]
  /\ WatcherInit

-----------------------------------------------------------------------------
(* Backoff.                                                                *)

Capped(x) == IF x < MaxBackoff THEN x ELSE MaxBackoff

\* _get_backoff: the base, doubled with every failed attempt up to the maximum.
\* (More than MaxBackoff doublings change nothing, and TLC cannot count them.)
Backoff(s) ==
  IF retries[s] = 0 THEN 0
  ELSE Capped(BaseBackoff * 2 ^ (Capped(retries[s]) - 1))

\* The int 2 ** (n - 1) is multiplied with the float base_backoff: Python
\* raises OverflowError when it has no float.
Overflows(s) == retries[s] > 0 /\ retries[s] - 1 >= FloatLimit

GivesUp_OneMore(s) ==         \* mutant: one attempt too many
  ever[s] /\ 0 < MaxRetries /\ MaxRetries < retries[s]
GivesUp_Always(s) ==          \* mutant: also on a service that never was healthy
  0 < MaxRetries /\ MaxRetries <= retries[s]

\* The attempts are used up; a service that never was healthy has no limit.
GivesUp(s) == ever[s] /\ 0 < MaxRetries /\ MaxRetries <= retries[s]

-----------------------------------------------------------------------------
(* The poll thread.                                                        *)

NextEntry_Past ==             \* mutant: runs off the end of the list
  /\ pc' = "poll" /\ turn' = turn + 1

\* On to the next entry of the snapshot, or to the wait between two polls.
NextEntry ==
  \/ turn < Len(Order) /\ pc' = "poll" /\ turn' = turn + 1
  \/ turn = Len(Order) /\ pc' = "waiting" /\ turn' = 1

Wake_Once ==                  \* mutant: the thread polls only once
  /\ pc \in {"grace", "waiting"}
  /\ pc' = IF pc = "waiting" THEN "ended" ELSE "poll"
  /\ UNCHANGED <<turn, entryVars, registry, stopVars>>

\* The wait is over, because its timeout passed or the event was set.
Wake ==
  /\ pc \in {"grace", "waiting"}
  /\ pc' = IF stopEvent THEN "ended" ELSE "poll"
  /\ UNCHANGED <<turn, entryVars, registry, stopVars>>

Admit_Unchecked ==            \* mutant: the event is only looked at between polls
  /\ pc = "poll"
  /\ pc' = "checking"
  /\ UNCHANGED <<turn, entryVars, registry, stopVars>>

\* The loop looks at the stop event before each entry.
Admit ==
  /\ pc = "poll"
  /\ pc' = IF stopEvent THEN "ended" ELSE "checking"
  /\ UNCHANGED <<turn, entryVars, registry, stopVars>>

\* _check_and_recover, the healthy path.
Recovered(s) ==
  /\ healthy[s]
  /\ \/ state[s] = "healthy" /\ UNCHANGED <<state, retries, since, registry>>
     \/ /\ state[s] # "healthy"
        /\ state' = [state EXCEPT ![s] = "healthy"]
        /\ retries' = [retries EXCEPT ![s] = 0]
        /\ since' = [since EXCEPT ![s] = MaxBackoff]
        /\ registry' = [registry EXCEPT ![s] = "up"]
  /\ ever' = [ever EXCEPT ![s] = TRUE]
  /\ NextEntry

\* What the unhealthy path writes down before it decides: a service found
\* broken is recovering from now on.
NoteFailure(s) ==
  IF state[s] = "healthy"
  THEN /\ state' = [state EXCEPT ![s] = "recovering"]
       /\ since' = [since EXCEPT ![s] = 0]
       /\ registry' = [registry EXCEPT ![s] = "down"]
  ELSE UNCHANGED <<state, since, registry>>

\* The backoff has not passed yet (a failure just noted is zero seconds old).
TooEarly(s) == (IF state[s] = "healthy" THEN 0 ELSE since[s]) < Backoff(s)

\* _check_and_recover, the unhealthy path up to the call of restart().
Unhealthy(s) ==
  /\ ~healthy[s]
  /\ \/ state[s] = "failed" /\ NextEntry /\ UNCHANGED <<state, retries, since, registry>>
     \/ /\ state[s] # "failed" /\ Overflows(s)
        /\ NoteFailure(s) /\ pc' = "crashed" /\ UNCHANGED <<turn, retries>>
     \/ /\ state[s] # "failed" /\ ~Overflows(s) /\ TooEarly(s)
        /\ NoteFailure(s) /\ NextEntry /\ UNCHANGED retries
     \/ /\ state[s] # "failed" /\ ~Overflows(s) /\ ~TooEarly(s) /\ GivesUp(s)
        /\ state' = [state EXCEPT ![s] = "failed"]
        /\ since' = IF state[s] = "healthy" THEN [since EXCEPT ![s] = 0] ELSE since
        /\ registry' = [registry EXCEPT ![s] = "down"]
        /\ NextEntry /\ UNCHANGED retries
     \/ /\ state[s] # "failed" /\ ~Overflows(s) /\ ~TooEarly(s) /\ ~GivesUp(s)
        /\ NoteFailure(s)
        /\ retries' = [retries EXCEPT ![s] = IF @ < RetryBound THEN @ + 1 ELSE @]
        /\ pc' = "restarting" /\ UNCHANGED turn
  /\ UNCHANGED ever

Check_FailedFirst ==          \* mutant: a failed entry is not looked at again
  /\ pc = "checking"
  /\ \/ state[Order[turn]] = "failed" /\ NextEntry /\ UNCHANGED <<entryVars, registry>>
     \/ /\ state[Order[turn]] # "failed"
        /\ Recovered(Order[turn]) \/ Unhealthy(Order[turn])
        /\ UNCHANGED rested
  /\ UNCHANGED stopVars

\* _check_and_recover of the entry that was admitted.
Check ==
  /\ pc = "checking"
  /\ Recovered(Order[turn]) \/ Unhealthy(Order[turn])
  /\ UNCHANGED <<rested, stopVars>>

Restarted_NoStamp(s, reg) ==  \* mutant: last_failure_time is not renewed
  /\ pc = "restarting" /\ s = Order[turn]
  /\ rested' = [rested EXCEPT ![s] = 0]
  /\ registry' = [registry EXCEPT ![s] = reg]
  /\ NextEntry
  /\ UNCHANGED <<state, retries, ever, since, stopVars>>

\* restart() of s returns with s registered as reg, or raises and the watcher
\* registers it as down.
Restarted(s, reg) ==
  /\ pc = "restarting" /\ s = Order[turn]
  /\ since' = [since EXCEPT ![s] = 0]
  /\ rested' = [rested EXCEPT ![s] = 0]
  /\ registry' = [registry EXCEPT ![s] = reg]
  /\ NextEntry
  /\ UNCHANGED <<state, retries, ever, stopVars>>

-----------------------------------------------------------------------------
(* The thread that stops the watcher, and time.                            *)

\* stop(): set the event, then join the thread.
Stop ==
  /\ stopper = "none"
  /\ stopEvent' = TRUE
  /\ stopper' = "joining"
  /\ UNCHANGED <<entryVars, registry, threadVars>>

\* join(timeout=5.0) returns: the thread is over, or it still is in a restart
\* that takes longer than that.
Joined ==
  /\ stopper = "joining"
  /\ pc \in {"ended", "crashed", "restarting"}
  /\ stopper' = "returned"
  /\ UNCHANGED <<entryVars, registry, threadVars, stopEvent>>

Later(t) == IF t < MaxBackoff THEN t + 1 ELSE t

\* A second passes.
Tick ==
  /\ \E s \in Services : since[s] < MaxBackoff \/ rested[s] < MaxBackoff
  /\ since' = [s \in Services |-> Later(since[s])]
  /\ rested' = [s \in Services |-> Later(rested[s])]
  /\ UNCHANGED <<state, retries, ever, registry, threadVars, stopVars>>

\* The service's health changes by itself: a cable, a packet, a dead thread.
HealthChanges(s) ==
  /\ healthy' = [healthy EXCEPT ![s] = ~@]
  /\ UNCHANGED watcherVars

RestartEnds(s) ==
  \E reg \in {"up", "down"}, h \in BOOLEAN :
    Restarted(s, reg) /\ healthy' = [healthy EXCEPT ![s] = h]

PollStep == (Wake \/ Admit \/ Check) /\ UNCHANGED healthy

\* The watcher was stopped for good.
Over == pc = "ended" /\ stopper = "returned" /\ UNCHANGED vars

Next ==
  \/ PollStep
  \/ \E s \in Services : RestartEnds(s) \/ HealthChanges(s)
  \/ (Stop \/ Joined \/ Tick) /\ UNCHANGED healthy
  \/ Over

Spec == Init /\ [][Next]_vars

\* The thread runs, a restart returns, time passes.  Nobody has to call stop.
Fairness ==
  /\ WF_vars(PollStep) /\ WF_vars(\E s \in Services : RestartEnds(s))
  /\ WF_vars(Tick /\ UNCHANGED healthy)

FairSpec == Spec /\ Fairness

-----------------------------------------------------------------------------
(* What the watcher promises.                                              *)

\* The variables have the types the comments above give them.
TypeOK ==
  /\ state \in [Services -> States]
  /\ retries \in [Services -> 0 .. RetryBound]
  /\ ever \in [Services -> BOOLEAN]
  /\ since \in [Services -> 0 .. MaxBackoff]
  /\ rested \in [Services -> 0 .. MaxBackoff]
  /\ registry \in [Services -> {"up", "down"}]
  /\ pc \in Threads
  /\ turn \in 1 .. Len(Order)
  /\ stopEvent \in BOOLEAN
  /\ stopper \in {"none", "joining", "returned"}
  /\ healthy \in [Services -> BOOLEAN]

\* A service that was healthy once gets at most MaxRetries restarts in a row,
\* even if it was restarted more often than that before it first was healthy.
RetriesBounded ==
  \A s \in Services : ever[s] /\ MaxRetries > 0 => retries[s] <= MaxRetries

\* The watcher gives up on a service only after it was healthy once and all of
\* its attempts were used: one that never connected is tried for ever.
GivesUpLate ==
  \A s \in Services :
    state[s] = "failed" => ever[s] /\ 0 < MaxRetries /\ MaxRetries <= retries[s]

\* Two attempts in a row on the same service are at least the first one's
\* backoff apart, counted from the end of its restart.
AttemptsAreSpaced ==
  [][\A s \in Services :
       retries'[s] > retries[s] /\ retries[s] > 0
       => rested[s] >= Backoff(s)]_vars

\* When stop() has returned no check begins any more, so no restart does, even
\* if the thread is still in a restart that outlasted the join.
NoCheckAfterStop == stopper = "returned" => pc # "checking"

\* The poll thread never dies of an exception.
ThreadSurvives == pc # "crashed"

\* A service that stays unhealthy is restarted again and again, or given up.
KeepsTrying ==
  \A s \in Services :
    <>[](~healthy[s]) =>
      \/ []<>(pc = "restarting" /\ Order[turn] = s)
      \/ <>[](state[s] = "failed")
      \/ <>stopEvent

\* A service that the watcher found broken and that is healthy from some time
\* on is registered as available in the end, even after the watcher gave up.
RecoveryIsReported ==
  \A s \in Services :
    (state[s] # "healthy" /\ []healthy[s])
      ~> (state[s] = "healthy" /\ registry[s] = "up") \/ stopEvent

=============================================================================
