------------------------------ MODULE Lifespan ------------------------------
(* The life of one background service of the middle layer                   *)
(* (src/go2_middle_layer/src/server.py): the lifespan starts it, then the   *)
(* device watcher; at the end it stops the watcher, waiting 5 s for it at   *)
(* most, and then the service.  Two threads may therefore be inside the     *)
(* start() or stop() of the service: the main thread, which runs the        *)
(* lifespan, and the watcher, which runs restart(), a stop() and a start(). *)
(* A service module extends this one and gives the steps of start() and     *)
(* stop(), from op[a] = "start" or "stop" to Returned or Raised.            *)
(* The bookkeeping of the watcher itself is in DeviceWatcher.tla; here its  *)
(* poll may come at any time after the backoff.                             *)
EXTENDS Naturals, Sequences, FiniteSets

CONSTANTS
  MaxRetries    \* entry.max_retries of the watcher

ASSUME MaxRetriesAssumption == MaxRetries \in Nat \ {0}

VARIABLES
  phase,        \* where the lifespan stands
  watcher,      \* what the watcher's thread does
  health,       \* entry.state
  proven,       \* entry.ever_healthy
  tries,        \* entry.retry_count; no more than MaxRetries is told apart
  listed,       \* what the service registry says of the service
  op,           \* [thread -> where it stands in the service's start or stop]
  overrun       \* history: the watcher was in a restart when the service was
                \* told to stop

lifeVars == <<phase, watcher, health, proven, tries, listed, op, overrun>>

Actors == {"main", "watcher"}

Phases == {"starting", "serving", "leaving", "stopping", "down"}

LifeTypeOK ==
  /\ phase \in Phases
  /\ watcher \in {"off", "poll", "restart", "gone"}
  /\ health \in {"healthy", "recovering", "failed"}
  /\ proven \in BOOLEAN
  /\ tries \in 0..MaxRetries
  /\ listed \in {"unset", "up", "down"}
  /\ DOMAIN op = Actors
  /\ overrun \in BOOLEAN

(* The lifespan has called start(); nothing is registered yet. *)
LifeInit ==
  /\ phase = "starting"
  /\ watcher = "off"
  /\ health = "healthy"
  /\ proven = FALSE
  /\ tries = 0
  /\ listed = "unset"
  /\ op = [a \in Actors |-> IF a = "main" THEN "start" ELSE "idle"]
  /\ overrun = FALSE

-----------------------------------------------------------------------------
(* The start() or stop() that a runs goes on at step, or has returned:      *)
(* restart() goes on from its stop() to its start().                        *)
At(a, step) == op' = [op EXCEPT ![a] = step]

AfterStop(a) == IF a = "watcher" THEN "start" ELSE "idle"

(* It raised: _start_service and _stop_service log it, the watcher also     *)
(* registers the service as unavailable.                                    *)
Raised(a) ==
  /\ At(a, "idle")
  /\ listed' = IF a = "watcher" THEN "down" ELSE listed

-----------------------------------------------------------------------------
(* start() has returned: the watcher starts, and the server serves. *)
Serve ==
  /\ phase = "starting" /\ op["main"] = "idle"
  /\ phase' = "serving"
  /\ watcher' = "poll"
  /\ UNCHANGED <<health, proven, tries, listed, op, overrun>>

(* The server is told to end: the watcher's stop event is set. *)
Leave ==
  /\ phase = "serving"
  /\ phase' = "leaving"
  /\ UNCHANGED <<watcher, health, proven, tries, listed, op, overrun>>

(* The watcher has ended, or is still in a restart after 5 s: stop(). *)
StopService ==
  /\ phase = "leaving" /\ watcher \in {"gone", "restart"}
  /\ phase' = "stopping"
  /\ At("main", "stop")
  /\ overrun' = (watcher = "restart")
  /\ UNCHANGED <<watcher, health, proven, tries, listed>>

Down ==
  /\ phase = "stopping" /\ op["main"] = "idle"
  /\ phase' = "down"
  /\ UNCHANGED <<watcher, health, proven, tries, listed, op, overrun>>

WatcherEnds ==
  /\ watcher = "poll" /\ phase \notin {"starting", "serving"}
  /\ watcher' = "gone"
  /\ UNCHANGED <<phase, health, proven, tries, listed, op, overrun>>

(* A poll that finds the service healthy. *)
FoundHealthy ==
  /\ health' = "healthy" /\ proven' = TRUE
  /\ IF health = "healthy" THEN UNCHANGED <<tries, listed>>
                           ELSE tries' = 0 /\ listed' = "up"
  /\ UNCHANGED <<phase, watcher, op, overrun>>

GivesUp == proven /\ tries = MaxRetries

(* A poll that finds it unhealthy: too early after the last restart, or     *)
(* the last of the retries is spent, or restart() is called.                *)
TooEarly ==
  /\ health' = IF health = "healthy" THEN "recovering" ELSE health
  /\ listed' = IF health = "healthy" THEN "down" ELSE listed
  /\ tries > 0 \/ health = "failed"
  /\ UNCHANGED <<phase, watcher, proven, tries, op, overrun>>

GaveUp ==
  /\ health # "failed" /\ GivesUp
  /\ health' = "failed" /\ listed' = "down"
  /\ UNCHANGED <<phase, watcher, proven, tries, op, overrun>>

Restart ==
  /\ health # "failed" /\ ~GivesUp
  /\ health' = "recovering"
  /\ listed' = IF health = "healthy" THEN "down" ELSE listed
  /\ tries' = IF tries = MaxRetries THEN tries ELSE tries + 1
  /\ watcher' = "restart"
  /\ At("watcher", "stop")
  /\ UNCHANGED <<phase, proven, overrun>>

Poll(isHealthy) ==
  /\ watcher = "poll" /\ phase = "serving"
  /\ IF isHealthy THEN FoundHealthy ELSE TooEarly \/ GaveUp \/ Restart

RestartEnds ==
  /\ watcher = "restart" /\ op["watcher"] = "idle"
  /\ watcher' = "poll"
  /\ UNCHANGED <<phase, health, proven, tries, listed, op, overrun>>

\* What the lifespan and the watcher do of themselves while they run.
LifeGoesOn == Serve \/ StopService \/ WatcherEnds \/ RestartEnds

LifeNext == Serve \/ Leave \/ StopService \/ Down \/ WatcherEnds \/ RestartEnds

=============================================================================
