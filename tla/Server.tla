--------------------------------- MODULE Server ---------------------------------
(***************************************************************************)
(* The server's services under the device watcher: the SDK state service   *)
(* (src/src/impl/state/sdk_state_service.py), the SDK sport service        *)
(* (src/src/impl/sdk_sport/sdk_sport_service.py), the service registry     *)
(* behind /status, and the lifespan of server.py that starts and stops     *)
(* them.  The watcher is an instance of DeviceWatcher whose health is what *)
(* the two services answer.                                                *)
(*                                                                         *)
(* The event loop's thread, the watcher's thread and the DDS callbacks run *)
(* concurrently.  A restart is the steps a service takes in the watcher's  *)
(* thread: it tears its connection down, then tries to set up a new one.   *)
(***************************************************************************)
EXTENDS Integers, Sequences, FiniteSets

CONSTANTS
  BaseBackoff, MaxBackoff, MaxRetries,   \* the watcher's settings
  RetryBound,        \* bound: retry_count is not counted beyond it
  FloatLimit,        \* see DeviceWatcher
  MaxFailures        \* bound: times that setting up a client or subscribers raises

ASSUME FailureAssumption == MaxFailures \in Nat
ASSUME SettingsAssumption ==
  /\ BaseBackoff \in Nat \ {0} /\ MaxBackoff \in Nat \ {0} /\ MaxRetries \in Nat
  /\ RetryBound \in Nat /\ RetryBound > MaxRetries /\ FloatLimit \in Nat

Services == {"state", "sport"}

\* _start_device_watcher registers the state service first.
Order == <<"state", "sport">>

VARIABLES
  link,         \* environment: the robot is on, its Ethernet link up, and it sends
  bound,        \* the process-wide DDS ChannelFactory is initialised
  subscribed,   \* state service: _initialized, with both subscribers open
  packet,       \* state service: _last_sport_ts: never set, recent, or stale
  lowstate,     \* state service: _latest_low_state is there
  client,       \* sport service: _available and sport_client
  failures,     \* how often setting up has raised so far
  down,         \* the restart under way has torn the old connection down
  phase,        \* the lifespan: serving, or shut down
  state, retries, ever, since, rested, registry, pc, turn, stopEvent, stopper

stateVars == <<subscribed, packet, lowstate>>
watcherVars == <<state, retries, ever, since, rested, registry, pc, turn, stopEvent, stopper>>
vars == <<link, bound, stateVars, client, failures, down, phase, watcherVars>>

Health_NeedsLink ==           \* mutant: the sport service asks the robot, too
  [s \in Services |-> IF s = "state" THEN subscribed /\ packet = "fresh"
                      ELSE client /\ link]

\* is_healthy of the two services: the state service wants a recent packet,
\* the sport service a client, whether or not the robot answers it.
Health == [s \in Services |-> IF s = "state" THEN subscribed /\ packet = "fresh"
                              ELSE client]

DW == INSTANCE DeviceWatcher WITH healthy <- Health

Init_StateUnregistered ==     \* mutant: the state service never registers itself
  /\ link \in BOOLEAN /\ bound = link /\ subscribed = link /\ client = link
  /\ packet = "never" /\ lowstate = FALSE /\ failures = 0 /\ down = FALSE
  /\ phase = "serving"
  /\ registry = [s \in {"sport"} |-> IF client THEN "up" ELSE "down"]
  /\ DW!WatcherInit

\* The services have been started, sport first, and the watcher after them; the
\* link may have come up meanwhile.
Init ==
  /\ link \in BOOLEAN /\ bound \in BOOLEAN /\ subscribed \in BOOLEAN /\ client \in BOOLEAN
  /\ failures \in 0 .. MaxFailures
  /\ subscribed \/ client => bound
  /\ bound => subscribed \/ failures > 0
  /\ packet = "never" /\ lowstate = FALSE /\ down = FALSE /\ phase = "serving"
  /\ registry = [s \in Services |-> IF (IF s = "state" THEN subscribed ELSE client)
                                    THEN "up" ELSE "down"]
  /\ DW!WatcherInit

-----------------------------------------------------------------------------
(* The robot and its packets.                                              *)

\* The robot is switched on or off, or its cable pulled or plugged.
LinkChanges ==
  /\ link' = ~link
  /\ UNCHANGED <<bound, stateVars, client, failures, down, phase, watcherVars>>

\* _on_sport: a sport state arrives and is cached with its time.
OnSport ==
  /\ link /\ subscribed /\ packet # "fresh"
  /\ packet' = "fresh"
  /\ UNCHANGED <<link, bound, subscribed, lowstate, client, failures, down, phase, watcherVars>>

\* _on_lowstate: the low-level state comes on a topic of its own.
OnLowstate ==
  /\ link /\ subscribed /\ ~lowstate
  /\ lowstate' = TRUE
  /\ UNCHANGED <<link, bound, subscribed, packet, client, failures, down, phase, watcherVars>>

\* STALE_AFTER_SEC pass without a sport state.
PacketAges ==
  /\ packet = "fresh" /\ ~(link /\ subscribed)
  /\ packet' = "stale"
  /\ UNCHANGED <<link, bound, subscribed, lowstate, client, failures, down, phase, watcherVars>>

-----------------------------------------------------------------------------
(* Restarts, in the watcher's thread.                                      *)

RestartAt(s) == pc = "restarting" /\ Order[turn] = s

\* ChannelFactoryInitialize: the factory is a singleton, so it cannot fail once
\* it has been initialised; before, it needs the link.
Binds == bound \/ link

\* Setting up the client or a subscriber raises.
SetupRaises == failures < MaxFailures /\ failures' = failures + 1

SportReset_AnyTurn ==         \* mutant: tears down whatever is being restarted
  /\ pc = "restarting" /\ ~down /\ down' = TRUE
  /\ client' = FALSE
  /\ UNCHANGED <<link, bound, stateVars, failures, phase, watcherVars>>

\* The sport service's restart drops the client.
SportReset ==
  /\ RestartAt("sport") /\ ~down /\ down' = TRUE
  /\ client' = FALSE
  /\ UNCHANGED <<link, bound, stateVars, failures, phase, watcherVars>>

SportInit_AnyTurn ==          \* mutant: sets the client up in whoever's restart
  /\ pc = "restarting" /\ down /\ down' = FALSE
  /\ bound' = Binds
  /\ Binds /\ client' = TRUE /\ DW!Restarted(Order[turn], "up")
  /\ UNCHANGED <<link, stateVars, failures, phase>>

SportInit_UpAnyway ==         \* mutant: registered before the outcome is known
  /\ RestartAt("sport") /\ down /\ down' = FALSE
  /\ bound' = Binds /\ DW!Restarted("sport", "up")
  /\ UNCHANGED <<link, stateVars, client, failures, phase>>

\* Then _init_sdk: DDS binds, the client is made, and the service is registered
\* as available; or one of them raises, and it is not.
SportInit ==
  /\ RestartAt("sport") /\ down /\ down' = FALSE
  /\ bound' = Binds
  /\ \/ Binds /\ client' = TRUE /\ DW!Restarted("sport", "up") /\ UNCHANGED failures
     \/ ~Binds /\ DW!Restarted("sport", "down") /\ UNCHANGED <<client, failures>>
     \/ Binds /\ SetupRaises /\ DW!Restarted("sport", "down") /\ UNCHANGED client
  /\ UNCHANGED <<link, stateVars, phase>>

\* The state service's restart first stops it: the subscribers are closed, the
\* cached states and their times stay.
StateStop ==
  /\ RestartAt("state") /\ ~down /\ down' = TRUE
  /\ subscribed' = FALSE
  /\ UNCHANGED <<link, bound, packet, lowstate, client, failures, phase, watcherVars>>

StateStart_Closed ==          \* mutant: the subscribers are never reopened
  /\ RestartAt("state") /\ down /\ down' = FALSE
  /\ bound' = Binds
  /\ DW!Restarted("state", IF Binds THEN "up" ELSE "down")
  /\ UNCHANGED <<link, stateVars, client, failures, phase>>

\* Then start(): DDS binds and the subscribers open, and the service is
\* registered as available; or either raises, and it is not.
StateStart ==
  /\ RestartAt("state") /\ down /\ down' = FALSE
  /\ bound' = Binds
  /\ \/ Binds /\ subscribed' = TRUE /\ DW!Restarted("state", "up") /\ UNCHANGED failures
     \/ ~Binds /\ DW!Restarted("state", "down") /\ UNCHANGED <<subscribed, failures>>
     \/ Binds /\ SetupRaises /\ DW!Restarted("state", "down") /\ UNCHANGED subscribed
  /\ UNCHANGED <<link, packet, lowstate, client, phase>>

Restart == SportReset \/ SportInit \/ StateStop \/ StateStart

-----------------------------------------------------------------------------
(* The lifespan.                                                           *)

others == <<link, bound, stateVars, client, failures, down, phase>>

\* Shutdown begins: _stop_device_watcher calls the watcher's stop().
Shutdown == phase = "serving" /\ DW!Stop /\ UNCHANGED others

WatcherJoined == DW!Joined /\ UNCHANGED others

ServicesStopped_IfOpen ==     \* mutant: a service that is not open has no end
  /\ phase = "serving" /\ stopper = "returned" /\ subscribed
  /\ subscribed' = FALSE
  /\ phase' = "stopped"
  /\ UNCHANGED <<link, bound, packet, lowstate, client, failures, down, watcherVars>>

\* Then the state service is stopped.
ServicesStopped ==
  /\ phase = "serving" /\ stopper = "returned"
  /\ subscribed' = FALSE
  /\ phase' = "stopped"
  /\ UNCHANGED <<link, bound, packet, lowstate, client, failures, down, watcherVars>>

Poll == (DW!Wake \/ DW!Admit \/ DW!Check) /\ UNCHANGED others

\* A robot that is on sends its state many times a second, the watcher waits
\* seconds between its attempts: no second passes while a packet is due.
PacketDue == link /\ subscribed /\ packet # "fresh"

Time == ~PacketDue /\ DW!Tick /\ UNCHANGED others

Next == LinkChanges \/ OnSport \/ OnLowstate \/ PacketAges \/ Restart \/ Poll \/ Time
        \/ Shutdown \/ WatcherJoined \/ ServicesStopped

Spec == Init /\ [][Next]_vars

\* The watcher's thread runs and its calls return, time passes, a robot that is
\* on sends its state, and shutdown runs to its end once it began.
Fairness ==
  /\ WF_vars(Poll) /\ WF_vars(Restart) /\ WF_vars(Time)
  /\ WF_vars(OnSport) /\ WF_vars(WatcherJoined) /\ WF_vars(ServicesStopped)

FairSpec == Spec /\ Fairness

-----------------------------------------------------------------------------
(* What the server promises.                                               *)

\* The variables have the types the comments above give them.
TypeOK ==
  /\ link \in BOOLEAN /\ bound \in BOOLEAN /\ subscribed \in BOOLEAN
  /\ lowstate \in BOOLEAN /\ client \in BOOLEAN /\ down \in BOOLEAN
  /\ failures \in 0 .. MaxFailures
  /\ packet \in {"never", "fresh", "stale"}
  /\ phase \in {"serving", "stopped"}
  /\ DW!TypeOK

\* When the registry, and so /status, says that sport control is available,
\* there is a client: no command is turned away with 503 then.
SportIsThere == registry["sport"] = "up" => client

\* The watcher never gives up on the sport service: it stays healthy once it was
\* up, even with the robot off, and until then its restarts have no limit.
SportIsNeverGivenUp == state["sport"] # "failed"

\* A sport client that works is never taken away by a restart.
ClientIsKept == [][client => client']_vars

\* The two services behave as the watcher takes any service to behave: only the
\* health of the one that is being restarted changes with a step of the watcher's
\* thread, and every restart ends with a registration.  What DeviceWatcher
\* promises therefore holds here.
WatcherSpec == DW!Spec

Works(s) == Health[s] /\ registry[s] = "up"

\* Given up for good: with no subscriber open, no packet can revive the service.
Abandoned == state["state"] = "failed" /\ ~subscribed

\* Once the robot is reachable for good and nobody shuts the server down, both
\* services become healthy and registered as available, and stay so, whatever
\* happened before: the watcher recovers a robot that boots after the server,
\* and one that went away until the watcher gave up on it.  The one exception is
\* a state service whose subscribers could not be reopened at its last attempt.
AutoRecovery ==
  <>[](link /\ stopper = "none")
    => <>[]Works("sport") /\ (<>[]Works("state") \/ <>[]Abandoned)

\* A shutdown that began comes to its end.
ShutdownEnds == stopEvent ~> phase = "stopped"

\* /status reports exactly what is broken: the state service does not become
\* available in it while the robot is gone and its state has gone stale.
StatusNamesTheBroken ==
  [][registry["state"] = "down" /\ registry'["state"] = "up"
     => link \/ packet = "fresh"]_vars

\* What the sport controller reads as the robot's mode: None, or a mode as old as
\* the last sport state is.
ReadMode == IF packet = "never" THEN "None" ELSE packet

\* A robot that the watcher has given up on is not taken to be in the mode it had
\* when it was last heard of: its mode reads as None, unknown.
UnreachableIsUnknown == state["state"] = "failed" => ReadMode # "stale"

=============================================================================
