# A TLA+ model of hal-for-unitree-go2

This directory holds TLA+ specifications of the concurrent parts of the server
under `src/src` (the HAL that offers a Unitree Go2 robot as MCP tools) and of the
larger server under `src/go2_middle_layer`, TLC configurations that check them on
small instances, and proofs, checked by TLAPS, that hold for every value of the
constants.

## 1. The system

The live server (`src/src`) is one Python process with four kinds of threads:

| thread | runs | code |
|---|---|---|
| event loop | every tool call and HTTP handler, as coroutines | `server.py`, `usecases/` |
| worker threads | one SDK call each (`asyncio.to_thread`) | `usecases/sport_controller.py:93` |
| watcher thread | the device watcher and the restarts it calls | `impl/device_watcher/` |
| DDS threads | the callbacks of the two state topics | `impl/state/sdk_state_service.py:175` |

The directory `go2_middle_layer` is an older, larger version of the same server,
with a speaker, a microphone with speech to text, three cameras and a ROS 2 state
service. Each of these adds threads of its own: a thread per written chunk and
per playback, the capture threads of microphone and cameras, an event loop for
the websocket of deepgram, a subscriber process and the thread that reads its
queue. Its device watcher is the same file; its sport controller and SDK services
are earlier versions of those in `src/src`.

### Components

| component | state | operations | interacts with |
|---|---|---|---|
| Sport controller `usecases/sport_controller.py` | `_lock`, `_cancel_event` | stop, stand up, stand down, six single-leg moves, move to target | SDK sport service (calls), state service (mode) |
| SDK sport service `impl/sdk_sport` | `_available`, `sport_client`, `mapping_api` | `handle`, `is_healthy`, `restart` | robot, registry, watcher |
| SDK state service `impl/state` | subscribers, `_initialized`, cached states and their times | `start`, `stop`, `restart`, `is_healthy`, callbacks, `get_latest_state` | robot, registry, watcher, controllers |
| Device watcher `impl/device_watcher` | an entry per service, `_stop_event`, thread | `register`, `start`, `stop`, poll loop | services, registry |
| Service registry `service_registry.py` | availability per service | `register`, `get_unavailable_reason` | `/status`, state controller |
| Lifespan `server.py` | the watcher, the container | start, shutdown | everything |
| State controller `usecases/state_controller.py` | none | `get_latest_state` | registry, state service |
| Container, settings, models, stubs | none after start | | |
| Speaker `go2_middle_layer/src/impl/speaker` | the output stream, `sync_device_lock`, `async_device_lock`, the playbacks | speak, play a clip, interrupt, `_reset_stream`, `restart` | PortAudio, watcher |
| Audio capture `impl/audio_capture/base.py`, `service.py` | `_device`, `_stop_event`, `_tasks` | `start`, `stop`, `_capture_loop`, `on_hotword`, `get_pending_tasks`, `transcribe_audio` | speech to text, registry |
| Speech to text `impl/audio_capture/stt` | `running`, `_listening_for_task`, queues, a websocket | `start`, `listen`, `stop`, transcription | audio capture, deepgram |
| Cameras `impl/{depth,local,rpc}_camera` | capture thread, `_stop_event`, `_latest_frame`, the device | `start`, `stop`, `restart`, `is_healthy`, capture tool | watcher, registry |
| ROS 2 state `impl/state/ros2_state_service.py` | process, queue, reader thread, latest states | `start`, `stop`, `restart`, `is_healthy` | robot, watcher, state tool |
| Middle layer's lifespan and container `server.py`, `dependencies` | which services are real | start, shutdown | all of these |

### What is hard here, and what must hold

* **The command path.** Tool calls interleave at every `await`. A new call first
  signals the running one through an event that exists only while a move loop
  runs, then queues for the lock. An SDK call is in a worker thread that cannot
  be cancelled. Correct: one command drives at a time, in the order of the
  calls; a signal reaches the command it is meant for and no other; whoever ends
  or interrupts a move also ends the motion; every call is answered.
* **The watcher.** Health changes under it, restarts block, stop() may come
  between any two steps and gives up waiting after five seconds. Correct: limits
  and backoff are kept, a service that never came up is tried for ever, recovery
  is noticed even after giving up, and nothing begins once stop() has returned.
* **The services together.** Three parties write the registry, a restart takes a
  service away while others use it, and the DDS factory is process-wide. Correct:
  what is registered as available is, a client that works is not torn down, a
  reachable robot is recovered.

* **The speaker.** A write to PortAudio may hang, and a thread cannot be
  cancelled; so whoever waited for it resets the stream under it. Correct: one
  writer, no stream left open, no swap under a writer, a caller is answered once
  its playback is over and not before, and a stopped playback stops (at its next
  chunk: see section 3).
* **Listening.** A hotword silences the device for further hotwords until its
  callback has ended, on another thread, or for 30 s; sessions and transcriptions
  end for many reasons. Correct: commands in order and once, task mode is left, a
  failed call leaves no command, what is told to stop ends.
* **Cameras and ROS 2.** A capture thread or a process may outlive its stop(),
  die without notice, or be replaced while it is being read. Correct: no answer
  from before a restart, a state that never goes back, a dead service is reported.

`PROJECT.json` lists the hazards line by line, with the properties that cover
each of them.

## 2. Modules

| module | models |
|---|---|
| `SportControl` | `sport_controller.py`: tools, lock, cancel event, move loop, worker threads, calls cancelled by their client |
| `MCSportControl` | its small instances (symmetry of the commands) |
| `SportControl_proofs` | type correctness, mutual exclusion, the cancel event, interruptions |
| `SportOrder_proofs` | the order in which commands are served and drive, what their answers say, how motion ends |
| `QueueLemmas` | lemmas about queues without repetition (append, take the first, remove one in the middle), for `asyncio.Lock`, `asyncio.Semaphore` and the order of calls |
| `DeviceWatcher` | `device_watcher_service.py` over services that behave arbitrarily |
| `MCDeviceWatcher` | its small instances |
| `DeviceWatcher_proofs` | type correctness, retries, giving up, backoff, stop |
| `Server` | the two services and the lifespan under the watcher (`DW == INSTANCE DeviceWatcher WITH healthy <- Health`) |
| `Server_proofs` | its safety properties, and that it implements `DeviceWatcher` |
| `Speaker` | the speaker of the middle layer: tools, both service classes, the stream and its resets |
| `Speaker_proofs` | all its safety and action properties |
| `MCSpeaker` | its small instances |
| `Lifespan` | a service of the middle layer between the lifespan and the watcher: two threads that start and stop it |
| `AudioCapture` (EXTENDS `Lifespan`) | the microphone: capture thread, devices, hotwords, listening sessions, commands |
| `Transcribe` (EXTENDS `AudioCapture`) | the transcription calls beside it |
| `HotwordStream` | the event loop of the deepgram device: microphone, websocket sender, retries |
| `Cameras` (EXTENDS `Lifespan`) | the three cameras and their readers |
| `Ros2State` (EXTENDS `Lifespan`) | the ROS 2 state service: process, queue, reader thread |
| `MiddleLayer` | the composition of these under one lifespan, with the properties of each |
| `MCMiddleLayer` | its small instance |
| `LayerDevices_proofs` | lifespan, cameras and ROS 2 state: fresh frames, a state that never goes back |
| `MiddleLayer_proofs` | microphone, transcriptions and hotword loop: types, the order of commands, permits, failed calls |

### SportControl

A step is what a coroutine does between two awaits, so every definition in the
middle of the module (`Send`, `StartLeg`, `BeginUp`, ...) is a stretch of straight
code and every action is a resumption. `pc` names the await a command is
suspended at:

| pc | await |
|---|---|
| `waiting` | `async with self._lock` |
| `readying` | the SDK call of `_ensure_standing_async` |
| `moving`, `sleeping`, `ending` | MOVE, `asyncio.sleep`, the final STOP_MOVE of `_run_move_loop` |
| `rising`, `standingUp` | the two calls of `stand_up` |
| `unfolding`, `lowering` | the two calls of `stand_down` |
| `stopping` | the call of `stop_move` |

`job[c]` is the worker thread of command c: `Deliver` is one attempt at the SDK
call, separate from the coroutine's resumption. The lock is asyncio's: `holder`
and the queue `waiters`, with the fairness rule that a call joins the queue when
somebody waits (`LockIsFree`). `Abort` is a client that cancels its request:
CancelledError at the await, the `finally` of the loop, the release of the lock;
a worker thread that has begun cannot be cancelled, so its job stays.

Time is a budget of ticks per leg; an iteration uses at least one. Angles and
distances are the ticks they take. The mode is read from `Modes` at will, so the
properties do not depend on the state service being right. The obstacle check is
left out: the depth camera is never passed in this server
(`sport_controller.py:279`).

### DeviceWatcher and Server

In `DeviceWatcher` a service is a box whose health changes at any time and whose
restart ends with any outcome. A check of an entry is two steps (the look at the
stop event, the check), a restart two more, because it blocks. Times are seconds
since the last failure, saturating at `MaxBackoff`; `retry_count` saturates at
`RetryBound`.

`Server` replaces the box by the services. `link` is the environment: the robot
is on and sends. `bound` is the DDS factory: once bound it stays so, and
initialising it again succeeds with or without a link (this is what the comment
at `sdk_state_service.py:209` says, and what makes sport control stay healthy
with the robot off). `packet` is the age of the last sport state. A restart is
the service's teardown and then its set-up. Requests to the sport service are
not repeated here, they are the `Deliver` of `SportControl`.

### Speaker

`engine` is the class the container builds: `openai`
(`AsyncSpeakerDeviceBase`, a playback is a task, `stopped` is a cancelled task) or
`piper` (`SyncSpeakerDeviceBase`, a playback is a thread, `stopped` is its event).
`pc` is where a playback stands, `write` the thread that writes its chunk, `reset`
the `_reset_stream` somebody runs, `call` what its caller is told. A thread whose
playback has gone on without it is an orphan; it keeps its write and, with
`openai`, `sync_device_lock`. A `stream` is a number, so that a write can be on a
stream that `self.stream` no longer is: `ResetAbort` stops the stream of the
moment, `ResetClose` closes it, `CreateStream` makes the next one and
`ResetStart` starts whatever is there by then. Time is left out: a wait may time
out as soon as what it waits for is slow. Everything that goes wrong (a slow
write, an error, a lost device, a timeout, a client that leaves, the watcher's
restart) uses up one of `MaxFaults`.

A reset of `openai` waits for `sync_device_lock` for a time and then goes ahead
without it, whether a hung write or another reset holds it (`Stuck`,
`ResetHolds`); either way `clash` records it.

Left out: `speak()` and `play_file()`, which answer at once and which no tool
calls; the difference between the first write and the others, fades, volume,
channels, the search for a device. Whether the registry lists the speaker is
nondeterministic in `SpeakText`.

### Lifespan and the background services

Main thread and watcher may be in `start()` or `stop()` of one service at the
same time: `op[a]` is where each stands, and a service module gives the steps.
The watcher is reduced to what a service sees of it (healthy, recovering, given
up; the backoff is a choice, `TooEarly`), since `DeviceWatcher` models the rest.
`overrun` records that shutdown did not wait for a restart under way.

`AudioCapture` has one device object per turn of the capture loop (`loop`,
`micDevice`), the devices whose running flag is set (`hearing`) and those in task
mode, and a record per listening session: where it is, the device it came from
and the one it listens on, its connection attempts, whether it has words and
whether the device still waits for its callback. `Transcribe` adds the
semaphore, the executor and the calls; what separates the engines is who appends
the sentences, the job (`vosk`) or the call (`deepgram`), and what a call that runs
out of time does: with `vosk` it answers 504, with `deepgram` it raises (see section
3). `HotwordStream` counts
frames in the two bounded queues and models the end of a session step by step,
since that is where the sender and the session wait for each other.

`Cameras` models the three services with one set of actions, which the three
files share almost literally, and `kind` for what they do not: the depth camera
opens its device in `start()` under a lock and aligns frames when it is read, the
local camera opens it in the thread and does not clear the frame, the robot's
camera has no device of its own. For it `device` says that the process has bound the
ChannelFactory: binding it may fail with the robot off, but once it is bound (by
this service or another) `start()` goes through and registers the camera as up, robot
or no robot, and the thread finds out. A capture thread has a slot, so that the thread of an
earlier run can go on beside that of the current one. `Ros2State` numbers the
robot's messages; one queue and one slot stand for both topics.

`MiddleLayer` picks one service that is real (`real`); the others are stubs, as
`dependencies/__init__.py` builds them when they are switched off. The services
share no state but the threads of lifespan and watcher, which handle them one after the
other. In the scene `calls` the microphone is not started and its list of
commands is used by the calls only.

## 3. Runs

| run | module | shows |
|---|---|---|
| `SportSafety` | `MCSportControl` | all safety and action properties of the command path |
| `SportLive` | `MCSportControl` | every tool call is answered |
| `WatcherRun` | `MCDeviceWatcher` | safety, spacing and liveness of the watcher |
| `ServerRun` | `Server` | the composition: availability, recovery, shutdown, and that it implements `DeviceWatcher` (`WatcherSpec`) |
| `SpeakerRun` | `MCSpeaker` | safety, action and liveness properties of the speaker |
| `MiddleLayerRun` | `MCMiddleLayer` | the background services: order and fate of commands, frames and states, what must be reported, what must end |
| `SportLostCancel` | `MCSportControl` | *violation*: a new command does not always interrupt |
| `WatcherOverflow` | `MCDeviceWatcher` | *violation*: the poll thread dies of an overflow |
| `ServerStatus` | `Server` | *violation*: /status says available with the robot off |
| `ServerStaleMode` | `Server` | *violation*: the mode of a lost robot is still believed |
| `SpeakerMuted` | `MCSpeaker` | *violation*: an orphaned write silences every later chunk |
| `HotwordDeaf` | `HotwordStream` | *violation*: the hotword loop blocks for ever in the end of a session |

Each passing property has a mutant (`..._Name`, next to the definition it
mutates) under which TLC finds it violated.

### Bounds

* Three commands: one inside the lock, one that waits and one that arrives, which
  is what it takes to overtake, to signal the wrong command, or to come between a
  cancelled command and its leftover SDK call. Commands are symmetric, so
  `SportSafety` uses symmetry; `SportLive` does not, since symmetry is unsound
  for liveness.
* `MaxTicks = 2`: a leg of two iterations sees an event set before its first MOVE
  returned, during the sleep, and after its last; a leg of one ends by time.
  `move_to_target_position` has legs of 0 to 2 each.
* `MaxAborts = 1`: one cancelled call at any await.
* `SportSafety` has all kinds but the single-leg moves, which are the second leg
  of the target move; `SportLive` and `SportLostCancel` have those. The modes are
  unknown and standing, the two that take different ways in all three of
  stand up, stand down and ensure_standing. `RetryCount` is 1 in the first and 2
  in the second run.
* `WatcherRun`: two services, `MaxRetries = 2`, `RetryBound = 3` (one more than
  the limit, so that the limit can be overrun), backoffs 1, 2 and 4 of a maximum
  of 4. `FloatLimit` is the real 1024 in every run; `WatcherOverflow` counts up to
  it, the others never get there, so `KeepsTrying` speaks of the first 1024
  attempts.
* `ServerRun`: `MaxRetries = 2` and at most one set-up that raises, enough for a
  restart that fails last, first, or before the service ever was healthy.
* `SpeakerRun`: two playbacks (one that writes or has left a write behind, one
  that comes next), clips of two chunks, three streams (the first, its
  replacement, and the one of a second reset); two faults for `openai`, enough for
  a hung write and the reset that is forced past it, one for `piper`, whose
  threads multiply the states. Texts (`MaxSpeech = 0`) differ from clips only in
  their number of chunks. `SpeakerMuted` needs one fault.
* `MiddleLayerRun`: two devices (one that fails, its successor) and two hotwords,
  enough for two sessions side by side; two attempts to connect; three calls, one
  permit and two workers, so that one call holds, one waits and one leaves, and an
  abandoned job runs beside the next; queues of 3 frames (100 and 500 in the code)
  and 2 messages (`queue_size`), which do fill up; a camera that is unplugged twice,
  a process that dies or cannot start twice, so that a restart fails too.
  `MaxRetries = 2`. Deadlock is not
  checked: the server may end, and every call may have been made.
* `HotwordDeaf`: the same queues; the loop may stop, so deadlock is not checked.

### Fairness

`SportLive` assumes weak fairness of each coroutine's step and each worker thread:
asyncio runs ready coroutines in turn, and the SDK client has a timeout of ten
seconds (`sdk_sport_service.py:43`), so a call returns. No tool need ever be
called and none need be cancelled. `WatcherRun` and `ServerRun` assume that the
watcher's thread runs, that a restart returns, and that time passes; `ServerRun`
also that a robot that is on sends its state (many times a second, so `Time` does
not pass while a packet is due). Nobody has to call stop, and the link need never
come up; `AutoRecovery` assumes it does in its own premise.
`SpeakerRun` and `SpeakerMuted` assume that tasks and threads go on and that
every wait with a timeout ends; of a slow write on a running stream nothing is
assumed, nor of clients, the watcher or the device. `MiddleLayerRun` assumes the
same of the lifespan, of the watcher while the server serves, of start() and
stop() and of the capture, reader and sender threads, and that the room falls
silent in the end: a listening session of vosk ends by silence only. Nobody has
to speak, to call, to unplug anything or to end the server. `HotwordDeaf` assumes
that the event loop runs its two tasks.

### Where code and documentation part

* A command is not always interrupted by a newer one (`SportLostCancel`): the
  event exists only inside `_run_move_loop`. For the same reason, and because an
  interrupted turn counts as a success, `move_to_target_position` walks its second
  leg after its turn was interrupted; `InterruptEndsMotion` states that exception.
* `2 ** (retry_count - 1)` overflows a float at retry 1025, outside any `try`
  (`WatcherOverflow`).
* A restart with the robot off registers the state service as available
  (`ServerStatus`).
* The cached mode outlives the connection (`ServerStaleMode`).
* A hung write keeps `sync_device_lock` (`SpeakerMuted`), although the comments at
  `speaker/base.py:845` and `:869` say that the next write or call goes through.
* A dead sender and a full queue block the hotword loop (`HotwordDeaf`), although
  `deepgram.py:631` says it retries on any error.

Not run, but visible in the models:

* Stopping the speaker is not immediate, although `docs/features.md:291`,
  `docs/skills/SKILL.md:146` and the tool's description (`mcps/speaker.py:34`) of the
  middle layer say "Stop all currently playing audio immediately." The interrupt
  event is looked at between chunks (`speaker/base.py:611`) and a cancelled task
  leaves its write thread alone: a chunk handed over before the stop still begins
  after it, and a chunk that is being written is played to its end. A clip is one
  chunk, the whole file, so a whole clip can begin after `stop_speaking` has been
  answered. In `Speaker` it is a `StopSpeaking` between `Submit` and `WriteBegin`;
  `AtMostOneChunkLate` proves that it is one chunk and no more.
* A transcription of deepgram that runs out of time is not answered with 504, as
  `usecases/audio_capture_controller.py:76` says it is: the handler reads
  `audio_service.TRANSCRIBE_TIMEOUT` (line 106), which only the vosk service has
  (deepgram's limit is `_transcribe_timeout`, `deepgram.py:883`), and the
  AttributeError leaves the tool. `CallEnds` answers `"raised"`; the permit is given
  back all the same.
* A restart that outlasts the watcher's join reopens the subscribers after
  shutdown has closed them (`NoCheckAfterStop` says only that no further check
  begins); in the middle layer it starts a camera or the ROS 2 process again
  (`overrun` in `StopEnds`). Both are against the comments at `src/server.py:156` and
  the middle layer's `server.py:247`, "Stop watcher first so it doesn't try to
  restart dying services".
* A watcher that gives up while the subscribers could not be reopened abandons the
  service for good (the exception that `AutoRecovery` states).
* A playback that gave up on a lock, or whose chunk was skipped, is answered as a
  success though nothing was played. Two resets of the piper speaker at the same
  time leave a stream open (`clash` in `NoStreamIsLeaked`). A write of `openai` that
  outlives its cancelled playback may sound after the answer (`AnswerMeansOver`
  counts the playback as over then).
* deepgram leaves task mode after 30 s although a session may last three attempts
  of 60 s, so sessions overlap (`forced` in `CommandsInOrder`), which the flag of
  `audio_capture/base.py:175` is there to avoid.
* A transcription of vosk that was answered with 504 still adds its sentences, and
  a client that tries again adds them twice (the exception that
  `FailedCallLeavesNoTask` states), although `vosk.py:353` speaks of "parity with the
  Deepgram service behavior", whose calls add none; its decoding goes on outside
  the semaphore.
* stop() of the audio service while the device is being created finds no device:
  the microphone is opened after shutdown. The audio service is not watched.
* The local camera does not clear its frame at a restart, and the robot's clears it
  in `start()` with a `stop()` that cannot fail; `FreshFrame` is about the depth
  camera, whose `pipeline.stop()` may raise and leave the frame behind. A depth frame
  that is read while a restart has taken `_align` away raises through the capture
  tool.
* A failed start of the ROS 2 service calls stop(), which returns at once since
  the service is not initialised: what it had started is left behind.

## 4. Proofs

All theorems are of the form `Spec => []P`, `Spec => [][A]_vars` or, for the
refinement, `Spec => DW!Spec`, for any set of commands, calls, playbacks or
services, any policy and any bounds, from the named assumptions of the modules
(finite sets of commands, calls and playbacks, natural numbers for settings,
every service in the watcher's order). Every invariant and every action property
that a passing run checks is a theorem; two more are proved that no run checks
(`RecoveryStartsFresh`, `AtMostOneChunkLate`).

**Queues** (`QueueLemmas`). `IsQueue(q, S)`: a sequence over S without repetition;
`InQueue` and `Ahead` are who is in it and who comes first. The lemmas say what
appending somebody new, taking the first, and removing one anywhere do to these.
Removal is stated by a position, which is how a cancelled waiter leaves an
asyncio queue, and why the models write it with `RemoveAt`.

**SportControl.** `OneInside` (a command is past the lock iff it is the holder)
is inductive only together with what the queue holds: the strengthening says that
waiting commands are those in `waiters`, without repetition, and that a pending
job belongs to a suspended command or to an aborted one. `EventOfLoop` and
`InterruptHasSuccessor` need a second invariant about the history of calls:
when the event is set, somebody was called after the command in the loop.

**The order of commands** (`SportOrder_proofs`) adds two layers to that.
`OrderInv`: the lock's queue is a sub-order of the calls (`Queues`), nobody who is
new or waits was served, and whoever was served was called before all who wait or
are inside (`ServedFirst`). `ServedInOrder` and `NewestDrives` follow, the latter
since an accepted order is one of the holder or of an aborted command.
`DriveInv`, for `AnswerHolds` and `MotionIsEnded`, relates an answer to the robot:
what each `pc` may have sent (`Labels`), that a job accepted by the robot is its
last order until a later command or a leftover replaces it (`AcceptedIsLast`), that
refusals are noted, and that whoever answered drove, or was followed by a driver
(`Drove`). `MotionIsEnded` needs the latter: a move that ends without a STOP_MOVE
has a successor that sent one, or an exception the property names.
`InterruptEndsMotion` is an action property: the event is set only while the holder is
in its loop (`EventOfLoop`, `OneInside`), so a step that sends a MOVE is the holder's.

**DeviceWatcher.** `RetriesBounded` and `GivesUpLate` need one another, that a
healthy entry has its attempts and its backoff back at the start
(`HealthyIsFresh`), and that only a recovering service is being restarted
(`RestartsTheBroken`): without it a restart could end on a healthy entry and spoil
its reset failure time. `RetriesBounded` depends on `HealthyIsFresh` for a service that comes up
after more attempts than the limit allows: the same check that sets
`ever_healthy` resets the count. `BackoffIsKept` compares two clocks, the seconds
since the recorded failure (what the code reads) and those since the end of the
last restart (a history variable): the first never runs ahead of the second
once there was an attempt. `StopIsFinal` has an invariant of its own.

**Server.** `SportIsThere`, `SportIsNeverGivenUp` and `ClientIsKept` rest on two
facts: a sport service that ever was healthy has its client (`EverHasClient`), and
one that is being restarted in its turn has none (`ResetHasNone`).
`ServerImplementsWatcher` maps the two services to the watcher's boxes
(`healthy <- Health`): a step of the server is a step of the watcher on the same
variables, a change of one box's health, or a stutter. The assumptions of
`DeviceWatcher` hold of the instance by `OrderFacts` and `SettingsAssumption`, so
its theorems carry over; tlapm cannot cite a theorem of an instantiated module,
so they are not repeated as theorems of `Server`.

**Speaker.** Three invariants. `PlaybackInv` (types; the queue of
`async_device_lock` holds those who wait; who waits for a thread has a chunk left;
call and playback agree) gives `AnswerMeansOver` and `AtMostOneChunkLate`.
`WriterHasLock` (a thread in a write of `openai` holds `sync_device_lock`; `piper`'s
is its playback's) gives `OneWriter` and `NoSwapUnderWriter`. `ResetAlone` (as long
as no reset was forced and no two met, the streams left open are accounted for by
where the one reset stands) gives `NoStreamIsLeaked`.

**The background services.** `LayerInv` is the invariant of `MiddleLayer`: the
part of the devices (`DevicesInv`) and that of the microphone, the calls and the
hotword loop. It is proved service by service: each has a lemma that says what
its actions do to the lifespan (`LifeStep`), and one that its own part is kept
while another service moves.

* *Lifespan.* Which thread may be inside `start()` or `stop()` in which phase, and
  that shutdown is never undone.
* *Cameras.* Until the server ends, the only living capture thread of the depth
  or the robot's camera is the current one, and `start()` and `stop()` are inside
  only when there is none, so a thread begins with an empty buffer
  (`CaptureHolds`), also after a `stop()` that raised. `FreshFrame` follows.
* *ROS 2.* At most one reader is active, and it is the current one unless the server
  is closing (`ReadersHold`); the stored state, the message a reader has taken, the
  queue and the stamps not yet sent are in order (`StampOrder`).
* *Microphone.* A session the device waits for holds task mode on its device, and
  two sessions of one device overlap only if task mode was forced open
  (`TaskModeHolds`); a command belongs to a session that is over (`CommandsOver`).
  The list that was taken and the list that waits are one sequence, `Commands`, so
  that `get_pending_tasks` changes nothing.
* *Transcription.* The permits and the calls that work add up to the limit
  and nobody waits beside a free permit (`SemaphoreHolds`), which is
  `PermitsAreKept`, for `NoPermitIsLost`. The calls rest on where a job can be for
  each state of its call (`JobHolds`); a sentence is in the list only
  if its job or its call is final, once (`CallsPlaced`).

**Model-checked only.** Liveness (`EveryCallAnswered`, `KeepsTrying`,
`RecoveryIsReported`, `AutoRecovery`, `ShutdownEnds`, `EveryPlaybackEnds`,
`TaskModeEnds`, `DeadIsReported`, `StopEnds`): it needs fairness, hence ENABLED, which
the prover does not reason about. The properties of the violation runs are false. Nothing
is recursive here, so nothing depends on induction over data.

## 5. Not modelled

The HTTP and MCP transport, settings, logging and the wording of answers; the
decoding of DDS and ROS messages, of audio and of images; the stubs; the window
between the sport service's client and its mapping (`sdk_sport_service.py:47-55`).
Of the middle layer: the sport controller and SDK services, earlier versions of
modelled files; the echo state service, which the container has commented out;
the recognisers and the neural networks; `speak()` and `play_file()`; what the
frames of a sentence hold when some were dropped.

## 6. Plan

Modules, in the order they were written: `SportControl`, `DeviceWatcher`,
`Server`, `Speaker`, `Lifespan` with `Cameras`, `Ros2State`, `AudioCapture`,
`Transcribe`, `HotwordStream`, and their composition `MiddleLayer`. None declares a
RECURSIVE operator, so all can be proved about. Safety is proved throughout. What
remains:

1. An abstract specification of the command path, a queue of calls each given the
   robot for a while, with `SportControl` as its implementation, checked and proved.
2. The same for the transcription calls, a counting semaphore.
3. The counts of the hotword loop: what `unsent` and `sentinel` say of the sender
   when a session ends.
