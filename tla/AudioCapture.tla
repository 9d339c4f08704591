---------------------------- MODULE AudioCapture ----------------------------
(* The microphone of the middle layer: the capture thread of                *)
(* impl/audio_capture/base.py, the hotword and listening sessions of        *)
(* stt/vosk.py and stt/deepgram.py, of which the container builds one, and  *)
(* the tool that drains the commands (usecases/audio_capture_controller.py).*)
(*                                                                          *)
(* The capture thread creates a device and runs its hotword loop; when that *)
(* fails it creates another.  A hotword puts the device into task mode and  *)
(* starts a thread that calls on_hotword, which listens on the device the   *)
(* service has by then and puts what it heard into the list of commands.    *)
(* With vosk the thread leaves task mode when the callback has ended; with  *)
(* deepgram it waits 30 s for the callback and leaves task mode anyway,     *)
(* while a session may last three attempts of 60 s.                         *)
(*                                                                          *)
(* The lifespan starts and stops the service; the watcher does not watch    *)
(* it.  Sound is abstracted to whether a session has heard a sentence.      *)
EXTENDS Lifespan, SequencesExt

CONSTANTS
  STTEngines,   \* the services the container may build
  Attempts,     \* LISTEN_MAX_RETRIES of deepgram
  MaxDevices,   \* bound: the devices that are created
  MaxHotwords   \* bound: the hotwords that start a session

ASSUME STTAssumption == STTEngines \subseteq {"vosk", "deepgram"}
ASSUME AttemptsAssumption == Attempts \in Nat \ {0}
ASSUME MicBoundAssumption == MaxDevices \in Nat /\ MaxHotwords \in Nat

VARIABLES
  stt,          \* which of the two it is
  micStop,      \* _stop_event
  micThread,    \* _thread is set
  loop,         \* where the capture thread is, and the device it runs
  micDevice,    \* self._device: a device, or 0
  made,         \* the devices made so far
  hearing,      \* the devices whose running flag is set
  inTaskMode,   \* the devices whose _listening_for_task is set
  sessions,     \* the listening sessions, in the order of their hotwords
  forced,       \* history: the sessions that task mode did not wait for
  tasks,        \* _tasks
  taken         \* history: the commands get_pending_tasks has answered with

micVars == <<stt, micStop, micThread, loop, micDevice, made, hearing,
             inTaskMode, sessions, forced, tasks, taken>>

Devices == 1..MaxDevices

Sessions == [at : {"called", "listening", "heard", "over", "raised"},
             on : Devices,                \* the device that heard the hotword
             ear : Devices \cup {0},      \* the device it listens on
             tries : 0..Attempts,
             words : BOOLEAN,             \* it has a sentence
             waited : BOOLEAN]            \* run_callbacks still waits for it

Commands == taken \o tasks

MicTypeOK ==
  /\ stt \in STTEngines
  /\ micStop \in BOOLEAN /\ micThread \in BOOLEAN
  /\ loop \in [at : {"off", "top", "create", "list", "hook", "open", "run", "after", "wait", "dead"},
               device : Devices \cup {0}]
  /\ micDevice \in Devices \cup {0} /\ made \in Devices \cup {0}
  /\ hearing \subseteq Devices /\ inTaskMode \subseteq Devices
  /\ sessions \in Seq(Sessions) /\ Len(sessions) <= MaxHotwords
  /\ forced \subseteq DOMAIN sessions

MicInit ==
  /\ stt \in STTEngines
  /\ micStop = FALSE /\ micThread = FALSE
  /\ loop = [at |-> "off", device |-> 0]
  /\ micDevice = 0 /\ made = 0
  /\ hearing = {} /\ inTaskMode = {}
  /\ sessions = <<>> /\ forced = {}
  /\ tasks = <<>> /\ taken = <<>>

-----------------------------------------------------------------------------
(* start() and stop(), which the main thread runs. *)
micLife == <<phase, watcher, health, proven, tries, overrun>>
heardVars == <<inTaskMode, sessions, forced, tasks, taken>>

StartCapture ==
  /\ op["main"] = "start"
  /\ micStop' = FALSE /\ micThread' = TRUE
  /\ loop' = [at |-> "top", device |-> 0]
  /\ At("main", "idle")
  /\ UNCHANGED <<micLife, listed, stt, micDevice, made, hearing, heardVars>>

StopCapture ==
  /\ op["main"] = "stop"
  /\ micStop' = TRUE
  /\ hearing' = hearing \ {micDevice}
  /\ At("main", "join")
  /\ UNCHANGED <<micLife, listed, stt, micThread, loop, micDevice, made, heardVars>>

\* The thread has ended, or 5 s are over.
JoinCapture ==
  /\ op["main"] = "join"
  /\ micThread' = FALSE /\ micDevice' = 0
  /\ At("main", "idle")
  /\ UNCHANGED <<micLife, listed, stt, micStop, loop, made, hearing, heardVars>>

-----------------------------------------------------------------------------
(* _capture_loop.  stop() sets self._device to None, whatever the thread    *)
(* has reached: every step that uses it may raise.                          *)
Loop(at) == loop' = [loop EXCEPT !.at = at]

loopRest == <<micLife, op, stt, micStop, micThread, heardVars>>

LoopAgain ==
  /\ loop.at = "top"
  /\ Loop(IF micStop THEN "dead" ELSE "create")
  /\ UNCHANGED <<loopRest, listed, micDevice, made, hearing>>

CreateDevice ==
  /\ loop.at = "create" /\ made < MaxDevices
  /\ made' = made + 1
  /\ micDevice' = made'
  /\ Loop("list")
  /\ UNCHANGED <<loopRest, listed, hearing>>

CreateFails ==
  /\ loop.at = "create" \/ (loop.at = "list" /\ micDevice = 0)
  /\ listed' = "down"
  /\ Loop(IF micStop THEN "dead" ELSE "wait")
  /\ UNCHANGED <<loopRest, micDevice, made, hearing>>

ListDevice ==
  /\ loop.at = "list" /\ micDevice # 0
  /\ listed' = "up"
  /\ Loop("hook")
  /\ UNCHANGED <<loopRest, micDevice, made, hearing>>

\* callbacks.append is outside every try: the thread may die of it.
HookCallback ==
  /\ loop.at = "hook"
  /\ Loop(IF micDevice = 0 THEN "dead" ELSE "open")
  /\ UNCHANGED <<loopRest, listed, micDevice, made, hearing>>

\* device.start() sets the running flag, whoever has cleared it before.
OpenDevice ==
  /\ loop.at = "open"
  /\ IF micDevice = 0
     THEN Loop("after") /\ listed' = "down" /\ UNCHANGED hearing
     ELSE /\ loop' = [at |-> "run", device |-> micDevice]
          /\ hearing' = hearing \cup {micDevice}
          /\ UNCHANGED listed
  /\ UNCHANGED <<loopRest, micDevice, made>>

\* device.start() returns once the flag is cleared.  That of vosk raises
\* when the stream fails, and leaves the flag; that of deepgram tries again.
DeviceEnds ==
  /\ loop.at = "run"
  /\ \/ loop.device \notin hearing /\ UNCHANGED listed
     \/ stt = "vosk" /\ listed' = "down"
  /\ Loop("after")
  /\ UNCHANGED <<loopRest, micDevice, made, hearing>>

LoopEnds ==
  /\ loop.at \in {"after", "wait"}
  /\ Loop(IF micStop THEN "dead" ELSE IF loop.at = "after" THEN "wait" ELSE "top")
  /\ UNCHANGED <<loopRest, listed, micDevice, made, hearing>>

CaptureLoop ==
  \/ LoopAgain \/ CreateDevice \/ CreateFails \/ ListDevice \/ HookCallback
  \/ OpenDevice \/ DeviceEnds \/ LoopEnds

-----------------------------------------------------------------------------
(* A hotword, and the session it starts. *)
sessionRest == <<lifeVars, stt, micStop, micThread, loop, micDevice, made, hearing>>

Hotword ==
  /\ loop.at = "run" /\ loop.device \in hearing
  /\ loop.device \notin inTaskMode
  /\ Len(sessions) < MaxHotwords
  /\ inTaskMode' = inTaskMode \cup {loop.device}
  /\ sessions' = Append(sessions,
       [at |-> "called", on |-> loop.device, ear |-> 0, tries |-> 0,
        words |-> FALSE, waited |-> TRUE])
  /\ UNCHANGED <<sessionRest, forced, tasks, taken>>

\* on_hotword: self._device.listen(patience)
OnHotword(s) ==
  /\ sessions[s].at = "called"
  /\ sessions' = [sessions EXCEPT
       ![s].at = IF micDevice = 0 THEN "raised" ELSE "listening",
       ![s].ear = micDevice]
  /\ UNCHANGED <<sessionRest, inTaskMode, forced, tasks, taken>>

Sentence(s) ==
  /\ sessions[s].at = "listening" /\ sessions[s].ear \in hearing
  /\ sessions' = [sessions EXCEPT ![s].words = TRUE]
  /\ UNCHANGED <<sessionRest, inTaskMode, forced, tasks, taken>>

\* A connection of deepgram fails: what was heard is dropped, and the session
\* connects again, or is out of attempts and ends with what it has.
ConnectionFails(s) ==
  /\ stt = "deepgram" /\ sessions[s].at = "listening"
  /\ IF sessions[s].tries + 1 < Attempts
     THEN sessions' = [sessions EXCEPT ![s].tries = @ + 1, ![s].words = FALSE]
     ELSE sessions' = [sessions EXCEPT ![s].at = "heard"]
  /\ UNCHANGED <<sessionRest, inTaskMode, forced, tasks, taken>>

\* Silence, the time limit of deepgram, or the flag of the device.
ListenEnds(s) ==
  /\ sessions[s].at = "listening"
  /\ sessions' = [sessions EXCEPT ![s].at = "heard"]
  /\ UNCHANGED <<sessionRest, inTaskMode, forced, tasks, taken>>

Enqueue(s) ==
  /\ sessions[s].at = "heard"
  /\ sessions' = [sessions EXCEPT ![s].at = "over"]
  /\ tasks' = IF sessions[s].words THEN Append(tasks, <<"mic", s>>) ELSE tasks
  /\ UNCHANGED <<sessionRest, inTaskMode, forced, taken>>

\* mutant: task mode is left as soon as the callback has been started
ExitTaskMode_Early(s) ==
  /\ sessions[s].waited
  /\ inTaskMode' = inTaskMode \ {sessions[s].on}
  /\ sessions' = [sessions EXCEPT ![s].waited = FALSE]
  /\ UNCHANGED <<sessionRest, forced, tasks, taken>>

\* mutant: an error of the callback skips the exit
ExitTaskMode_NoFinally(s) ==
  /\ sessions[s].waited /\ sessions[s].at = "over"
  /\ inTaskMode' = inTaskMode \ {sessions[s].on}
  /\ sessions' = [sessions EXCEPT ![s].waited = FALSE]
  /\ UNCHANGED <<sessionRest, forced, tasks, taken>>

ExitTaskMode(s) ==
  /\ sessions[s].waited
  /\ \/ sessions[s].at \in {"over", "raised"} /\ UNCHANGED forced
     \/ /\ stt = "deepgram" /\ sessions[s].at \notin {"over", "raised"}
        /\ forced' = forced \cup {s}
  /\ inTaskMode' = inTaskMode \ {sessions[s].on}
  /\ sessions' = [sessions EXCEPT ![s].waited = FALSE]
  /\ UNCHANGED <<sessionRest, tasks, taken>>

Session(s) ==
  \/ OnHotword(s) \/ ConnectionFails(s) \/ ListenEnds(s) \/ Enqueue(s)
  \/ ExitTaskMode(s)

GetPendingTasks ==
  /\ listed # "down" /\ tasks # <<>>
  /\ taken' = taken \o tasks
  /\ tasks' = <<>>
  /\ UNCHANGED <<sessionRest, inTaskMode, sessions, forced>>

MicNext ==
  \/ LifeNext /\ UNCHANGED micVars
  \/ StartCapture \/ StopCapture \/ JoinCapture
  \/ CaptureLoop
  \/ Hotword
  \/ \E s \in DOMAIN sessions : Session(s) \/ Sentence(s)
  \/ GetPendingTasks

=============================================================================
