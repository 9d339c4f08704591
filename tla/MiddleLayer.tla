----------------------------- MODULE MiddleLayer -----------------------------
(* The background services of the middle layer as the container builds      *)
(* them: each is either the real one or a stub that does nothing            *)
(* (dependencies/__init__.py).  One of them is real here:                   *)
(*   "mic"     the microphone of the audio capture service (AudioCapture)   *)
(*   "calls"   its transcription of what clients send, while the microphone *)
(*             is not started (Transcribe)                                  *)
(*   "stream"  the hotword loop of the deepgram device (HotwordStream)      *)
(*   "camera"  one of the cameras (Cameras)                                 *)
(*   "state"   the ROS 2 state service (Ros2State)                          *)
(* with the lifespan of the server and, for the last two, the watcher       *)
(* (Lifespan).  What the services share is this thread of the lifespan and  *)
(* of the watcher; the speaker is in Speaker.tla.                           *)
EXTENDS Transcribe, HotwordStream, Cameras, Ros2State

VARIABLES
  real          \* the service that is not a stub

layerVars == <<real, lifeVars, micVars, callVars, streamVars, camVars, rosVars>>

Services == {"mic", "calls", "stream", "camera", "state"}

LayerTypeOK ==
  /\ real \in Services
  /\ LifeTypeOK
  /\ MicTypeOK /\ CallTypeOK /\ StreamTypeOK
  /\ CamTypeOK
  /\ RosTypeOK

Init ==
  /\ real \in Services
  /\ LifeInit
  /\ MicInit /\ CallInit /\ StreamInit
  /\ CamInit
  /\ RosInit
  /\ real \notin {"mic", "calls"} => stt = CHOOSE e \in STTEngines : TRUE
  /\ real # "camera" => kind = (CHOOSE k \in Kinds : TRUE) /\ plugged /\ ~device

-----------------------------------------------------------------------------
Microphone ==
  /\ real = "mic"
  /\ MicNext
  /\ UNCHANGED <<real, callVars, streamVars, camVars, rosVars>>

TranscribeCalls ==
  /\ real = "calls"
  /\ CallNext
  /\ UNCHANGED <<real, streamVars, camVars, rosVars>>

HotwordDevice ==
  /\ real = "stream"
  /\ StreamNext
  /\ UNCHANGED <<real, lifeVars, micVars, callVars, camVars, rosVars>>

Camera ==
  /\ real = "camera"
  /\ CamNext
  /\ UNCHANGED <<real, micVars, callVars, streamVars, rosVars>>

StateService ==
  /\ real = "state"
  /\ RosNext
  /\ UNCHANGED <<real, micVars, callVars, streamVars, camVars>>

Next ==
  \/ Microphone
  \/ TranscribeCalls
  \/ HotwordDevice
  \/ Camera
  \/ StateService

(* The threads are scheduled: the lifespan and the watcher go on, and the   *)
(* watcher polls for as long as the server serves; start() and stop() come  *)
(* to an end; a call on a device answers or fails; the room falls silent in *)
(* the end, so that a session of vosk, which has no time limit, ends too.   *)
(* Nobody has to say a hotword, to ask for anything, to unplug a device or  *)
(* to end the server.                                                       *)
CameraFairness ==
  /\ WF_<<lifeVars, camVars>>(real = "camera" /\ Poll(CamHealthy) /\ UNCHANGED camVars)
  /\ WF_<<lifeVars, camVars>>(real = "camera" /\ LifeGoesOn /\ UNCHANGED camVars)
  /\ \A a \in Actors : WF_<<lifeVars, camVars>>(real = "camera" /\ Service(a))
  /\ \A t \in Slots : WF_<<lifeVars, camVars>>(real = "camera" /\ Thread(t))

StateFairness ==
  /\ WF_<<lifeVars, rosVars>>(real = "state" /\ Poll(RosHealthy) /\ UNCHANGED rosVars)
  /\ WF_<<lifeVars, rosVars>>(real = "state" /\ LifeGoesOn /\ UNCHANGED rosVars)
  /\ \A a \in Actors : WF_<<lifeVars, rosVars>>(real = "state" /\ RosService(a))
  /\ \A r \in Places : WF_<<lifeVars, rosVars>>(real = "state" /\ (Get(r) \/ Store(r)))

MicFairness ==
  \A s \in 1..MaxHotwords :
    WF_<<lifeVars, micVars>>(real = "mic" /\ s \in DOMAIN sessions /\ Session(s))

DeviceFairness ==
  /\ WF_streamVars(real = "stream" /\ HotwordLoop)
  /\ WF_streamVars(real = "stream" /\ (SenderGets \/ SenderSends))

Spec ==
  /\ Init /\ [][Next]_layerVars
  /\ CameraFairness /\ StateFairness /\ MicFairness /\ DeviceFairness

-----------------------------------------------------------------------------
(* The commands the microphone heard are handed over in the order of their  *)
(* hotwords, once each: of two hotwords of one device the later one's       *)
(* command comes after the earlier one's, unless task mode was left before  *)
(* the callback of the later one had ended (deepgram waits 30 s for it).    *)
(* A drain of the list between two sessions does not change the order.      *)
CommandsInOrder ==
  \A i, j \in DOMAIN Commands :
    (i < j /\ Commands[i][1] = "mic" /\ Commands[j][1] = "mic") =>
      LET first == Commands[i][2]
          second == Commands[j][2]
      IN /\ first # second
         /\ (second < first /\ sessions[first].on = sessions[second].on) => second \in forced

(* A device that has entered task mode leaves it: whether the callback      *)
(* raises, is still listening, finds no device or loses its connection, the *)
(* device hears hotwords again.                                             *)
TaskModeEnds == \A d \in Devices : d \in inTaskMode ~> d \notin inTaskMode

(* A transcription puts its sentences into the list of commands once, and,  *)
(* with deepgram, only when its call answers with them.  The job of vosk    *)
(* may do so before its call answers, or after the call has answered 504 or *)
(* lost its client; never for a call that answers with an error.            *)
FailedCallLeavesNoTask ==
  \A c \in Calls :
    LET times == Cardinality({i \in DOMAIN Commands : Commands[i] = <<"call", c>>})
    IN /\ times <= 1
       /\ times = 1 => \/ call[c] = "ok"
                       \/ stt = "vosk" /\ call[c] \in {"working", "timeout", "gone"}

(* A permit of the semaphore is free or belongs to a call at work, and no   *)
(* call waits beside a free one: whether a call answers, fails, runs out of *)
(* time, or loses its client while it waits, while it holds the permit or   *)
(* right after it was handed one, it keeps none and gives back none it      *)
(* never had.                                                               *)
NoPermitIsLost ==
  /\ permits + Cardinality({c \in Calls : call[c] \in Busy}) = TranscribeMax
  /\ waiting # <<>> => permits = 0

(* While the server serves, a capture thread of the depth camera never runs *)
(* beside a frame of an earlier run.  A stop() whose pipeline.stop() raises *)
(* leaves the last frame in the buffer, with no thread and with the         *)
(* alignment still there; it is the start() of the next restart that clears *)
(* it before the new thread runs.                                           *)
FreshFrame == (phase = "serving" /\ kind = "depth" /\ Alive(thread)) => latest # "old"

(* A camera whose capture thread has died, or a subscriber process that is  *)
(* gone, is reported to the clients: the registry says so, unless it is     *)
(* running again or the server ends.                                        *)
DeadIsReported ==
  /\ (real = "camera" /\ phase = "serving" /\ ~Alive(thread))
       ~> (listed = "down" \/ Alive(thread) \/ phase # "serving")
  /\ (real = "state" /\ phase = "serving" /\ process \notin running)
       ~> (listed = "down" \/ process \in running \/ phase # "serving")

(* The state the tool answers with never goes back to an older message,     *)
(* whatever the queue drops and however often the process and the reader    *)
(* are replaced: no reader of an earlier run stores after a later one.      *)
StateNeverGoesBack == [][latestState' >= latestState]_layerVars

(* What was told to stop ends, from wherever it was: the hotword loop, in a *)
(* session, a reconnection or the wait between two of them, unless it is    *)
(* deaf; the capture threads of a camera and the reader threads once the    *)
(* server is down, unless the watcher was still in a restart, which may     *)
(* start them again, or a reader is stuck in its queue.                     *)
StopEnds ==
  /\ (real = "stream" /\ ~deviceOn) ~> (stage = "over" \/ Deaf)
  /\ (real = "camera" /\ phase = "down" /\ ~overrun) ~> \A t \in Slots : tpc[t] = "dead"
  /\ (real = "state" /\ phase = "down" /\ ~overrun)
       ~> \A r \in Places : reading[r].at \in {"dead", "stuck"}

=============================================================================
