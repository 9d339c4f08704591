-------------------------- MODULE LayerDevices_proofs --------------------------
(* Proofs about the two services of MiddleLayer that the watcher restarts,   *)
(* for any number of messages, crashes, faults and retries: the lifespan and *)
(* the watcher, the cameras, and the ROS 2 state service.                    *)
EXTENDS MiddleLayer, SequenceTheorems, TLAPS

-----------------------------------------------------------------------------
(* The lifespan and the watcher, whatever the service does inside its        *)
(* start() and stop().                                                       *)

\* A step of the service on a thread that is inside its start() or stop().
InService(a) ==
  /\ op[a] # "idle"
  /\ \E step : At(a, step)
  /\ listed' \in {listed, "up", "down"}
  /\ UNCHANGED <<phase, watcher, health, proven, tries, overrun>>

\* A step of a thread of the service, which may register it.
BesideService ==
  /\ listed' \in {listed, "up", "down"}
  /\ UNCHANGED <<phase, watcher, health, proven, tries, op, overrun>>

\* Every step is one of these to the lifespan and the watcher.
LifeStep ==
  \/ LifeNext
  \/ \E isHealthy : Poll(isHealthy)
  \/ \E a \in Actors : InService(a)
  \/ BesideService

\* Which thread can be where: the watcher is inside the service only in a
\* restart, the main thread only before it serves and once it is stopping.
LifeHolds ==
  /\ op["watcher"] # "idle" => watcher = "restart"
  /\ watcher = "off" <=> phase = "starting"
  /\ op["main"] # "idle" => phase \in {"starting", "stopping"}
  /\ watcher = "poll" => phase # "starting"

\* The lifespan, the watcher and the service keep the types.
LEMMA LifeTypes ==
  ASSUME LifeTypeOK, LifeStep
  PROVE  LifeTypeOK'
  <1>1. MaxRetries \in Nat /\ 0 \in 0..MaxRetries
    BY MaxRetriesAssumption
  <1>2. CASE LifeNext
    BY <1>2 DEF LifeTypeOK, LifeNext, Serve, Leave, StopService, Down, WatcherEnds,
                RestartEnds, At, Phases
  <1>3. ASSUME NEW isHealthy, Poll(isHealthy) PROVE LifeTypeOK'
    <2>1. FoundHealthy \/ TooEarly \/ GaveUp \/ Restart
      BY <1>3 DEF Poll
    <2>2. CASE FoundHealthy
      BY <1>1, <2>2 DEF LifeTypeOK, FoundHealthy
    <2>3. CASE TooEarly \/ GaveUp
      BY <2>3 DEF LifeTypeOK, TooEarly, GaveUp
    <2>4. CASE Restart
      BY <1>1, <2>4 DEF LifeTypeOK, Restart, At
    <2>5. QED
      BY <2>1, <2>2, <2>3, <2>4
  <1>4. CASE \E a \in Actors : InService(a)
    BY <1>4 DEF LifeTypeOK, InService, At
  <1>5. CASE BesideService
    BY <1>5 DEF LifeTypeOK, BesideService
  <1>6. QED
    BY <1>2, <1>3, <1>4, <1>5 DEF LifeStep

\* A step of one thread leaves the other where it is.
LEMMA OneThreadMoves ==
  ASSUME LifeTypeOK, NEW a \in Actors, NEW step, At(a, step)
  PROVE  /\ op'[a] = step
         /\ \A b \in Actors : b # a => op'[b] = op[b]
  BY DEF LifeTypeOK, At

\* The lifespan and the watcher take turns with the service.
LEMMA LifeKept ==
  ASSUME LifeTypeOK, LifeHolds, LifeStep
  PROVE  LifeHolds'
  <1>1. "main" \in Actors /\ "watcher" \in Actors
    BY DEF Actors
  <1>2. CASE Serve \/ Leave \/ Down \/ WatcherEnds \/ RestartEnds
    BY <1>2 DEF LifeHolds, Serve, Leave, Down, WatcherEnds, RestartEnds
  <1>3. CASE StopService
    BY <1>1, <1>3, OneThreadMoves DEF LifeHolds, StopService
  <1>4. ASSUME NEW isHealthy, Poll(isHealthy) PROVE LifeHolds'
    <2>1. CASE Restart
      BY <1>1, <1>4, <2>1, OneThreadMoves DEF LifeHolds, Poll, Restart
    <2>2. CASE FoundHealthy \/ TooEarly \/ GaveUp
      BY <2>2 DEF LifeHolds, FoundHealthy, TooEarly, GaveUp
    <2>3. QED
      BY <1>4, <2>1, <2>2 DEF Poll
  <1>5. ASSUME NEW a \in Actors, InService(a) PROVE LifeHolds'
    BY <1>1, <1>5, OneThreadMoves DEF LifeHolds, InService, Actors
  <1>6. CASE BesideService
    BY <1>6 DEF LifeHolds, BesideService
  <1>7. QED
    BY <1>2, <1>3, <1>4, <1>5, <1>6 DEF LifeStep, LifeNext

\* Once the service is being stopped it is never served again.
LEMMA NoWayBack ==
  ASSUME LifeTypeOK, LifeStep, phase \in {"stopping", "down"}
  PROVE  /\ phase' \in {"stopping", "down"}
         /\ watcher' = "restart" => watcher = "restart"
         /\ op["watcher"] = "idle" => op'["watcher"] = "idle"
  <1>1. "main" \in Actors /\ "watcher" \in Actors
    BY DEF Actors
  <1>2. CASE LifeNext
    BY <1>2 DEF LifeNext, Serve, Leave, StopService, Down, WatcherEnds, RestartEnds
  <1>3. CASE \E isHealthy : Poll(isHealthy)
    BY <1>3 DEF Poll
  <1>4. CASE \E a \in Actors : InService(a)
    BY <1>1, <1>4, OneThreadMoves DEF InService, Actors
  <1>5. CASE BesideService
    BY <1>5 DEF BesideService
  <1>6. QED
    BY <1>2, <1>3, <1>4, <1>5 DEF LifeStep

-----------------------------------------------------------------------------
(* The steps of the camera as the lifespan sees them.                        *)

\* A step inside start() or stop() of the camera.
LEMMA CameraInService ==
  ASSUME NEW a \in Actors, Service(a)
  PROVE  InService(a)
  <1>1. CASE Begin(a)
    BY <1>1 DEF Begin, InService, At, lifeRest
  <1>2. CASE Reach(a) \/ Unreachable(a) \/ ClearFrame(a) \/ Launch(a) \/ Tell(a)
    BY <1>2 DEF Reach, Unreachable, ClearFrame, Launch, Tell, InService, At, lifeRest
  <1>3. CASE Halt(a) \/ Forget(a)
    BY <1>3 DEF Halt, Forget, InService, At, lifeRest
  <1>4. CASE Join(a)
    BY <1>4 DEF Join, Raised, InService, At, lifeRest
  <1>5. CASE Teardown(a)
    BY <1>5 DEF Teardown, Raised, InService, At, lifeRest
  <1>6. QED
    BY <1>1, <1>2, <1>3, <1>4, <1>5 DEF Service

\* Every step of the camera is one to the lifespan and the watcher.
LEMMA CameraLife ==
  ASSUME CamNext
  PROVE  LifeStep
  <1>1. CASE CamWatch
    BY <1>1 DEF CamWatch, LifeStep
  <1>2. CASE \E a \in Actors : Service(a)
    BY <1>2, CameraInService DEF LifeStep
  <1>3. ASSUME NEW t \in Slots, Thread(t) PROVE LifeStep
    BY <1>3 DEF Thread, Open, LoopTop, Grabbed, NoFrame, Ends, threadRest, lifeRest,
                BesideService, LifeStep
  <1>4. CASE CaptureImage \/ GetLatestFrame \/ AlignFrame \/ Plug
    BY <1>4 DEF CaptureImage, GetLatestFrame, AlignFrame, Plug, lookRest, lifeVars,
                BesideService, LifeStep
  <1>5. QED
    BY <1>1, <1>2, <1>3, <1>4 DEF CamNext

\* A step inside start() or stop() of the state service.
LEMMA StateInService ==
  ASSUME NEW a \in Actors, RosService(a)
  PROVE  InService(a)
  <1>1. CASE StartUp(a) \/ Spawn(a) \/ StartReader(a) \/ StartFails(a)
    BY <1>1 DEF StartUp, Spawn, StartReader, StartFails, InService, At, rosLife
  <1>2. CASE TellReader(a) \/ JoinReader(a) \/ TellProcess(a) \/ Reap(a)
    BY <1>2 DEF TellReader, JoinReader, TellProcess, Reap, InService, At, rosLife
  <1>3. QED
    BY <1>1, <1>2 DEF RosService

\* Every step of the state service is one to the lifespan and the watcher.
LEMMA StateLife ==
  ASSUME RosNext
  PROVE  LifeStep
  <1>1. CASE RosWatch
    BY <1>1 DEF RosWatch, LifeStep
  <1>2. CASE \E a \in Actors : RosService(a)
    BY <1>2, StateInService DEF LifeStep
  <1>3. CASE RobotSends
    BY <1>3 DEF RobotSends, lifeVars, BesideService, LifeStep
  <1>4. ASSUME NEW r \in Places, ProcessEnds(r) \/ Get(r) \/ Store(r) PROVE LifeStep
    BY <1>4 DEF ProcessEnds, Get, Store, lifeVars, BesideService, LifeStep
  <1>5. QED
    BY <1>1, <1>2, <1>3, <1>4 DEF RosNext

\* The main thread is inside start() or stop() of the microphone.
LEMMA MicrophoneLife ==
  ASSUME MicNext
  PROVE  LifeStep
  <1>1. CASE LifeNext /\ UNCHANGED micVars
    BY <1>1 DEF LifeStep
  <1>2. CASE StartCapture \/ StopCapture \/ JoinCapture
    <2>1. InService("main")
      BY <1>2 DEF StartCapture, StopCapture, JoinCapture, InService, micLife, At
    <2>2. QED
      BY <2>1 DEF LifeStep, Actors
  <1>3. CASE CaptureLoop
    BY <1>3 DEF CaptureLoop, LoopAgain, CreateDevice, CreateFails, ListDevice, HookCallback,
                OpenDevice, DeviceEnds, LoopEnds, loopRest, micLife, BesideService, LifeStep
  <1>4. CASE Hotword \/ GetPendingTasks
    BY <1>4 DEF Hotword, GetPendingTasks, sessionRest, lifeVars, BesideService, LifeStep
  <1>5. ASSUME NEW s \in DOMAIN sessions, Session(s) \/ Sentence(s) PROVE LifeStep
    BY <1>5 DEF Session, OnHotword, ConnectionFails, ListenEnds, Enqueue, ExitTaskMode,
                Sentence, sessionRest, lifeVars, BesideService, LifeStep
  <1>6. QED
    BY <1>1, <1>2, <1>3, <1>4, <1>5 DEF MicNext

\* A call of transcribe_audio leaves all of it alone, whichever step it takes.
LEMMA CallsLife ==
  ASSUME CallNext
  PROVE  UNCHANGED <<lifeVars, stt, micStop, micThread, loop, micDevice, made, hearing,
                     inTaskMode, sessions, forced>>
  <1>1. ASSUME NEW c \in Calls, CallStep(c) PROVE UNCHANGED callRest
    BY <1>1 DEF CallStep, TranscribeAudio, JobStarts, JobEnds, CallGoesOn, ServiceAnswers,
                CallEnds, WaiterGone
  <1>2. QED
    BY <1>1 DEF CallNext, callRest, GetPendingTasks, sessionRest

\* Every step of the layer is one to the lifespan and the watcher.
LEMMA LayerLife ==
  ASSUME [Next]_layerVars
  PROVE  LifeStep
  <1>1. CASE Microphone
    BY <1>1, MicrophoneLife DEF Microphone
  <1>2. CASE TranscribeCalls
    BY <1>2, CallsLife DEF TranscribeCalls, lifeVars, LifeStep, BesideService
  <1>3. CASE HotwordDevice
    BY <1>3 DEF HotwordDevice, lifeVars, LifeStep, BesideService
  <1>4. CASE Camera
    BY <1>4, CameraLife DEF Camera
  <1>5. CASE StateService
    BY <1>5, StateLife DEF StateService
  <1>6. CASE UNCHANGED layerVars
    BY <1>6 DEF layerVars, lifeVars, LifeStep, BesideService
  <1>7. QED
    BY <1>1, <1>2, <1>3, <1>4, <1>5, <1>6 DEF Next

-----------------------------------------------------------------------------
(* The cameras.                                                              *)

\* The camera keeps its types.
LEMMA CameraTypes ==
  ASSUME LifeTypeOK, CamTypeOK, CamNext
  PROVE  CamTypeOK'
  <1> DEFINE Places1 == {"dead", "open", "closing", "top", "grab", "broken"}
             Look == [at : {"idle", "peek", "align", "failed", "answered"}, frame : Frames]
  <1>1. MaxFaults \in Nat
    BY FaultAssumption
  <1>2. \A t \in Slots, at \in Places1 : [tpc EXCEPT ![t] = at] \in [Slots -> Places1]
    BY DEF CamTypeOK
  <1>3. \A at \in {"failed", "peek", "align", "answered"}, f \in Frames : [at |-> at, frame |-> f] \in Look
    OBVIOUS
  <1>4. latest \in Frames /\ look.frame \in Frames /\ "none" \in Frames /\ "old" \in Frames /\ "fresh" \in Frames
    BY DEF CamTypeOK, Frames
  <1> USE DEF CamTypeOK
  <1> HIDE DEF Places1, Look
  <1>5. CASE CamWatch
    BY <1>5 DEF CamWatch, camVars
  <1>6. ASSUME NEW a \in Actors, Service(a) PROVE CamTypeOK'
    <2>1. CASE Begin(a)
      BY <1>6, <2>1 DEF Begin
    <2>2. CASE Reach(a) \/ Unreachable(a) \/ ClearFrame(a) \/ Tell(a) \/ Halt(a) \/ Forget(a)
      BY <1>4, <2>2 DEF Reach, Unreachable, ClearFrame, Tell, Halt, Forget, Unlocked
    <2>3. CASE Launch(a)
      <3>1. PICK t \in Slots : thread' = t /\ tpc' = [tpc EXCEPT ![t] = IF kind = "local" THEN "open" ELSE "top"]
        BY <2>3 DEF Launch
      <3>2. tpc' \in [Slots -> Places1]
        BY <1>2, <3>1 DEF Places1
      <3>3. latest' \in Frames /\ stopEvent' = FALSE
        BY <1>4, <2>3 DEF Launch
      <3>4. QED
        BY <2>3, <3>1, <3>2, <3>3 DEF Launch, Places1
    <2>4. CASE Join(a)
      BY <2>4 DEF Join
    <2>5. CASE Teardown(a)
      <3>1. [t \in Slots |-> IF tpc[t] \in {"top", "grab"} THEN "broken" ELSE tpc[t]] \in [Slots -> Places1]
        BY DEF Places1
      <3>2. tpc' \in [Slots -> Places1] /\ device' \in BOOLEAN /\ align' \in BOOLEAN
        BY <2>5, <3>1 DEF Teardown, Places1
      <3>3. QED
        BY <2>5, <3>2 DEF Teardown, Places1
    <2>6. QED
      BY <1>6, <2>1, <2>2, <2>3, <2>4, <2>5 DEF Service
  <1>7. ASSUME NEW t \in Slots, Thread(t) PROVE CamTypeOK'
    <2>1. \E at \in Places1 : tpc' = [tpc EXCEPT ![t] = at]
      BY <1>7 DEF Thread, Open, LoopTop, Grabbed, NoFrame, Ends, Places1
    <2>2. tpc' \in [Slots -> Places1]
      BY <1>2, <2>1
    <2>3. device' \in BOOLEAN /\ latest' \in Frames /\ UNCHANGED threadRest
      BY <1>4, <1>7 DEF Thread, Open, LoopTop, Grabbed, NoFrame, Ends
    <2>4. QED
      BY <2>2, <2>3 DEF threadRest, Places1
  <1>8. CASE CaptureImage \/ GetLatestFrame \/ AlignFrame
    <2>1. look' \in Look /\ UNCHANGED lookRest
      BY <1>3, <1>4, <1>8 DEF CaptureImage, GetLatestFrame, AlignFrame, Looked
    <2>2. QED
      BY <2>1 DEF lookRest, Look
  <1>9. CASE Plug
    BY <1>1, <1>9 DEF Plug
  <1>10. QED
    BY <1>5, <1>6, <1>7, <1>8, <1>9 DEF CamNext

\* Before the service is told to stop for good.
Early == phase \in {"starting", "serving", "leaving"}

\* Only the local camera is opened by its thread.
OpenIsLocal == \A t \in Slots : tpc[t] = "open" => kind = "local"

\* What holds of the other two until then: the only capture thread that lives
\* is the current one, it has its device, and start() and stop() are inside
\* only while there is none, so that it begins with an empty buffer.
CaptureHolds ==
  /\ \A t \in Slots : tpc[t] # "dead" => t = thread
  /\ kind = "depth" /\ Alive(thread) => device
  /\ \A a \in Actors :
       /\ op[a] \notin {"idle", "tell"} => ~Alive(thread)
       /\ op[a] \in {"clear", "launch"} /\ kind = "depth" => device
       /\ op[a] = "launch" => latest = "none"
  /\ Alive(thread) => latest # "old"

CameraHolds ==
  /\ OpenIsLocal
  /\ real # "camera" => thread = 0
  /\ real = "camera" /\ kind # "local" /\ Early => CaptureHolds

\* Before the end, one thread at most is inside the service.
LEMMA OneInside ==
  ASSUME LifeHolds, Early, NEW a \in Actors, NEW b \in Actors, a # b, op[a] # "idle"
  PROVE  op[b] = "idle"
  BY DEF LifeHolds, Early, Actors

\* Opening is left to the local camera's thread.
LEMMA OpenKept ==
  ASSUME CamTypeOK, OpenIsLocal, CamNext
  PROVE  OpenIsLocal'
  <1> USE DEF CamTypeOK, OpenIsLocal
  <1>1. CASE CamWatch
    BY <1>1 DEF CamWatch, camVars
  <1>2. ASSUME NEW a \in Actors, Service(a) PROVE OpenIsLocal'
    <2>1. CASE Launch(a)
      BY <2>1 DEF Launch
    <2>2. CASE Teardown(a)
      BY <2>2 DEF Teardown
    <2>3. CASE ~Launch(a) /\ ~Teardown(a)
      BY <1>2, <2>3 DEF Service, Begin, Reach, Unreachable, ClearFrame, Tell, Halt, Join, Forget
    <2>4. QED
      BY <2>1, <2>2, <2>3
  <1>3. ASSUME NEW t \in Slots, Thread(t) PROVE OpenIsLocal'
    BY <1>3 DEF Thread, Open, LoopTop, Grabbed, NoFrame, Ends, threadRest
  <1>4. CASE CaptureImage \/ GetLatestFrame \/ AlignFrame \/ Plug
    BY <1>4 DEF CaptureImage, GetLatestFrame, AlignFrame, Plug, lookRest
  <1>5. QED
    BY <1>1, <1>2, <1>3, <1>4 DEF CamNext

\* start() and stop() of the depth camera and of the robot's.
LEMMA CaptureKeptByService ==
  ASSUME LifeTypeOK, CamTypeOK, LifeHolds, CaptureHolds, Early, kind # "local",
         NEW a \in Actors, Service(a)
  PROVE  CaptureHolds'
  <1>1. op[a] # "idle" /\ \E step : At(a, step)
    BY CameraInService DEF InService
  <1>2. \A b \in Actors : b # a => op[b] = "idle" /\ op'[b] = "idle"
    BY <1>1, OneInside, OneThreadMoves
  <1>3. \A step : At(a, step) => op'[a] = step
    BY OneThreadMoves
  <1>4. op[a] # "tell" => ~Alive(thread)
    BY <1>1 DEF CaptureHolds
  <1>5. kind' = kind
    BY DEF Service, Begin, Reach, Unreachable, ClearFrame, Launch, Tell, Halt, Join, Teardown, Forget
  <1> DEFINE Rest ==
        /\ \A t \in Slots : tpc'[t] # "dead" => t = thread'
        /\ kind = "depth" /\ Alive(thread)' => device'
        /\ op'[a] \notin {"idle", "tell"} => ~Alive(thread)'
        /\ op'[a] \in {"clear", "launch"} /\ kind = "depth" => device'
        /\ op'[a] = "launch" => latest' = "none"
        /\ Alive(thread)' => latest' # "old"
  <1>6. SUFFICES Rest
    BY <1>2, <1>5 DEF CaptureHolds
  <1>7. CASE Begin(a)
    BY <1>3, <1>4, <1>7 DEF Begin, Alive, CaptureHolds
  <1>8. CASE Reach(a) \/ Unreachable(a) \/ ClearFrame(a) \/ Forget(a)
    BY <1>3, <1>4, <1>8 DEF Reach, Unreachable, ClearFrame, Forget, Alive, AfterStop, CaptureHolds
  <1>9. CASE Launch(a)
    <2>1. \A t \in Slots : tpc[t] = "dead"
      BY <1>4, <1>9 DEF Launch, Alive, CaptureHolds, Slots
    <2>2. latest = "none" /\ (kind = "depth" => device)
      BY <1>9 DEF Launch, CaptureHolds
    <2>3. PICK t \in Slots : thread' = t /\ tpc' = [tpc EXCEPT ![t] = "top"]
      BY <1>9 DEF Launch
    <2>4. tpc'[t] = "top" /\ \A u \in Slots : u # t => tpc'[u] = "dead"
      BY <2>1, <2>3 DEF CamTypeOK
    <2>5. op'[a] = "tell" /\ latest' = "none" /\ device' = device
      BY <1>3, <1>9, <2>2 DEF Launch
    <2>6. QED
      BY <2>2, <2>3, <2>4, <2>5
  <1>10. CASE Tell(a)
    BY <1>3, <1>10 DEF Tell, Alive, CaptureHolds
  <1>11. CASE Halt(a)
    BY <1>3, <1>4, <1>11 DEF Halt, Alive, AfterStop, CaptureHolds
  <1>12. CASE Join(a)
    BY <1>3, <1>4, <1>12 DEF Join, Raised, Alive, AfterStop, CaptureHolds
  <1>13. CASE Teardown(a)
    BY <1>3, <1>4, <1>13 DEF Teardown, Raised, Alive, CaptureHolds, CamTypeOK
  <1>14. QED
    BY <1>7, <1>8, <1>9, <1>10, <1>11, <1>12, <1>13 DEF Service

\* Their capture threads.
LEMMA CaptureKeptByThread ==
  ASSUME CamTypeOK, OpenIsLocal, CaptureHolds, kind # "local", NEW t \in Slots, Thread(t)
  PROVE  CaptureHolds'
  <1>1. UNCHANGED <<op, kind, thread>>
    BY DEF Thread, Open, LoopTop, Grabbed, NoFrame, Ends, threadRest
  <1>2. tpc[t] # "dead" /\ \A u \in Slots : u # t => tpc'[u] = tpc[u]
    BY DEF Thread, Open, LoopTop, Grabbed, NoFrame, Ends, CamTypeOK
  <1>3. t = thread /\ Alive(thread) /\ t # 0
    BY <1>2 DEF CaptureHolds, Alive, Slots
  <1>4. device' = device /\ latest' \in {latest, "fresh"}
    BY <1>3 DEF Thread, Open, LoopTop, Grabbed, NoFrame, Ends, OpenIsLocal, CaptureHolds
  <1>5. QED
    BY <1>1, <1>2, <1>3, <1>4 DEF CaptureHolds, Alive

\* The lifespan and the watcher: only a camera that has died is restarted.
LEMMA CaptureKeptByWatch ==
  ASSUME LifeTypeOK, LifeHolds, CaptureHolds, Early', CamWatch
  PROVE  CaptureHolds'
  <1>1. "main" \in Actors /\ "watcher" \in Actors
    BY DEF Actors
  <1>2. UNCHANGED camVars
    BY DEF CamWatch
  <1>3. CASE UNCHANGED op
    BY <1>2, <1>3 DEF CaptureHolds, Alive, camVars
  <1>4. CASE Poll(CamHealthy) /\ Restart
    <2>1. ~Alive(thread)
      BY <1>4 DEF Poll, CamHealthy, CaptureHolds, Restart, FoundHealthy, At
    <2>2. op'["watcher"] = "stop" /\ \A b \in Actors : b # "watcher" => op'[b] = op[b]
      BY <1>1, <1>4, OneThreadMoves DEF Restart
    <2>3. QED
      BY <1>2, <2>1, <2>2 DEF CaptureHolds, Alive, camVars
  <1>5. UNCHANGED op \/ (Poll(CamHealthy) /\ Restart)
    BY DEF CamWatch, LifeNext, Serve, Leave, StopService, Down, WatcherEnds, RestartEnds,
           Poll, FoundHealthy, TooEarly, GaveUp, Early
  <1>6. QED
    BY <1>3, <1>4, <1>5

\* The cameras' invariant, in every step of the layer.
LEMMA CameraKept ==
  ASSUME LifeTypeOK, CamTypeOK, LifeHolds, CameraHolds, [Next]_layerVars
  PROVE  CamTypeOK' /\ CameraHolds'
  <1>1. LifeStep
    BY LayerLife
  <1>2. Early' => Early
    BY <1>1, NoWayBack DEF Early, LifeTypeOK, Phases
  <1>3. CASE real = "camera" /\ CamNext /\ real' = real
    <2>1. CamTypeOK' /\ OpenIsLocal'
      BY <1>3, CameraTypes, OpenKept DEF CameraHolds
    <2>2. kind' = kind
      BY <1>3 DEF CamNext, CamWatch, camVars, Service, Begin, Reach, Unreachable, ClearFrame,
                  Launch, Tell, Halt, Join, Teardown, Forget, Thread, Open, LoopTop, Grabbed,
                  NoFrame, Ends, threadRest, CaptureImage, GetLatestFrame, AlignFrame, lookRest,
                  Plug
    <2>3. ASSUME kind # "local", Early' PROVE CaptureHolds'
      <3>1. Early /\ CaptureHolds
        BY <1>2, <1>3, <2>3 DEF CameraHolds
      <3>2. CASE CamWatch
        BY <2>3, <3>1, <3>2, CaptureKeptByWatch
      <3>3. CASE \E a \in Actors : Service(a)
        BY <2>3, <3>1, <3>3, CaptureKeptByService
      <3>4. CASE \E t \in Slots : Thread(t)
        BY <2>3, <3>1, <3>4, CaptureKeptByThread DEF CameraHolds
      <3>5. CASE CaptureImage \/ GetLatestFrame \/ AlignFrame \/ Plug
        BY <3>1, <3>5 DEF CaptureImage, GetLatestFrame, AlignFrame, Plug, lookRest, lifeVars,
                          CaptureHolds, Alive
      <3>6. QED
        BY <1>3, <3>2, <3>3, <3>4, <3>5 DEF CamNext
    <2>4. QED
      BY <1>3, <2>1, <2>2, <2>3 DEF CameraHolds
  <1>4. CASE real' = real /\ UNCHANGED camVars /\ (real # "camera" \/ UNCHANGED layerVars)
    <2>1. CamTypeOK' /\ OpenIsLocal'
      BY <1>4 DEF CamTypeOK, CameraHolds, OpenIsLocal, camVars
    <2>2. real # "camera" => thread' = 0
      BY <1>4 DEF CameraHolds, camVars
    <2>3. UNCHANGED layerVars /\ CaptureHolds => CaptureHolds'
      BY DEF layerVars, lifeVars, camVars, CaptureHolds, Alive
    <2>4. QED
      BY <1>2, <1>4, <2>1, <2>2, <2>3 DEF CameraHolds, camVars
  <1>5. QED
    BY <1>3, <1>4 DEF Next, Camera, Microphone, TranscribeCalls, HotwordDevice, StateService,
                      layerVars

\* No frame of an earlier run is beside a capture thread that runs.
LEMMA FramesAreFresh ==
  ASSUME CameraHolds
  PROVE  FreshFrame
  BY DEF CameraHolds, CaptureHolds, FreshFrame, Early, Alive

-----------------------------------------------------------------------------
(* The ROS 2 state service.                                                  *)

ReaderAt == [at : {"dead", "get", "store", "stuck"}, took : 0..MaxStamp]

\* The subscriber's put, which makes room when the queue is full.
LEMMA QueuePut ==
  ASSUME NEW S, NEW q \in Seq(S), Len(q) <= QueueSize, NEW x \in S,
         NEW r, r = Append(IF Len(q) < QueueSize THEN q ELSE Tail(q), x)
  PROVE  /\ r \in Seq(S) /\ Len(r) \in Nat \ {0} /\ Len(r) <= QueueSize
         /\ r[Len(r)] = x
         /\ \E lost \in {0, 1} :
              \A i \in 1..Len(r) - 1 : i + lost \in 1..Len(q) /\ r[i] = q[i + lost]
  <1>1. QueueSize \in Nat /\ QueueSize >= 1 /\ Len(q) \in Nat
    BY QueueAssumption, LenProperties
  <1>2. CASE Len(q) < QueueSize
    <2>1. /\ r \in Seq(S) /\ Len(r) = Len(q) + 1
          /\ \A i \in 1..Len(q) : r[i] = q[i]
          /\ r[Len(q) + 1] = x
      BY <1>2, AppendProperties
    <2>2. Len(r) - 1 = Len(q) /\ \A i \in 1..Len(q) : i + 0 = i
      BY <1>1, <2>1
    <2>3. QED
      BY <1>1, <1>2, <2>1, <2>2
  <1>3. CASE ~(Len(q) < QueueSize)
    <2> DEFINE t == Tail(q)
    <2>1. q # << >>
      BY <1>1, <1>3, EmptySeq
    <2>2. /\ t \in Seq(S) /\ Len(t) = Len(q) - 1
          /\ \A i \in 1..Len(t) : t[i] = q[i + 1]
      BY <2>1, HeadTailProperties
    <2>3. r = Append(t, x)
      BY <1>3
    <2> HIDE DEF t
    <2>4. /\ r \in Seq(S) /\ Len(r) = Len(t) + 1
          /\ \A i \in 1..Len(t) : r[i] = t[i]
          /\ r[Len(t) + 1] = x
      BY <2>2, <2>3, AppendProperties
    <2>5. Len(r) = Len(q) /\ Len(r) - 1 = Len(t) /\ Len(r) \in Nat \ {0}
      BY <1>1, <1>3, <2>2, <2>4
    <2>6. \A i \in 1..Len(r) - 1 : i + 1 \in 1..Len(q) /\ r[i] = q[i + 1]
      BY <1>1, <2>2, <2>4, <2>5
    <2>7. QED
      BY <1>1, <1>3, <2>4, <2>5, <2>6
  <1>4. QED
    BY <1>2, <1>3

\* What it does to an order of the messages.
LEMMA QueuePutOrder ==
  ASSUME NEW q \in Seq(Nat), Len(q) <= QueueSize, NEW x \in Nat,
         NEW r, r = Append(IF Len(q) < QueueSize THEN q ELSE Tail(q), x),
         \A i \in 1..Len(q) : q[i] <= x,
         \A i, j \in 1..Len(q) : i < j => q[i] <= q[j]
  PROVE  /\ \A i \in 1..Len(r) : r[i] = x \/ \E j \in 1..Len(q) : r[i] = q[j]
         /\ \A i, j \in 1..Len(r) : i < j => r[i] <= r[j]
  <1>1. Len(r) \in Nat \ {0} /\ r[Len(r)] = x
    BY QueuePut
  <1>2. PICK lost \in {0, 1} :
          \A i \in 1..Len(r) - 1 : i + lost \in 1..Len(q) /\ r[i] = q[i + lost]
    BY QueuePut
  <1>3. \A i \in 1..Len(r) : r[i] = x \/ \E j \in 1..Len(q) : r[i] = q[j]
    <2>1. \A i \in 1..Len(r) : i = Len(r) \/ i \in 1..Len(r) - 1
      BY <1>1
    <2>2. QED
      BY <1>1, <1>2, <2>1
  <1>4. ASSUME NEW i \in 1..Len(r), NEW j \in 1..Len(r), i < j PROVE r[i] <= r[j]
    <2> DEFINE n == Len(r)
    <2>0. n \in Nat /\ i \in 1..n /\ j \in 1..n
      BY <1>1
    <2> HIDE DEF n
    <2>a. i \in 1..n - 1 /\ (j # n => j \in 1..n - 1)
      BY <1>4, <2>0
    <2>1. i + lost \in 1..Len(q) /\ r[i] = q[i + lost]
      BY <1>2, <2>a DEF n
    <2>2. CASE j = Len(r)
      BY <1>1, <2>1, <2>2
    <2>3. CASE j # Len(r)
      <3>1. j \in 1..Len(r) - 1 /\ j + lost \in 1..Len(q) /\ r[j] = q[j + lost]
        BY <1>2, <2>3, <2>a DEF n
      <3>2. i + lost < j + lost
        BY <1>4, <2>0
      <3>3. QED
        BY <2>1, <3>1, <3>2
    <2>4. QED
      BY <2>2, <2>3
  <1>5. QED
    BY <1>3, <1>4

\* The reader's get: the head, and what is left.
LEMMA QueueGet ==
  ASSUME NEW S, NEW q \in Seq(S), q # << >>
  PROVE  /\ 1 \in 1..Len(q) /\ Head(q) = q[1] /\ q[1] \in S
         /\ Tail(q) \in Seq(S) /\ Len(Tail(q)) <= Len(q)
         /\ \A i \in 1..Len(Tail(q)) : i + 1 \in 1..Len(q) /\ 1 < i + 1 /\ Tail(q)[i] = q[i + 1]
  <1>1. Len(q) \in Nat /\ Len(q) # 0
    BY LenProperties, EmptySeq
  <1>2. Head(q) = q[1] /\ q[1] \in S
    BY <1>1, ElementOfSeq
  <1>3. /\ Tail(q) \in Seq(S) /\ Len(Tail(q)) = Len(q) - 1
        /\ \A i \in 1..Len(Tail(q)) : Tail(q)[i] = q[i + 1]
    BY HeadTailProperties
  <1>4. QED
    BY <1>1, <1>2, <1>3

\* The state service keeps its types.
LEMMA StateTypes ==
  ASSUME RosTypeOK, RosNext
  PROVE  RosTypeOK'
  <1>1. MaxStamp \in Nat /\ MaxCrashes \in Nat /\ 0 \in 0..MaxStamp
    BY StampAssumption
  <1>2. \A r, x : x \in ReaderAt => [reading EXCEPT ![r] = x] \in [Places -> ReaderAt]
    BY DEF RosTypeOK, ReaderAt
  <1>3. << >> \in Seq(1..MaxStamp) /\ Len(<< >>) = 0 /\ 0 <= QueueSize
    BY QueueAssumption, EmptySeq
  <1>4. /\ NotReading \in ReaderAt
        /\ \A n \in 0..MaxStamp : [at |-> "get", took |-> n] \in ReaderAt /\ [at |-> "store", took |-> n] \in ReaderAt
        /\ \A x \in ReaderAt : [x EXCEPT !.at = "stuck"] \in ReaderAt
        /\ \A x \in ReaderAt : x.took \in 0..MaxStamp
    BY <1>1 DEF ReaderAt, NotReading
  <1> DEFINE Rest == /\ initialized \in BOOLEAN /\ readerStop \in BOOLEAN
                     /\ process \in Places \cup {0} /\ reader \in Places \cup {0}
                     /\ running \subseteq Places /\ told \subseteq Places
                     /\ latestState \in 0..MaxStamp /\ stamp \in 0..MaxStamp
                     /\ crashes \in 0..MaxCrashes
             Q == queue \in Seq(1..MaxStamp) /\ Len(queue) <= QueueSize
             R == reading \in [Places -> ReaderAt]
  <1>5. Rest /\ Q /\ R
    BY DEF RosTypeOK, ReaderAt
  <1>6. SUFFICES Rest' /\ Q' /\ R'
    BY DEF RosTypeOK, ReaderAt
  <1> HIDE DEF ReaderAt
  <1>7. CASE RosWatch
    BY <1>5, <1>7 DEF RosWatch, rosVars
  <1>8. ASSUME NEW a \in Actors, RosService(a) PROVE Rest' /\ Q' /\ R'
    <2>1. CASE StartUp(a)
      BY <1>5, <2>1 DEF StartUp, rosVars
    <2>2. CASE Spawn(a)
      BY <1>3, <1>5, <2>2 DEF Spawn
    <2>3. CASE StartReader(a)
      <3>1. [at |-> "get", took |-> 0] \in ReaderAt
        BY <1>1, <1>4
      <3>2. R'
        BY <1>2, <2>3, <3>1 DEF StartReader
      <3>3. Rest' /\ Q'
        BY <1>5, <2>3 DEF StartReader
      <3>4. QED
        BY <3>2, <3>3
    <2>4. CASE StartFails(a)
      BY <1>1, <1>5, <2>4 DEF StartFails
    <2>5. CASE TellReader(a) \/ JoinReader(a) \/ TellProcess(a) \/ Reap(a)
      BY <1>3, <1>5, <2>5 DEF TellReader, JoinReader, TellProcess, Reap
    <2>6. QED
      BY <1>8, <2>1, <2>2, <2>3, <2>4, <2>5 DEF RosService
  <1>9. CASE RobotSends
    <2>1. stamp' \in 1..MaxStamp /\ stamp' \in 0..MaxStamp
      BY <1>1, <1>5, <1>9 DEF RobotSends
    <2>2. Q'
      <3>1. CASE UNCHANGED queue
        BY <1>5, <3>1
      <3>2. CASE queue' = Append(IF Len(queue) < QueueSize THEN queue ELSE Tail(queue), stamp')
        <4>1. queue \in Seq(1..MaxStamp) /\ Len(queue) <= QueueSize
          BY <1>5
        <4>2. QED
          BY <2>1, <3>2, <4>1, QueuePut
      <3>3. QED
        BY <1>9, <3>1, <3>2 DEF RobotSends
    <2>3. QED
      BY <1>5, <1>9, <2>1, <2>2 DEF RobotSends
  <1>10. ASSUME NEW p \in Places, ProcessEnds(p) PROVE Rest' /\ Q' /\ R'
    <2>1. Rest' /\ Q'
      BY <1>1, <1>5, <1>10 DEF ProcessEnds
    <2>2. UNCHANGED reading \/ (reader \in Places /\ reading' = [reading EXCEPT ![reader].at = "stuck"])
      BY <1>5, <1>10 DEF ProcessEnds
    <2>3. CASE reader \in Places /\ reading' = [reading EXCEPT ![reader].at = "stuck"]
      <3>1. reading' = [reading EXCEPT ![reader] = [reading[reader] EXCEPT !.at = "stuck"]]
        BY <2>3
      <3>2. [reading[reader] EXCEPT !.at = "stuck"] \in ReaderAt
        BY <1>4, <1>5, <2>3
      <3>3. QED
        BY <1>2, <2>1, <3>1, <3>2
    <2>4. QED
      BY <1>5, <2>1, <2>2, <2>3
  <1>11. ASSUME NEW r \in Places, Get(r) PROVE Rest' /\ Q' /\ R'
    <2>1. CASE readerStop
      BY <1>2, <1>4, <1>5, <1>11, <2>1 DEF Get
    <2>2. CASE ~readerStop
      <3>1. queue # << >>
        BY <1>11, <2>2 DEF Get
      <3>2. Head(queue) \in 0..MaxStamp /\ Tail(queue) \in Seq(1..MaxStamp) /\ Len(Tail(queue)) <= QueueSize
        <4>1. /\ Head(queue) \in 1..MaxStamp
              /\ Tail(queue) \in Seq(1..MaxStamp) /\ Len(Tail(queue)) <= Len(queue)
          BY <1>5, <3>1, QueueGet
        <4>2. Len(queue) \in Nat /\ Len(Tail(queue)) \in Nat /\ QueueSize \in Nat
          BY <1>5, <4>1, QueueAssumption, LenProperties
        <4>3. QED
          BY <1>1, <1>5, <4>1, <4>2
      <3>3. [at |-> "store", took |-> Head(queue)] \in ReaderAt
        BY <1>4, <3>2
      <3>4. R'
        BY <1>2, <1>11, <2>2, <3>3 DEF Get
      <3>5. Rest' /\ Q'
        BY <1>5, <1>11, <2>2, <3>2 DEF Get
      <3>6. QED
        BY <3>4, <3>5
    <2>3. QED
      BY <2>1, <2>2
  <1>12. ASSUME NEW r \in Places, Store(r) PROVE Rest' /\ Q' /\ R'
    <2>1. [at |-> "get", took |-> 0] \in ReaderAt /\ reading[r].took \in 0..MaxStamp
      BY <1>1, <1>4, <1>5
    <2>2. R'
      BY <1>2, <1>12, <2>1 DEF Store
    <2>3. Rest' /\ Q'
      BY <1>5, <1>12, <2>1 DEF Store
    <2>4. QED
      BY <2>2, <2>3
  <1>13. QED
    BY <1>7, <1>8, <1>9, <1>10, <1>11, <1>12 DEF RosNext

\* A reader thread that may still store a message.
Active(r) == reading[r].at \in {"get", "store"}

Quiet == \A r \in Places : ~Active(r)

\* The service is being stopped for good, and nobody will start it again.
Closing == phase \in {"stopping", "down"} /\ op["watcher"] = "idle"

\* One reader at most is active, and it is the current one until the end; a
\* new one comes only after the last has been joined.
ReadersHold ==
  /\ \A r, s \in Places : Active(r) /\ Active(s) => r = s
  /\ \A r \in Places : Active(r) => r = reader \/ Closing
  /\ ~initialized => Quiet \/ Closing
  /\ \A a \in Actors :
       /\ op[a] \in {"end", "reap"} => Quiet \/ Closing
       /\ op[a] = "join" => readerStop \/ Closing
       /\ op[a] \in {"spawn", "read"} => Quiet
  /\ op["main"] \in {"start", "spawn", "read"} => phase = "starting"

\* The messages come in their order: the state, the one a reader has taken,
\* the queue, the ones not yet sent.
StampOrder ==
  /\ latestState <= stamp
  /\ \A i \in 1..Len(queue) : latestState <= queue[i] /\ queue[i] <= stamp
  /\ \A i, j \in 1..Len(queue) : i < j => queue[i] <= queue[j]
  /\ \A r \in Places : reading[r].at = "store" =>
       /\ latestState <= reading[r].took /\ reading[r].took <= stamp
       /\ \A i \in 1..Len(queue) : reading[r].took <= queue[i]

\* Nobody reopens what is being closed.
LEMMA ClosingLasts ==
  ASSUME LifeTypeOK, LifeStep, Closing
  PROVE  Closing'
  BY NoWayBack DEF Closing

\* The start() and stop() of the service and its readers.
LEMMA ReadersKeptByService ==
  ASSUME LifeTypeOK, LifeHolds, RosTypeOK, ReadersHold, NEW a \in Actors, RosService(a)
  PROVE  ReadersHold'
  <1>1. op[a] # "idle" /\ LifeStep /\ UNCHANGED <<phase, watcher>>
    BY StateInService DEF InService, LifeStep
  <1>2. Closing => Closing'
    BY <1>1, ClosingLasts
  <1>3. \A b \in Actors : b # a => op'[b] = op[b]
    BY StateInService, OneThreadMoves DEF InService
  <1>4. \A step : At(a, step) => op'[a] = step
    BY OneThreadMoves
  <1>5. a \in {"main", "watcher"} /\ "main" \in Actors /\ "watcher" \in Actors
    BY DEF Actors
  <1>6. /\ \A r, s \in Places : Active(r) /\ Active(s) => r = s
        /\ \A r \in Places : Active(r) => r = reader \/ Closing
        /\ ~initialized => Quiet \/ Closing
        /\ \A b \in Actors : op[b] \in {"end", "reap"} => Quiet \/ Closing
        /\ \A b \in Actors : op[b] = "join" => readerStop \/ Closing
        /\ \A b \in Actors : op[b] \in {"spawn", "read"} => Quiet
        /\ op["main"] \in {"start", "spawn", "read"} => phase = "starting"
    BY DEF ReadersHold
  <1>7. ASSUME UNCHANGED reading PROVE (Quiet => Quiet') /\ \A r \in Places : Active(r)' <=> Active(r)
    BY <1>7 DEF Quiet, Active
  <1>8. CASE StartUp(a)
    <2>1. UNCHANGED rosVars /\ op'[a] = IF initialized THEN "idle" ELSE "spawn"
      BY <1>4, <1>8 DEF StartUp
    <2>2. ~Closing /\ op[a] = "start"
      BY <1>1, <1>5, <1>6, <1>8 DEF StartUp, Closing
    <2>3. op'["main"] \in {"start", "spawn", "read"} => phase' = "starting"
      BY <1>1, <1>3, <1>5, <1>6, <2>1, <2>2
    <2>4. QED
      BY <1>2, <1>3, <1>6, <1>7, <2>1, <2>2, <2>3 DEF ReadersHold, rosVars
  <1>9. CASE Spawn(a)
    <2>1. UNCHANGED <<initialized, reader, readerStop, reading>> /\ op'[a] = "read" /\ op[a] = "spawn"
      BY <1>4, <1>9 DEF Spawn
    <2>2. QED
      BY <1>1, <1>2, <1>3, <1>5, <1>6, <1>7, <2>1 DEF ReadersHold
  <1>10. CASE StartReader(a)
    <2>1. op[a] = "read" /\ op'[a] = "idle" /\ initialized' = TRUE /\ Quiet
      BY <1>4, <1>6, <1>10 DEF StartReader
    <2>2. PICK r \in Places : reader' = r /\ reading' = [reading EXCEPT ![r] = [at |-> "get", took |-> 0]]
      BY <1>10 DEF StartReader
    <2>3. \A s \in Places : Active(s)' => s = r
      BY <2>1, <2>2 DEF Quiet, Active, RosTypeOK
    <2>4. op'["watcher"] = "idle" /\ (op'["main"] = "idle" \/ (op'["main"] = op["main"] /\ op["watcher"] # "idle"))
      <3>1. CASE a = "main"
        <4>1. op["watcher"] = "idle" /\ "watcher" # a
          BY <1>6, <2>1, <3>1 DEF LifeHolds
        <4>2. op'["watcher"] = op["watcher"]
          BY <1>3, <1>5, <4>1
        <4>3. QED
          BY <2>1, <3>1, <4>1, <4>2
      <3>2. CASE a = "watcher"
        <4>1. op'["main"] = op["main"]
          BY <1>3, <1>5, <3>2
        <4>2. QED
          BY <2>1, <3>2, <4>1
      <3>3. QED
        BY <1>5, <3>1, <3>2
    <2>5. \A b \in Actors : op'[b] # "idle" => Closing' /\ op'[b] \notin {"spawn", "read"}
      <3>1. op'["main"] # "idle" => phase = "stopping"
        BY <1>5, <2>4 DEF LifeHolds
      <3>2. QED
        BY <1>1, <1>6, <2>4, <3>1 DEF Closing, Actors
    <2>6. op'["main"] \in {"start", "spawn", "read"} => phase' = "starting"
      BY <1>1, <1>3, <1>5, <1>6, <2>1
    <2>7. QED
      BY <2>1, <2>2, <2>3, <2>4, <2>5, <2>6 DEF ReadersHold
  <1>11. CASE StartFails(a)
    <2>1. UNCHANGED <<initialized, reader, readerStop, reading>> /\ op'[a] = "idle"
      BY <1>4, <1>11 DEF StartFails
    <2>2. op'["main"] \in {"start", "spawn", "read"} => phase' = "starting"
      BY <1>1, <1>3, <1>5, <1>6, <2>1
    <2>3. QED
      BY <1>2, <1>3, <1>6, <1>7, <2>1, <2>2 DEF ReadersHold
  <1>12. CASE TellReader(a)
    <2>1. /\ UNCHANGED <<initialized, reader, reading>> /\ op[a] = "stop"
          /\ readerStop' = IF initialized THEN TRUE ELSE readerStop
          /\ op'[a] = IF initialized THEN "join" ELSE IF a = "watcher" THEN "start" ELSE "idle"
      BY <1>4, <1>12 DEF TellReader, AfterStop
    <2>2. op'["main"] \in {"start", "spawn", "read"} => phase' = "starting"
      BY <1>1, <1>3, <1>5, <1>6, <2>1
    <2>3. \A b \in Actors : op'[b] = "join" => readerStop' \/ Closing'
      BY <1>2, <1>3, <1>6, <2>1
    <2>4. QED
      BY <1>2, <1>3, <1>6, <1>7, <2>1, <2>2, <2>3 DEF ReadersHold
  <1>13. CASE JoinReader(a)
    <2>1. /\ UNCHANGED <<initialized, readerStop, reading>> /\ op[a] = "join" /\ op'[a] = "end"
          /\ reader' = 0
          /\ reader # 0 /\ readerStop => reading[reader].at \in {"dead", "stuck"}
      BY <1>4, <1>13 DEF JoinReader
    <2>2. Quiet \/ Closing
      <3>1. CASE ~Closing
        <4>1. \A r \in Places : Active(r) => r = reader /\ r # 0 /\ readerStop
          BY <1>6, <2>1, <3>1 DEF Places
        <4>2. QED
          BY <2>1, <4>1 DEF Quiet, Active
      <3>2. QED
        BY <3>1
    <2>3. \A r \in Places : Active(r)' => Closing'
      BY <1>2, <1>7, <2>1, <2>2 DEF Quiet
    <2>4. op'["main"] \in {"start", "spawn", "read"} => phase' = "starting"
      BY <1>1, <1>3, <1>5, <1>6, <2>1
    <2>5. QED
      BY <1>2, <1>3, <1>6, <1>7, <2>1, <2>2, <2>3, <2>4 DEF ReadersHold
  <1>14. CASE TellProcess(a)
    <2>1. UNCHANGED <<initialized, reader, readerStop, reading>> /\ op[a] = "end" /\ op'[a] = "reap"
      BY <1>4, <1>14 DEF TellProcess
    <2>2. op'["main"] \in {"start", "spawn", "read"} => phase' = "starting"
      BY <1>1, <1>3, <1>5, <1>6, <2>1
    <2>3. QED
      BY <1>2, <1>3, <1>6, <1>7, <2>1, <2>2 DEF ReadersHold
  <1>15. CASE Reap(a)
    <2>1. /\ UNCHANGED <<reader, readerStop, reading>> /\ op[a] = "reap" /\ initialized' = FALSE
          /\ op'[a] = IF a = "watcher" THEN "start" ELSE "idle"
      BY <1>4, <1>15 DEF Reap, AfterStop
    <2>2. op'["main"] \in {"start", "spawn", "read"} => phase' = "starting"
      BY <1>1, <1>3, <1>5, <1>6, <2>1
    <2>3. Quiet \/ Closing
      BY <1>6, <2>1
    <2>4. QED
      BY <1>2, <1>3, <1>6, <1>7, <2>1, <2>2, <2>3 DEF ReadersHold
  <1>16. QED
    BY <1>8, <1>9, <1>10, <1>11, <1>12, <1>13, <1>14, <1>15 DEF RosService

\* A step that adds no active reader and leaves the service where it is.
LEMMA ReadersKeptBeside ==
  ASSUME LifeTypeOK, ReadersHold, LifeStep,
         UNCHANGED <<phase, op, initialized, reader, readerStop>>,
         \A r \in Places : Active(r)' => Active(r)
  PROVE  ReadersHold'
  BY ClosingLasts DEF ReadersHold, Quiet

\* The lifespan and the watcher.
LEMMA ReadersKeptByWatch ==
  ASSUME LifeTypeOK, LifeHolds, ReadersHold, RosWatch
  PROVE  ReadersHold'
  <1>1. UNCHANGED rosVars /\ LifeStep
    BY DEF RosWatch, LifeStep
  <1>2. Closing => Closing'
    BY <1>1, ClosingLasts
  <1>3. "main" \in Actors /\ "watcher" \in Actors /\ Actors = {"main", "watcher"}
    BY DEF Actors
  <1>4. (Quiet <=> Quiet') /\ \A r \in Places : Active(r)' <=> Active(r)
    BY <1>1 DEF Quiet, Active, rosVars
  <1>5. \A b \in Actors : op'[b] \in {op[b], "stop"}
    <2>1. CASE StopService
      BY <1>3, <2>1, OneThreadMoves DEF StopService
    <2>2. CASE Poll(RosHealthy) /\ Restart
      BY <1>3, <2>2, OneThreadMoves DEF Restart
    <2>3. CASE UNCHANGED op
      BY <2>3
    <2>4. QED
      BY <2>1, <2>2, <2>3
         DEF RosWatch, LifeNext, Serve, Leave, Down, WatcherEnds, RestartEnds,
             Poll, FoundHealthy, TooEarly, GaveUp
  <1>6. op'["main"] \in {"start", "spawn", "read"} => phase' = "starting"
    <2>1. CASE op'["main"] \in {"start", "spawn", "read"}
      <3>1. op["main"] = op'["main"] /\ phase = "starting" /\ op["main"] # "idle"
        BY <1>3, <1>5, <2>1 DEF ReadersHold
      <3>2. QED
        BY <3>1 DEF RosWatch, LifeNext, Serve, Leave, StopService, Down, WatcherEnds, RestartEnds,
                    Poll, FoundHealthy, TooEarly, GaveUp, Restart
    <2>2. QED
      BY <2>1
  <1>7. QED
    BY <1>1, <1>2, <1>4, <1>5, <1>6 DEF ReadersHold, rosVars

\* Every step of the state service.
LEMMA ReadersKept ==
  ASSUME LifeTypeOK, LifeHolds, RosTypeOK, ReadersHold, RosNext
  PROVE  ReadersHold'
  <1>1. LifeStep
    BY StateLife
  <1>2. CASE RosWatch
    BY <1>2, ReadersKeptByWatch
  <1>3. CASE \E a \in Actors : RosService(a)
    BY <1>3, ReadersKeptByService
  <1>4. CASE RobotSends
    BY <1>1, <1>4, ReadersKeptBeside DEF RobotSends, lifeVars, Active
  <1>5. ASSUME NEW r \in Places, ProcessEnds(r) \/ Get(r) \/ Store(r) PROVE ReadersHold'
    <2>1. UNCHANGED <<phase, op, initialized, reader, readerStop>>
      BY <1>5 DEF ProcessEnds, Get, Store, lifeVars
    <2>2. CASE ProcessEnds(r)
      <3>1. UNCHANGED reading \/ reading' = [reading EXCEPT ![reader].at = "stuck"]
        BY <2>2 DEF ProcessEnds
      <3>2. \A s \in Places : Active(s)' => Active(s)
        BY <3>1 DEF Active, RosTypeOK
      <3>3. QED
        BY <1>1, <2>1, <3>2, ReadersKeptBeside
    <2>3. CASE Get(r)
      <3>1. Active(r) /\ \A s \in Places : s # r => reading'[s] = reading[s]
        BY <2>3 DEF Get, Active, RosTypeOK
      <3>2. \A s \in Places : Active(s)' => Active(s)
        BY <3>1 DEF Active
      <3>3. QED
        BY <1>1, <2>1, <3>2, ReadersKeptBeside
    <2>4. CASE Store(r)
      <3>1. Active(r) /\ \A s \in Places : s # r => reading'[s] = reading[s]
        BY <2>4 DEF Store, Active, RosTypeOK
      <3>2. \A s \in Places : Active(s)' => Active(s)
        BY <3>1 DEF Active
      <3>3. QED
        BY <1>1, <2>1, <3>2, ReadersKeptBeside
    <2>5. QED
      BY <1>5, <2>2, <2>3, <2>4
  <1>6. QED
    BY <1>2, <1>3, <1>4, <1>5 DEF RosNext

\* The messages stay in their order.
LEMMA OrderKept ==
  ASSUME RosTypeOK, \A r, s \in Places : Active(r) /\ Active(s) => r = s, StampOrder, RosNext
  PROVE  StampOrder' /\ latestState' >= latestState
  <1>1. /\ latestState \in Nat /\ stamp \in Nat /\ queue \in Seq(Nat) /\ Len(queue) \in Nat
        /\ \A r \in Places : reading[r].took \in Nat
        /\ \A i \in 1..Len(queue) : queue[i] \in Nat
    <2>1. MaxStamp \in Nat /\ queue \in Seq(1..MaxStamp)
      BY StampAssumption DEF RosTypeOK
    <2>2. Len(queue) \in Nat /\ \A i \in 1..Len(queue) : queue[i] \in 1..MaxStamp
      BY <2>1, LenProperties, ElementOfSeq
    <2>3. queue \in Seq(Nat)
      BY <2>1
    <2>4. QED
      BY <2>1, <2>2, <2>3 DEF RosTypeOK
  <1>2. ASSUME UNCHANGED <<latestState, stamp>>, queue' = queue \/ queue' = << >>,
               \A r \in Places : reading'[r].at = "store" => reading'[r] = reading[r]
        PROVE  StampOrder' /\ latestState' >= latestState
    <2>1. CASE queue' = queue
      BY <1>1, <1>2, <2>1 DEF StampOrder
    <2>2. CASE queue' = << >>
      <3>1. Len(<< >>) = 0 /\ 1..0 = {}
        BY EmptySeq
      <3>2. QED
        BY <1>1, <1>2, <2>2, <3>1 DEF StampOrder
    <2>3. QED
      BY <1>2, <2>1, <2>2
  <1>3. CASE RosWatch
    BY <1>2, <1>3 DEF RosWatch, rosVars
  <1>4. ASSUME NEW a \in Actors, RosService(a) PROVE StampOrder' /\ latestState' >= latestState
    <2>1. CASE StartReader(a)
      <3>1. PICK r \in Places : reading' = [reading EXCEPT ![r] = [at |-> "get", took |-> 0]]
        BY <2>1 DEF StartReader
      <3>2. \A s \in Places : reading'[s].at = "store" => reading'[s] = reading[s]
        BY <3>1 DEF RosTypeOK
      <3>3. QED
        BY <1>2, <2>1, <3>2 DEF StartReader
    <2>2. CASE ~StartReader(a)
      <3>1. UNCHANGED <<latestState, stamp, reading>> /\ (queue' = queue \/ queue' = << >>)
        BY <1>4, <2>2 DEF RosService, StartUp, Spawn, StartFails, TellReader, JoinReader,
                          TellProcess, Reap, rosVars
      <3>2. QED
        BY <1>2, <3>1
    <2>3. QED
      BY <2>1, <2>2
  <1>5. CASE RobotSends
    <2>1. stamp' = stamp + 1 /\ stamp' \in Nat /\ UNCHANGED <<latestState, reading>>
      BY <1>1, <1>5 DEF RobotSends
    <2>2. CASE UNCHANGED queue
      BY <1>1, <2>1, <2>2 DEF StampOrder
    <2>3. CASE queue' = Append(IF Len(queue) < QueueSize THEN queue ELSE Tail(queue), stamp')
      <3>1. \A i \in 1..Len(queue) : queue[i] <= stamp'
        <4>1. \A i \in 1..Len(queue) : queue[i] \in Nat /\ queue[i] <= stamp
          BY <1>1 DEF StampOrder
        <4>2. stamp \in Nat /\ stamp' = stamp + 1
          BY <1>1, <2>1
        <4>3. QED
          BY <4>1, <4>2
      <3>2. /\ \A i \in 1..Len(queue') : queue'[i] = stamp' \/ \E j \in 1..Len(queue) : queue'[i] = queue[j]
            /\ \A i, j \in 1..Len(queue') : i < j => queue'[i] <= queue'[j]
        <4>1. queue \in Seq(Nat) /\ stamp' \in Nat
          BY <1>1, <2>1
        <4>2. Len(queue) <= QueueSize /\ \A i, j \in 1..Len(queue) : i < j => queue[i] <= queue[j]
          BY DEF RosTypeOK, StampOrder
        <4>3. QED
          BY <2>3, <3>1, <4>1, <4>2, QueuePutOrder, SMTT(20)
      <3>3. \A i \in 1..Len(queue') : latestState <= queue'[i] /\ queue'[i] <= stamp'
        <4>1. latestState <= stamp' /\ stamp' <= stamp'
          BY <1>1, <2>1 DEF StampOrder
        <4>2. \A j \in 1..Len(queue) : latestState <= queue[j] /\ queue[j] <= stamp'
          BY <3>1 DEF StampOrder
        <4>3. QED
          BY <3>2, <4>1, <4>2
      <3>4. ASSUME NEW r \in Places, reading[r].at = "store"
            PROVE  /\ latestState <= reading[r].took /\ reading[r].took <= stamp'
                   /\ \A i \in 1..Len(queue') : reading[r].took <= queue'[i]
        <4>1. /\ latestState <= reading[r].took /\ reading[r].took <= stamp
              /\ \A j \in 1..Len(queue) : reading[r].took <= queue[j]
          BY <3>4 DEF StampOrder
        <4>2. reading[r].took <= stamp'
          BY <1>1, <2>1, <4>1
        <4>3. QED
          BY <3>2, <4>1, <4>2
      <3>5. QED
        BY <1>1, <2>1, <3>2, <3>3, <3>4 DEF StampOrder
    <2>4. QED
      BY <1>5, <2>2, <2>3 DEF RobotSends
  <1>6. ASSUME NEW p \in Places, ProcessEnds(p) PROVE StampOrder' /\ latestState' >= latestState
    <2>1. UNCHANGED reading \/ (reader \in Places /\ reading' = [reading EXCEPT ![reader].at = "stuck"])
      BY <1>6 DEF ProcessEnds, RosTypeOK
    <2>2. \A s \in Places : reading'[s].at = "store" => reading'[s] = reading[s]
      BY <2>1 DEF RosTypeOK
    <2>3. QED
      BY <1>2, <1>6, <2>2 DEF ProcessEnds
  <1>7. ASSUME NEW r \in Places, Get(r) PROVE StampOrder' /\ latestState' >= latestState
    <2>1. CASE readerStop
      <3>1. \A s \in Places : reading'[s].at = "store" => reading'[s] = reading[s]
        BY <1>7, <2>1 DEF Get, RosTypeOK, NotReading
      <3>2. QED
        BY <1>2, <1>7, <2>1, <3>1 DEF Get
    <2>2. CASE ~readerStop
      <3>1. /\ queue # << >> /\ queue' = Tail(queue) /\ UNCHANGED <<latestState, stamp>>
            /\ reading' = [reading EXCEPT ![r] = [at |-> "store", took |-> Head(queue)]]
        BY <1>7, <2>2 DEF Get
      <3>2. /\ 1 \in 1..Len(queue) /\ Head(queue) = queue[1]
            /\ \A i \in 1..Len(queue') : i + 1 \in 1..Len(queue) /\ 1 < i + 1 /\ queue'[i] = queue[i + 1]
        BY <1>1, <3>1, QueueGet
      <3>3. \A s \in Places : reading'[s].at = "store" => s = r
        BY <1>7, <3>1 DEF Get, Active, RosTypeOK
      <3>4. reading'[r].took = queue[1]
        BY <3>1, <3>2 DEF RosTypeOK
      <3>5. \A i \in 1..Len(queue') : latestState <= queue'[i] /\ queue'[i] <= stamp
        BY <3>2 DEF StampOrder
      <3>6. \A i, j \in 1..Len(queue') : i < j => queue'[i] <= queue'[j]
        <4>1. \A i, j \in 1..Len(queue') : i < j => i + 1 < j + 1
          OBVIOUS
        <4>2. QED
          BY <3>2, <4>1 DEF StampOrder
      <3>7. /\ latestState <= queue[1] /\ queue[1] <= stamp
            /\ \A i \in 1..Len(queue') : queue[1] <= queue'[i]
        BY <3>2 DEF StampOrder
      <3>8. QED
        BY <1>1, <3>1, <3>3, <3>4, <3>5, <3>6, <3>7 DEF StampOrder
    <2>3. QED
      BY <2>1, <2>2
  <1>8. ASSUME NEW r \in Places, Store(r) PROVE StampOrder' /\ latestState' >= latestState
    <2>1. /\ reading[r].at = "store" /\ latestState' = reading[r].took /\ UNCHANGED <<queue, stamp>>
          /\ reading' = [reading EXCEPT ![r] = [at |-> "get", took |-> 0]]
      BY <1>8 DEF Store
    <2>2. \A s \in Places : reading'[s].at # "store"
      BY <2>1 DEF Active, RosTypeOK
    <2>3. QED
      BY <1>1, <2>1, <2>2 DEF StampOrder
  <1>9. QED
    BY <1>3, <1>4, <1>5, <1>6, <1>7, <1>8 DEF RosNext

\* The state service's invariant, in every step of the layer.
StateHolds ==
  /\ real = "state" => ReadersHold
  /\ StampOrder

LEMMA StateKept ==
  ASSUME LifeTypeOK, LifeHolds, RosTypeOK, StateHolds, [Next]_layerVars
  PROVE  RosTypeOK' /\ StateHolds' /\ latestState' >= latestState
  <1>1. CASE real = "state" /\ RosNext /\ real' = real
    <2>1. ReadersHold /\ \A r, s \in Places : Active(r) /\ Active(s) => r = s
      BY <1>1 DEF StateHolds, ReadersHold
    <2>2. RosTypeOK' /\ ReadersHold'
      BY <1>1, <2>1, StateTypes, ReadersKept
    <2>3. StampOrder' /\ latestState' >= latestState
      BY <1>1, <2>1, OrderKept DEF StateHolds
    <2>4. QED
      BY <2>2, <2>3 DEF StateHolds
  <1>2. CASE real' = real /\ UNCHANGED rosVars /\ (real # "state" \/ UNCHANGED layerVars)
    <2>1. RosTypeOK' /\ StampOrder'
      BY <1>2 DEF RosTypeOK, StateHolds, StampOrder, rosVars
    <2>2. latestState' >= latestState
      BY <1>2, StampAssumption DEF RosTypeOK, rosVars
    <2>3. UNCHANGED layerVars /\ ReadersHold => ReadersHold'
      BY DEF layerVars, lifeVars, rosVars, ReadersHold, Active, Quiet, Closing
    <2>4. QED
      BY <1>2, <2>1, <2>2, <2>3 DEF StateHolds
  <1>3. QED
    BY <1>1, <1>2 DEF Next, Camera, Microphone, TranscribeCalls, HotwordDevice, StateService,
                      layerVars

-----------------------------------------------------------------------------
(* The invariant of the two devices, and what follows from it.               *)

DevicesInv ==
  /\ real \in Services
  /\ LifeTypeOK /\ CamTypeOK /\ RosTypeOK
  /\ LifeHolds /\ CameraHolds /\ StateHolds

\* The container builds the services stopped.
LEMMA DevicesInit ==
  ASSUME Init
  PROVE  DevicesInv
  <1> USE DEF Init
  <1>1. LifeTypeOK /\ LifeHolds
    <2>1. tries \in 0..MaxRetries
      BY MaxRetriesAssumption DEF LifeInit
    <2>2. DOMAIN op = Actors /\ op["main"] = "start" /\ op["watcher"] = "idle"
      BY DEF LifeInit, Actors
    <2>3. QED
      BY <2>1, <2>2 DEF LifeInit, LifeTypeOK, LifeHolds, Phases
  <1>2. CamTypeOK
    <2>1. faults \in 0..MaxFaults
      BY FaultAssumption DEF CamInit
    <2>2. look \in [at : {"idle", "peek", "align", "failed", "answered"}, frame : Frames]
      BY DEF CamInit, Frames
    <2>3. tpc \in [Slots -> {"dead", "open", "closing", "top", "grab", "broken"}]
      BY DEF CamInit
    <2>4. QED
      BY <2>1, <2>2, <2>3 DEF CamInit, CamTypeOK, Frames
  <1>3. CameraHolds
    BY DEF CamInit, LifeInit, CameraHolds, CaptureHolds, OpenIsLocal, Alive
  <1>4. << >> \in Seq(1..MaxStamp) /\ Len(<< >>) = 0 /\ 0 <= QueueSize /\ 1..0 = {}
    BY QueueAssumption, EmptySeq
  <1>5. RosTypeOK
    <2>1. 0 \in 0..MaxStamp /\ 0 \in 0..MaxCrashes
      BY StampAssumption
    <2>2. NotReading \in [at : {"dead", "get", "store", "stuck"}, took : 0..MaxStamp]
      BY <2>1 DEF NotReading
    <2>3. reading \in [Places -> [at : {"dead", "get", "store", "stuck"}, took : 0..MaxStamp]]
      BY <2>2 DEF RosInit
    <2>4. QED
      BY <1>4, <2>1, <2>3 DEF RosInit, RosTypeOK
  <1>6. ReadersHold
    BY DEF RosInit, LifeInit, ReadersHold, Active, Quiet, NotReading, Actors
  <1>7. StampOrder
    BY <1>4 DEF RosInit, StampOrder, NotReading
  <1>8. QED
    BY <1>1, <1>2, <1>3, <1>5, <1>6, <1>7 DEF DevicesInv, StateHolds

LEMMA DevicesStep ==
  ASSUME DevicesInv, [Next]_layerVars
  PROVE  DevicesInv' /\ latestState' >= latestState
  <1>1. LifeTypeOK' /\ LifeHolds'
    BY LayerLife, LifeTypes, LifeKept DEF DevicesInv
  <1>2. CamTypeOK' /\ CameraHolds'
    BY CameraKept DEF DevicesInv
  <1>3. RosTypeOK' /\ StateHolds' /\ latestState' >= latestState
    BY StateKept DEF DevicesInv
  <1>4. real' = real
    BY DEF Next, Camera, Microphone, TranscribeCalls, HotwordDevice, StateService, layerVars
  <1>5. QED
    BY <1>1, <1>2, <1>3, <1>4 DEF DevicesInv

\* The next-state relation, without the fairness.
LEMMA LayerSteps == Spec => Init /\ [][Next]_layerVars
  BY PTL DEF Spec

LEMMA DevicesInvariance == Spec => []DevicesInv
  <1>1. Init => DevicesInv
    BY DevicesInit
  <1>2. DevicesInv /\ [Next]_layerVars => DevicesInv'
    BY DevicesStep
  <1>3. QED
    BY <1>1, <1>2, LayerSteps, PTL

\* For every number of faults and retries: while the server serves, a capture
\* thread of the depth camera never runs beside a frame of an earlier run,
\* although a stop() whose pipeline.stop() raised has left that frame in the
\* buffer for the next start() to find (depth_camera_service.py).
THEOREM FramesComeFromTheirRun == Spec => []FreshFrame
  <1>1. DevicesInv => FreshFrame
    BY FramesAreFresh DEF DevicesInv
  <1>2. QED
    BY <1>1, DevicesInvariance, PTL

\* For every queue size, number of messages and crashes: whatever the bounded
\* queue drops and however often the process and the reader are replaced, the
\* state the tool answers with never goes back to an older message
\* (ros2_state_service.py).
THEOREM StateOnlyGoesForward == Spec => StateNeverGoesBack
  <1>1. DevicesInv /\ [Next]_layerVars => [latestState' >= latestState]_layerVars
    BY DevicesStep
  <1>2. QED
    BY <1>1, DevicesInvariance, LayerSteps, PTL DEF StateNeverGoesBack

=============================================================================
