------------------------------- MODULE Cameras -------------------------------
(* The three camera services of the middle layer, one at a time:            *)
(*   "depth"  impl/depth_camera/depth_camera_service.py (RealSense)         *)
(*   "local"  impl/local_camera/local_camera_service.py (OpenCV)            *)
(*   "rpc"    impl/rpc_camera/rpc_camera_service.py (the robot's camera)    *)
(* with the lifespan and the watcher that start, stop and restart them, and *)
(* the capture tool that answers with the latest frame.                     *)
(*                                                                          *)
(* A service has one stop event that every capture thread it ever started   *)
(* reads, and stop() waits 2 s for the thread at most: a thread that is     *)
(* still in a read of the device outlives it.  Of a frame the model keeps   *)
(* whether the current thread ("fresh") or an earlier one ("old") took it.  *)
EXTENDS Lifespan

CONSTANTS
  Kinds,        \* the cameras the container may build
  MaxFaults     \* bound: how often the device is unplugged

ASSUME KindAssumption == Kinds \subseteq {"depth", "local", "rpc"}
ASSUME FaultAssumption == MaxFaults \in Nat

VARIABLES
  kind,         \* which camera it is
  stopEvent,    \* _stop_event
  thread,       \* _thread: a slot, or 0
  tpc,          \* where the capture thread of each slot is
  device,       \* _pipeline of the depth camera, _cap of the local one; for
                \* the robot's, the ChannelFactory of its process is bound
  align,        \* _align and _intr of the depth camera
  configLock,   \* _config_lock: who holds it
  latest,       \* _latest_frame
  plugged,      \* the device, or the robot, can be reached
  faults,       \* how often it was unplugged
  look          \* where the capture tool is, with the frame it took

camVars == <<kind, stopEvent, thread, tpc, device, align, configLock, latest,
             plugged, faults, look>>

Slots == 1..2                     \* a new thread takes the slot of a dead one
Frames == {"none", "old", "fresh"}

CamTypeOK ==
  /\ kind \in Kinds
  /\ stopEvent \in BOOLEAN
  /\ thread \in Slots \cup {0}
  /\ tpc \in [Slots -> {"dead", "open", "closing", "top", "grab", "broken"}]
  /\ device \in BOOLEAN /\ align \in BOOLEAN
  /\ configLock \in Actors \cup {"free"}
  /\ latest \in Frames
  /\ plugged \in BOOLEAN /\ faults \in 0..MaxFaults
  /\ look \in [at : {"idle", "peek", "align", "failed", "answered"}, frame : Frames]

CamInit ==
  /\ kind \in Kinds
  /\ stopEvent = FALSE /\ thread = 0
  /\ tpc = [t \in Slots |-> "dead"]
  /\ device \in BOOLEAN /\ align = FALSE
  /\ kind # "rpc" => ~device          \* other services bind the factory, too
  /\ configLock = "free"
  /\ latest = "none"
  /\ plugged \in BOOLEAN /\ faults = 0
  /\ look = [at |-> "idle", frame |-> "none"]

Alive(t) == t # 0 /\ tpc[t] # "dead"

\* mutant: a thread that was started is taken for one that runs
CamHealthy_Started == thread # 0 /\ (kind = "depth" => device)

CamHealthy == Alive(thread) /\ (kind = "depth" => device)

-----------------------------------------------------------------------------
(* start(fps) and stop().  The depth camera holds its config lock in all of *)
(* start(), and takes it in stop() to let go of the pipeline.               *)
lifeRest == <<phase, watcher, health, proven, tries, overrun>>

Unlocked(a) == configLock' = IF configLock = a THEN "free" ELSE configLock

Begin(a) ==
  /\ op[a] = "start"
  /\ kind = "depth" => configLock = "free"
  /\ IF Alive(thread)
     THEN At(a, "idle") /\ UNCHANGED configLock
     ELSE /\ At(a, IF kind = "local" THEN "launch" ELSE "init")
          /\ configLock' = IF kind = "depth" THEN a ELSE configLock
  /\ UNCHANGED <<lifeRest, listed, kind, stopEvent, thread, tpc, device, align,
                 latest, plugged, faults, look>>

\* The depth camera and the robot's are set up before the thread starts.  The
\* robot itself need not be there: binding the factory may need the link, and
\* VideoClient.Init asks nobody.
Reach(a) ==
  /\ op[a] = "init" /\ (plugged \/ kind = "rpc")
  /\ At(a, "clear")
  /\ device' = TRUE /\ align' = (kind = "depth")
  /\ UNCHANGED <<lifeRest, listed, kind, stopEvent, thread, tpc, configLock,
                 latest, plugged, faults, look>>

Unreachable(a) ==
  /\ op[a] = "init" /\ ~plugged
  /\ kind = "rpc" => ~device          \* a bound factory does not fail again
  /\ At(a, "idle")
  /\ listed' = "down"
  /\ device' = FALSE /\ align' = FALSE
  /\ Unlocked(a)
  /\ UNCHANGED <<lifeRest, kind, stopEvent, thread, tpc, latest, plugged,
                 faults, look>>

\* mutant: the frame of the last run stays in the buffer
ClearFrame_Kept(a) ==
  /\ op[a] = "clear"
  /\ At(a, "launch")
  /\ UNCHANGED <<lifeRest, listed, camVars>>

ClearFrame(a) ==
  /\ op[a] = "clear"
  /\ At(a, "launch")
  /\ latest' = "none"
  /\ UNCHANGED <<lifeRest, listed, kind, stopEvent, thread, tpc, device, align,
                 configLock, plugged, faults, look>>

Launch(a) ==
  /\ op[a] = "launch"
  /\ stopEvent' = FALSE
  /\ \E t \in Slots :
       /\ tpc[t] = "dead" /\ \A u \in Slots : tpc[u] = "dead" => t <= u
       /\ thread' = t
       /\ tpc' = [tpc EXCEPT ![t] = IF kind = "local" THEN "open" ELSE "top"]
  /\ latest' = IF latest = "none" THEN latest ELSE "old"
  /\ At(a, IF kind = "local" THEN "idle" ELSE "tell")
  /\ UNCHANGED <<lifeRest, listed, kind, device, align, configLock, plugged,
                 faults, look>>

Tell(a) ==
  /\ op[a] = "tell"
  /\ listed' = "up"
  /\ At(a, "idle")
  /\ Unlocked(a)
  /\ UNCHANGED <<lifeRest, kind, stopEvent, thread, tpc, device, align, latest,
                 plugged, faults, look>>

Halt(a) ==
  /\ op[a] = "stop"
  /\ IF thread = 0 THEN At(a, AfterStop(a)) /\ UNCHANGED stopEvent
                   ELSE At(a, "join") /\ stopEvent' = TRUE
  /\ UNCHANGED <<lifeRest, listed, kind, thread, tpc, device, align, configLock,
                 latest, plugged, faults, look>>

\* The thread has ended, or it is inside a call on the device after 2 s, or
\* the other thread has set self._thread to None.
Join(a) ==
  /\ op[a] = "join"
  /\ IF thread = 0
     THEN Raised(a) /\ UNCHANGED thread
     ELSE /\ tpc[thread] \in {"dead", "open", "grab"}
          /\ thread' = 0
          /\ At(a, IF kind = "depth" THEN "teardown" ELSE AfterStop(a))
          /\ UNCHANGED listed
  /\ UNCHANGED <<lifeRest, kind, stopEvent, tpc, device, align, configLock,
                 latest, plugged, faults, look>>

\* pipeline.stop() may raise when the device is gone, and leaves the rest.
Teardown(a) ==
  /\ op[a] = "teardown" /\ configLock = "free"
  /\ \/ /\ device' = FALSE /\ align' = FALSE
        /\ tpc' = [t \in Slots |-> IF tpc[t] \in {"top", "grab"} THEN "broken" ELSE tpc[t]]
        /\ At(a, "forget")
        /\ UNCHANGED listed
     \/ /\ device /\ ~plugged
        /\ Raised(a)
        /\ UNCHANGED <<device, align, tpc>>
  /\ UNCHANGED <<lifeRest, kind, stopEvent, thread, configLock, latest, plugged,
                 faults, look>>

Forget(a) ==
  /\ op[a] = "forget"
  /\ latest' = "none"
  /\ At(a, AfterStop(a))
  /\ UNCHANGED <<lifeRest, listed, kind, stopEvent, thread, tpc, device, align,
                 configLock, plugged, faults, look>>

Service(a) ==
  \/ Begin(a) \/ Reach(a) \/ Unreachable(a) \/ ClearFrame(a) \/ Launch(a)
  \/ Tell(a) \/ Halt(a) \/ Join(a) \/ Teardown(a) \/ Forget(a)

-----------------------------------------------------------------------------
(* The capture thread t.  The local camera is opened by the thread, which   *)
(* registers what it found; self._cap is shared by all its threads.         *)
threadRest == <<lifeRest, op, kind, stopEvent, thread, align, configLock,
                plugged, faults, look>>

Open(t) ==
  /\ tpc[t] = "open"
  /\ tpc' = [tpc EXCEPT ![t] = IF plugged THEN "top" ELSE "closing"]
  /\ device' = plugged
  /\ listed' = IF plugged THEN "up" ELSE "down"
  /\ UNCHANGED <<threadRest, latest>>

LoopTop(t) ==
  /\ tpc[t] = "top"
  /\ tpc' = [tpc EXCEPT ![t] = IF stopEvent THEN "closing" ELSE "grab"]
  /\ UNCHANGED <<threadRest, listed, device, latest>>

Grabbed(t) ==
  /\ tpc[t] = "grab" /\ plugged
  /\ kind = "local" => device
  /\ tpc' = [tpc EXCEPT ![t] = "top"]
  /\ latest' = IF t = thread THEN "fresh" ELSE "old"
  /\ UNCHANGED <<threadRest, listed, device>>

\* No frame: wait_for_frames raises, the other two try again.
NoFrame(t) ==
  /\ tpc[t] = "grab" /\ (~plugged \/ (kind = "local" /\ ~device))
  /\ tpc' = [tpc EXCEPT ![t] = IF kind = "depth" THEN "closing" ELSE "top"]
  /\ UNCHANGED <<threadRest, listed, device, latest>>

Ends(t) ==
  /\ tpc[t] \in {"closing", "broken"}
  /\ tpc' = [tpc EXCEPT ![t] = "dead"]
  /\ device' = IF kind = "local" THEN FALSE ELSE device
  /\ UNCHANGED <<threadRest, listed, latest>>

Thread(t) == Open(t) \/ LoopTop(t) \/ Grabbed(t) \/ NoFrame(t) \/ Ends(t)

-----------------------------------------------------------------------------
(* capture_image: the registry, the buffer under its lock, and, for the     *)
(* depth camera, the alignment, after the lock has been released.           *)
lookRest == <<lifeVars, kind, stopEvent, thread, tpc, device, align, configLock,
              latest, plugged, faults>>

Looked(at, frame) == look' = [at |-> at, frame |-> frame]

CaptureImage ==
  /\ phase = "serving" /\ look.at \notin {"peek", "align"}
  /\ Looked(IF listed = "down" THEN "failed" ELSE "peek", "none")
  /\ UNCHANGED lookRest

GetLatestFrame ==
  /\ look.at = "peek"
  /\ IF latest = "none" \/ (kind = "depth" /\ ~align) THEN Looked("failed", "none")
     ELSE Looked(IF kind = "depth" THEN "align" ELSE "answered", latest)
  /\ UNCHANGED lookRest

AlignFrame ==
  /\ look.at = "align"
  /\ Looked(IF align THEN "answered" ELSE "failed", look.frame)
  /\ UNCHANGED lookRest

-----------------------------------------------------------------------------
(* The device is unplugged and comes back. *)
Plug ==
  /\ plugged' = ~plugged
  /\ faults' = IF plugged THEN faults + 1 ELSE faults
  /\ faults' <= MaxFaults
  /\ UNCHANGED <<lifeVars, kind, stopEvent, thread, tpc, device, align,
                 configLock, latest, look>>

CamWatch == (Poll(CamHealthy) \/ LifeNext) /\ UNCHANGED camVars

CamNext ==
  \/ CamWatch
  \/ \E a \in Actors : Service(a)
  \/ \E t \in Slots : Thread(t)
  \/ CaptureImage \/ GetLatestFrame \/ AlignFrame
  \/ Plug

=============================================================================
