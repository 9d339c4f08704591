---------------------------- MODULE HotwordStream ----------------------------
(* The hotword loop of the deepgram device                                  *)
(* (impl/audio_capture/stt/deepgram.py): start() runs an event loop that    *)
(* opens the microphone and waits for a voice; a voice opens a websocket,   *)
(* over which a sender task sends every frame, until nothing was said for   *)
(* 60 s, an error, a microphone that gives no frame for 15 s, or stop().    *)
(* A session ends by putting a sentinel behind the frames that wait, and by *)
(* giving the sender 5 s to reach it.  start() tries again on any error.    *)
(*                                                                          *)
(* Frames are counted; a hotword in them is AudioCapture.tla.               *)
EXTENDS Naturals

CONSTANTS
  MicQueueSize,   \* maxsize of mic_queue: 500
  SendQueueSize,  \* maxsize of send_queue: 100
  PreRoll         \* maxlen of pre_roll_buffer: the frames of 0.4 s

ASSUME StreamAssumption ==
  /\ MicQueueSize \in Nat \ {0} /\ SendQueueSize \in Nat \ {0}
  /\ PreRoll \in 1..SendQueueSize

VARIABLES
  deviceOn,     \* self.running
  stage,        \* where the loop stands
  reason,       \* what ended the session, or the event loop
  sender,       \* the sender task: at its queue, in a send, failed or ended
  heard,        \* frames in mic_queue
  unsent,       \* frames in send_queue
  sentinel      \* None is behind them

streamVars == <<deviceOn, stage, reason, sender, heard, unsent, sentinel>>

StreamTypeOK ==
  /\ deviceOn \in BOOLEAN
  /\ stage \in {"open", "silence", "connect", "session", "put", "join", "retry", "over"}
  /\ reason \in {"none", "silence", "error", "stall", "stop"}
  /\ sender \in {"none", "get", "send", "failed", "ended"}
  /\ heard \in 0..MicQueueSize
  /\ unsent \in 0..SendQueueSize
  /\ sentinel \in BOOLEAN

StreamInit ==
  /\ deviceOn = TRUE
  /\ stage = "open" /\ reason = "none"
  /\ sender = "none"
  /\ heard = 0 /\ unsent = 0
  /\ sentinel = FALSE

-----------------------------------------------------------------------------
senderVars == <<sender, unsent, sentinel>>

(* The callback of PortAudio; a frame that finds the queue full is dropped. *)
MicFrame ==
  /\ stage \notin {"open", "retry", "over"}
  /\ heard' = IF heard < MicQueueSize THEN heard + 1 ELSE heard
  /\ UNCHANGED <<deviceOn, stage, reason, senderVars>>

\* device.stop()
StopDevice ==
  /\ deviceOn
  /\ deviceOn' = FALSE
  /\ UNCHANGED <<stage, reason, heard, senderVars>>

(* start(): a new event loop with an empty queue, or the end. *)
OpenMic ==
  /\ stage = "open"
  /\ heard' = 0
  /\ \/ stage' = "silence" /\ UNCHANGED reason
     \/ stage' = "retry" /\ reason' = "error"
  /\ UNCHANGED <<deviceOn, senderVars>>

Retry ==
  /\ stage = "retry"
  /\ stage' = IF deviceOn THEN "open" ELSE "over"
  /\ UNCHANGED <<deviceOn, reason, heard, senderVars>>

(* The silent mode: a frame that is a voice opens a session.  The loop ends *)
(* without an error when the device was stopped.                            *)
SilentFrame ==
  /\ stage = "silence" /\ deviceOn /\ heard > 0
  /\ heard' = heard - 1
  /\ stage' \in {"silence", "connect"}
  /\ UNCHANGED <<deviceOn, reason, senderVars>>

SilentStall ==
  /\ stage = "silence" /\ deviceOn /\ heard = 0
  /\ stage' = "retry" /\ reason' = "stall"
  /\ UNCHANGED <<deviceOn, heard, senderVars>>

SilentStop ==
  /\ stage = "silence" /\ ~deviceOn
  /\ stage' = "over" /\ reason' = "stop"
  /\ UNCHANGED <<deviceOn, heard, senderVars>>

(* A session.  The frames of before the voice go first. *)
Connect ==
  /\ stage = "connect"
  /\ \/ /\ stage' = "session"
        /\ unsent' \in 1..PreRoll
        /\ sender' = "get" /\ sentinel' = FALSE
        /\ UNCHANGED reason
     \/ /\ stage' = "retry" /\ reason' = "error"
        /\ UNCHANGED senderVars
  /\ UNCHANGED <<deviceOn, heard>>

Finish(why) ==
  /\ stage' = "put" /\ reason' = why

\* A frame for the sender: its error, if it has failed; a full queue drops it.
SessionFrame ==
  /\ stage = "session" /\ deviceOn /\ heard > 0
  /\ heard' = heard - 1
  /\ IF sender = "failed"
     THEN Finish("error") /\ UNCHANGED unsent
     ELSE /\ unsent' = IF unsent < SendQueueSize THEN unsent + 1 ELSE unsent
          /\ UNCHANGED <<stage, reason>>
  /\ UNCHANGED <<deviceOn, sender, sentinel>>

SessionStall ==
  /\ stage = "session" /\ deviceOn /\ heard = 0
  /\ Finish("stall")
  /\ UNCHANGED <<deviceOn, heard, senderVars>>

\* Nothing was said for 60 s.
SessionSilence ==
  /\ stage = "session" /\ deviceOn
  /\ Finish("silence")
  /\ UNCHANGED <<deviceOn, heard, senderVars>>

\* mutant: the session does not look at self.running
SessionStop_Unheeding ==
  /\ stage = "session" /\ ~deviceOn
  /\ heard' \in {0, heard}
  /\ UNCHANGED <<deviceOn, stage, reason, senderVars>>

SessionStop ==
  /\ stage = "session" /\ ~deviceOn
  /\ Finish("stop")
  /\ UNCHANGED <<deviceOn, heard, senderVars>>

-----------------------------------------------------------------------------
(* await send_queue.put(None) waits for room. *)
PutSentinel ==
  /\ stage = "put" /\ unsent < SendQueueSize
  /\ stage' = "join"
  /\ sentinel' = TRUE
  /\ UNCHANGED <<deviceOn, reason, heard, sender, unsent>>

\* The sender has ended, has failed, or is cancelled after 5 s; closing the
\* connection may fail as well.
JoinSender ==
  /\ stage = "join"
  /\ \E why \in IF sender = "failed" THEN {"error"} ELSE {reason, "error"} :
       /\ reason' = why
       /\ stage' = CASE why = "silence" -> "silence"
                     [] why = "stop"    -> "over"
                     [] OTHER           -> "retry"
  /\ sender' = "none"
  /\ unsent' = 0 /\ sentinel' = FALSE
  /\ UNCHANGED <<deviceOn, heard>>

(* The sender task; a send that takes more than 0.5 s is an error, and one  *)
(* error ends it.                                                           *)
SenderGets ==
  /\ sender = "get"
  /\ IF unsent > 0 THEN sender' = "send" /\ unsent' = unsent - 1
                   ELSE sentinel /\ sender' = "ended" /\ UNCHANGED unsent
  /\ UNCHANGED <<deviceOn, stage, reason, heard, sentinel>>

SenderSends ==
  /\ sender = "send"
  /\ sender' \in {"get", "failed"}
  /\ UNCHANGED <<deviceOn, stage, reason, heard, unsent, sentinel>>

-----------------------------------------------------------------------------
HotwordLoop ==
  \/ OpenMic \/ Retry \/ SilentFrame \/ SilentStall \/ SilentStop \/ Connect
  \/ SessionFrame \/ SessionStall \/ SessionSilence \/ SessionStop
  \/ PutSentinel \/ JoinSender

StreamNext ==
  \/ HotwordLoop
  \/ SenderGets \/ SenderSends
  \/ MicFrame
  \/ StopDevice

(* The event loop runs its two tasks; every wait in them but put() has a    *)
(* time limit.  The microphone may stop, and nobody has to stop the device. *)
StreamFairness ==
  /\ WF_streamVars(HotwordLoop)
  /\ WF_streamVars(SenderGets \/ SenderSends)

StreamSpec == StreamInit /\ [][StreamNext]_streamVars /\ StreamFairness

-----------------------------------------------------------------------------
(* The sender has failed with its queue full: put() waits for a room that   *)
(* nobody will make.                                                        *)
Deaf == stage = "put" /\ sender = "failed" /\ unsent = SendQueueSize

(* What the docstring of start() says (deepgram.py:631): "Start the hotword *)
(* loop and automatically retry on any error. Blocks until stopped."  A     *)
(* loop whose sender has failed comes to the wait before its next try, or   *)
(* is told to stop.                                                         *)
HotwordLoopRetries == sender = "failed" ~> stage = "retry" \/ ~deviceOn

=============================================================================
