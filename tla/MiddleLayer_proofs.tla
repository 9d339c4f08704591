-------------------------- MODULE MiddleLayer_proofs --------------------------
(* Proofs about the rest of MiddleLayer, for any number of calls, hotwords,  *)
(* devices, permits and frames: the types of all its services, the order in  *)
(* which the microphone's commands come, and what a transcription leaves in  *)
(* the list of commands.                                                     *)
EXTENDS LayerDevices_proofs, QueueLemmas, FiniteSetTheorems

-----------------------------------------------------------------------------
(* The list of commands.                                                     *)

\* What the list holds: the sentence of a session, or the one of a call.
Sentences == ({"mic"} \X (1..MaxHotwords)) \cup ({"call"} \X Calls)

ListsTypeOK == tasks \in Seq(Sentences) /\ taken \in Seq(Sentences)

\* What holds of a service that leaves the list as it is, takes it, or appends.
ListStep ==
  \/ UNCHANGED <<tasks, taken>>
  \/ taken' = taken \o tasks /\ tasks' = << >>
  \/ \E x \in Sentences : tasks' = Append(tasks, x) /\ UNCHANGED taken

\* All commands ever heard: taking the list changes nothing of them, and what
\* is appended comes last.
LEMMA CommandsGrow ==
  ASSUME ListsTypeOK
  PROVE  /\ Commands \in Seq(Sentences)
         /\ UNCHANGED <<tasks, taken>> => ListsTypeOK' /\ Commands' = Commands
         /\ taken' = taken \o tasks /\ tasks' = << >> => ListsTypeOK' /\ Commands' = Commands
         /\ \A x \in Sentences :
              tasks' = Append(tasks, x) /\ UNCHANGED taken
                => ListsTypeOK' /\ Commands' = Append(Commands, x)
  <1>1. Commands \in Seq(Sentences)
    BY ConcatProperties DEF ListsTypeOK, Commands
  <1>2. ASSUME UNCHANGED <<tasks, taken>> PROVE ListsTypeOK' /\ Commands' = Commands
    BY <1>2 DEF ListsTypeOK, Commands
  <1>3. ASSUME taken' = taken \o tasks, tasks' = << >>
        PROVE  ListsTypeOK' /\ Commands' = Commands
    <2>1. taken' \in Seq(Sentences) /\ tasks' \in Seq(Sentences)
      BY <1>1, <1>3, EmptySeq DEF Commands
    <2>2. Commands' = Commands
      BY <1>3, <2>1, ConcatEmptySeq DEF Commands
    <2>3. QED
      BY <2>1, <2>2 DEF ListsTypeOK
  <1>4. ASSUME NEW x \in Sentences, tasks' = Append(tasks, x), UNCHANGED taken
        PROVE  ListsTypeOK' /\ Commands' = Append(Commands, x)
    <2>1. tasks \in Seq(Sentences) /\ taken \in Seq(Sentences)
      BY DEF ListsTypeOK
    <2>2. Append(tasks, x) \in Seq(Sentences) /\ Append(tasks, x) = tasks \o <<x>>
      BY <2>1, AppendProperties, AppendIsConcat
    <2>3. Append(taken \o tasks, x) = (taken \o tasks) \o <<x>>
      BY <1>1, AppendIsConcat DEF Commands
    <2>4. <<x>> \in Seq(Sentences)
      OBVIOUS
    <2>5. taken \o (tasks \o <<x>>) = (taken \o tasks) \o <<x>>
      BY <2>1, <2>4, ConcatAssociative
    <2>6. QED
      BY <1>4, <2>1, <2>2, <2>3, <2>5 DEF ListsTypeOK, Commands
  <1>5. QED
    BY <1>1, <1>2, <1>3, <1>4

-----------------------------------------------------------------------------
(* The microphone.                                                           *)

\* A device is none, or one of those made so far.
LEMMA DeviceTypes == Devices \cup {0} = 0..MaxDevices
  BY MicBoundAssumption DEF Devices

Stages == {"off", "top", "create", "list", "hook", "open", "run", "after", "wait", "dead"}

\* The capture thread goes on with its device.
LEMMA LoopTypes ==
  ASSUME loop \in [at : Stages, device : Devices \cup {0}], NEW at \in Stages
  PROVE  [loop EXCEPT !.at = at] \in [at : Stages, device : Devices \cup {0}]
  OBVIOUS

\* The capture thread and the two ends of its life keep the types.
LEMMA CaptureTypes ==
  ASSUME MicTypeOK, StartCapture \/ StopCapture \/ JoinCapture \/ CaptureLoop
  PROVE  MicTypeOK'
  <1> DEFINE Loops == [at : Stages, device : Devices \cup {0}]
  <1>1. loop \in Loops /\ 0 \in Devices \cup {0}
    BY DEF MicTypeOK, Stages
  <1>2. \A at \in Stages : [loop EXCEPT !.at = at] \in Loops
    BY <1>1, LoopTypes
  <1>3. \A at \in Stages, d \in Devices \cup {0} : [at |-> at, device |-> d] \in Loops
    OBVIOUS
  <1> HIDE DEF Loops
  <1>4. ASSUME loop' \in Loops, micStop' \in BOOLEAN, micThread' \in BOOLEAN,
               micDevice' \in Devices \cup {0}, made' \in Devices \cup {0}, hearing' \subseteq Devices,
               UNCHANGED <<stt, heardVars>>
        PROVE  MicTypeOK'
    BY <1>4 DEF Loops, MicTypeOK, heardVars, Stages
  <1>5. /\ micStop \in BOOLEAN /\ micThread \in BOOLEAN
        /\ micDevice \in Devices \cup {0} /\ made \in Devices \cup {0} /\ hearing \subseteq Devices
    BY DEF MicTypeOK
  <1>6. CASE StartCapture
    <2>1. loop' \in Loops
      BY <1>1, <1>3, <1>6 DEF StartCapture, Stages
    <2>2. QED
      BY <1>4, <1>5, <1>6, <2>1 DEF StartCapture
  <1>7. CASE StopCapture \/ JoinCapture
    BY <1>1, <1>4, <1>5, <1>7 DEF StopCapture, JoinCapture
  <1>8. CASE CaptureLoop
    <2>1. CASE LoopAgain \/ CreateFails \/ ListDevice \/ HookCallback \/ DeviceEnds \/ LoopEnds
      <3>1. loop' \in Loops
        BY <1>2, <2>1
           DEF LoopAgain, CreateFails, ListDevice, HookCallback, DeviceEnds, LoopEnds, Loop, Stages
      <3>2. UNCHANGED <<loopRest, micDevice, made, hearing>>
        BY <2>1 DEF LoopAgain, CreateFails, ListDevice, HookCallback, DeviceEnds, LoopEnds
      <3>3. QED
        BY <1>4, <1>5, <3>1, <3>2 DEF loopRest
    <2>2. CASE CreateDevice
      <3>1. made' \in Devices
        BY <1>5, <2>2, MicBoundAssumption DEF CreateDevice, Devices
      <3>2. loop' \in Loops
        BY <1>2, <2>2 DEF CreateDevice, Loop, Stages
      <3>3. QED
        BY <1>4, <1>5, <2>2, <3>1, <3>2 DEF CreateDevice, loopRest
    <2>3. CASE OpenDevice
      <3>1. loop' \in Loops
        BY <1>2, <1>3, <1>5, <2>3 DEF OpenDevice, Loop, Stages
      <3>2. hearing' \subseteq Devices /\ UNCHANGED <<loopRest, micDevice, made>>
        BY <1>5, <2>3 DEF OpenDevice
      <3>3. QED
        BY <1>4, <1>5, <3>1, <3>2 DEF loopRest
    <2>4. QED
      BY <1>8, <2>1, <2>2, <2>3 DEF CaptureLoop
  <1>9. QED
    BY <1>6, <1>7, <1>8

\* The places of the sessions.
LEMMA SessionPlaces ==
  ASSUME MicTypeOK
  PROVE  /\ sessions \in Seq(Sessions) /\ Len(sessions) \in Nat
         /\ DOMAIN sessions = 1..Len(sessions)
         /\ \A s \in DOMAIN sessions : sessions[s] \in Sessions
  BY LenProperties, ElementOfSeq DEF MicTypeOK

\* One session changes, and the others are what they were.
LEMMA SessionUpdate ==
  ASSUME MicTypeOK, NEW s \in DOMAIN sessions, NEW r \in Sessions,
         sessions' = [sessions EXCEPT ![s] = r]
  PROVE  /\ sessions' \in Seq(Sessions) /\ Len(sessions') = Len(sessions)
         /\ DOMAIN sessions' = DOMAIN sessions
         /\ sessions'[s] = r
         /\ \A t \in DOMAIN sessions : t # s => sessions'[t] = sessions[t]
  <1>1. s \in 1..Len(sessions) /\ sessions \in Seq(Sessions) /\ DOMAIN sessions = 1..Len(sessions)
    BY SessionPlaces
  <1>2. QED
    BY <1>1, ExceptSeq

\* What a step of a session makes of its record.
LEMMA SessionRecord ==
  ASSUME NEW r \in Sessions
  PROVE  /\ \A at \in {"raised", "listening", "heard", "over"} :
              LET q == [r EXCEPT !.at = at]
              IN q \in Sessions /\ q.at = at /\ q.on = r.on /\ q.waited = r.waited
         /\ LET q == [r EXCEPT !.words = TRUE]
            IN q \in Sessions /\ q.at = r.at /\ q.on = r.on /\ q.waited = r.waited
         /\ LET q == [r EXCEPT !.waited = FALSE]
            IN q \in Sessions /\ q.at = r.at /\ q.on = r.on /\ q.waited = FALSE
         /\ r.tries + 1 < Attempts =>
              LET q == [r EXCEPT !.tries = r.tries + 1, !.words = FALSE]
              IN q \in Sessions /\ q.at = r.at /\ q.on = r.on /\ q.waited = r.waited
  <1>1. \A at \in {"raised", "listening", "heard", "over"} :
          LET q == [r EXCEPT !.at = at]
          IN q \in Sessions /\ q.at = at /\ q.on = r.on /\ q.waited = r.waited
    BY DEF Sessions
  <1>2. /\ LET q == [r EXCEPT !.words = TRUE]
           IN q \in Sessions /\ q.at = r.at /\ q.on = r.on /\ q.waited = r.waited
        /\ LET q == [r EXCEPT !.waited = FALSE]
           IN q \in Sessions /\ q.at = r.at /\ q.on = r.on /\ q.waited = FALSE
    BY DEF Sessions
  <1>3. ASSUME r.tries + 1 < Attempts
        PROVE  LET q == [r EXCEPT !.tries = r.tries + 1, !.words = FALSE]
               IN q \in Sessions /\ q.at = r.at /\ q.on = r.on /\ q.waited = r.waited
    <2>1. r.tries + 1 \in 0..Attempts
      BY <1>3, AttemptsAssumption DEF Sessions
    <2>2. QED
      BY <2>1 DEF Sessions
  <1>4. QED
    BY <1>1, <1>2, <1>3

\* A step of the session s changes one record only: not its device; its end
\* stays its end; and task mode is left by ExitTaskMode alone.
SessionMoves(s) ==
  \E r \in Sessions :
    /\ sessions' = [sessions EXCEPT ![s] = r]
    /\ r.on = sessions[s].on
    /\ \/ r.at = sessions[s].at
       \/ sessions[s].at \in {"called", "listening"} /\ r.at # "over"
       \/ sessions[s].at = "heard" /\ r.at = "over"
    /\ \/ r.waited = sessions[s].waited /\ inTaskMode' = inTaskMode /\ forced' = forced
       \/ /\ sessions[s].waited /\ ~r.waited /\ r.at = sessions[s].at
          /\ inTaskMode' = inTaskMode \ {sessions[s].on}
          /\ \/ r.at \in {"over", "raised"} /\ forced' = forced
             \/ forced' = forced \cup {s}

LEMMA EverySessionMoves ==
  ASSUME MicTypeOK, NEW s \in DOMAIN sessions, Session(s) \/ Sentence(s)
  PROVE  SessionMoves(s)
  <1> DEFINE r == sessions[s]
  <1>1. r \in Sessions /\ r.waited \in BOOLEAN /\ micDevice \in Devices \cup {0}
    BY SessionPlaces DEF MicTypeOK, Sessions
  <1>2. CASE OnHotword(s)
    <2> DEFINE at == IF micDevice = 0 THEN "raised" ELSE "listening"
               q  == [r EXCEPT !.at = at, !.ear = micDevice]
    <2>1. sessions' = [sessions EXCEPT ![s] = q]
      BY <1>2 DEF OnHotword
    <2>2. at \in {"raised", "listening"}
      OBVIOUS
    <2> HIDE DEF at
    <2>3. q \in Sessions /\ q.at = at /\ q.on = r.on /\ q.waited = r.waited
      BY <1>1, <2>2 DEF Sessions
    <2>4. r.at = "called" /\ inTaskMode' = inTaskMode /\ forced' = forced
      BY <1>2 DEF OnHotword
    <2>5. q.at # "over"
      BY <2>2, <2>3
    <2> HIDE DEF q
    <2>6. /\ q.on = r.on
          /\ r.at \in {"called", "listening"} /\ q.at # "over"
          /\ q.waited = r.waited /\ inTaskMode' = inTaskMode /\ forced' = forced
      BY <2>3, <2>4, <2>5
    <2>7. QED
      BY <2>1, <2>3, <2>6 DEF SessionMoves
  <1>3. CASE Sentence(s)
    <2> DEFINE q == [r EXCEPT !.words = TRUE]
    <2>1. q \in Sessions /\ q.at = r.at /\ q.on = r.on /\ q.waited = r.waited
      BY <1>1, SessionRecord
    <2>2. sessions' = [sessions EXCEPT ![s] = q]
      BY <1>3 DEF Sentence
    <2> HIDE DEF q
    <2>3. QED
      BY <1>3, <2>1, <2>2 DEF Sentence, SessionMoves
  <1>4. ASSUME ConnectionFails(s), r.tries + 1 < Attempts PROVE SessionMoves(s)
    <2> DEFINE q == [r EXCEPT !.tries = r.tries + 1, !.words = FALSE]
    <2>1. q \in Sessions /\ q.at = r.at /\ q.on = r.on /\ q.waited = r.waited
      BY <1>1, <1>4, SessionRecord
    <2>2. sessions' = [sessions EXCEPT ![s] = q]
      BY <1>4 DEF ConnectionFails
    <2> HIDE DEF q
    <2>3. QED
      BY <1>4, <2>1, <2>2 DEF ConnectionFails, SessionMoves
  <1>5. ASSUME ListenEnds(s) \/ (ConnectionFails(s) /\ ~(r.tries + 1 < Attempts)) PROVE SessionMoves(s)
    <2> DEFINE q == [r EXCEPT !.at = "heard"]
    <2>1. q \in Sessions /\ q.at = "heard" /\ q.on = r.on /\ q.waited = r.waited
      BY <1>1, SessionRecord
    <2>2. sessions' = [sessions EXCEPT ![s] = q]
      BY <1>5 DEF ConnectionFails, ListenEnds
    <2>3. r.at = "listening" /\ inTaskMode' = inTaskMode /\ forced' = forced
      BY <1>5 DEF ConnectionFails, ListenEnds
    <2> HIDE DEF q
    <2>4. QED
      BY <2>1, <2>2, <2>3 DEF SessionMoves
  <1>6. CASE Enqueue(s)
    <2> DEFINE q == [r EXCEPT !.at = "over"]
    <2>1. q \in Sessions /\ q.at = "over" /\ q.on = r.on /\ q.waited = r.waited
      BY <1>1, SessionRecord
    <2>2. sessions' = [sessions EXCEPT ![s] = q]
      BY <1>6 DEF Enqueue
    <2> HIDE DEF q
    <2>3. QED
      BY <1>6, <2>1, <2>2 DEF Enqueue, SessionMoves
  <1>7. CASE ExitTaskMode(s)
    <2> DEFINE q == [r EXCEPT !.waited = FALSE]
    <2>1. q \in Sessions /\ q.at = r.at /\ q.on = r.on /\ q.waited = FALSE
      BY <1>1, SessionRecord
    <2>2. sessions' = [sessions EXCEPT ![s] = q]
      BY <1>7 DEF ExitTaskMode
    <2>3. /\ r.waited /\ inTaskMode' = inTaskMode \ {r.on}
          /\ (r.at \in {"over", "raised"} /\ forced' = forced) \/ forced' = forced \cup {s}
      BY <1>7 DEF ExitTaskMode
    <2> HIDE DEF q
    <2>4. QED
      BY <2>1, <2>2, <2>3 DEF SessionMoves
  <1>8. QED
    BY <1>2, <1>3, <1>4, <1>5, <1>6, <1>7 DEF Session

\* A hotword starts a session of the device that heard it.
LEMMA HotwordTypes ==
  ASSUME MicTypeOK, Hotword
  PROVE  /\ sessions' \in Seq(Sessions) /\ Len(sessions') = Len(sessions) + 1
         /\ \A t \in 1..Len(sessions) : sessions'[t] = sessions[t]
         /\ sessions'[Len(sessions) + 1] =
              [at |-> "called", on |-> loop.device, ear |-> 0, tries |-> 0,
               words |-> FALSE, waited |-> TRUE]
         /\ inTaskMode' = inTaskMode \cup {loop.device} /\ loop.device \notin inTaskMode
         /\ MicTypeOK'
  <1> DEFINE new == [at |-> "called", on |-> loop.device, ear |-> 0, tries |-> 0,
                     words |-> FALSE, waited |-> TRUE]
  <1>1. loop.device \in Devices /\ 0 \in 0..Attempts
    BY AttemptsAssumption DEF Hotword, MicTypeOK
  <1>2. new \in Sessions
    BY <1>1 DEF Sessions
  <1>3. sessions' = Append(sessions, new)
    BY DEF Hotword
  <1>4. sessions \in Seq(Sessions) /\ Len(sessions) \in Nat /\ DOMAIN sessions = 1..Len(sessions)
    BY SessionPlaces
  <1> HIDE DEF new
  <1>5. /\ sessions' \in Seq(Sessions) /\ Len(sessions') = Len(sessions) + 1
        /\ \A t \in 1..Len(sessions) : sessions'[t] = sessions[t]
        /\ sessions'[Len(sessions) + 1] = new
    BY <1>2, <1>3, <1>4, AppendProperties
  <1>6. DOMAIN sessions' = 1..Len(sessions')
    BY <1>5, LenProperties
  <1>7. Len(sessions') <= MaxHotwords /\ DOMAIN sessions \subseteq DOMAIN sessions'
    BY <1>4, <1>5, <1>6, MicBoundAssumption DEF Hotword
  <1>8. MicTypeOK'
    BY <1>1, <1>5, <1>7 DEF Hotword, MicTypeOK, sessionRest
  <1>9. QED
    BY <1>5, <1>8 DEF Hotword, new

\* The microphone keeps its types, and the list of commands is only appended
\* to or taken.
LEMMA MicTypes ==
  ASSUME MicTypeOK, ListsTypeOK, MicNext
  PROVE  MicTypeOK' /\ ListsTypeOK'
  <1>1. CASE LifeNext /\ UNCHANGED micVars
    BY <1>1 DEF micVars, MicTypeOK, ListsTypeOK
  <1>2. CASE StartCapture \/ StopCapture \/ JoinCapture \/ CaptureLoop
    <2>1. UNCHANGED heardVars
      BY <1>2 DEF StartCapture, StopCapture, JoinCapture, CaptureLoop, LoopAgain, CreateDevice,
                  CreateFails, ListDevice, HookCallback, OpenDevice, DeviceEnds, LoopEnds, loopRest
    <2>2. QED
      BY <1>2, <2>1, CaptureTypes DEF heardVars, ListsTypeOK
  <1>3. CASE Hotword
    BY <1>3, HotwordTypes DEF Hotword, ListsTypeOK
  <1>4. CASE GetPendingTasks
    <2>1. MicTypeOK'
      BY <1>4 DEF GetPendingTasks, MicTypeOK, sessionRest
    <2>2. QED
      BY <1>4, <2>1, CommandsGrow DEF GetPendingTasks
  <1>5. ASSUME NEW s \in DOMAIN sessions, Session(s) \/ Sentence(s) PROVE MicTypeOK' /\ ListsTypeOK'
    <2>1. SessionMoves(s)
      BY <1>5, EverySessionMoves
    <2>2. PICK r \in Sessions : sessions' = [sessions EXCEPT ![s] = r]
      BY <2>1 DEF SessionMoves
    <2>3. sessions' \in Seq(Sessions) /\ Len(sessions') = Len(sessions) /\ DOMAIN sessions' = DOMAIN sessions
      BY <2>2, SessionUpdate
    <2>4. UNCHANGED sessionRest
      BY <1>5 DEF Session, OnHotword, ConnectionFails, ListenEnds, Enqueue, ExitTaskMode, Sentence
    <2>5. inTaskMode' \subseteq inTaskMode /\ forced' \subseteq forced \cup {s}
      BY <2>1 DEF SessionMoves
    <2>6. MicTypeOK'
      BY <2>3, <2>4, <2>5 DEF MicTypeOK, sessionRest
    <2>7. ListsTypeOK'
      <3>1. CASE Enqueue(s) /\ sessions[s].words
        <4>1. s \in 1..MaxHotwords
          BY SessionPlaces, MicBoundAssumption DEF MicTypeOK
        <4>2. <<"mic", s>> \in Sentences
          BY <4>1 DEF Sentences
        <4>3. QED
          BY <3>1, <4>2, CommandsGrow DEF Enqueue
      <3>2. CASE ~(Enqueue(s) /\ sessions[s].words)
        BY <1>5, <3>2, CommandsGrow
           DEF Session, OnHotword, ConnectionFails, ListenEnds, Enqueue, ExitTaskMode, Sentence
      <3>3. QED
        BY <3>1, <3>2
    <2>8. QED
      BY <2>6, <2>7
  <1>6. QED
    BY <1>1, <1>2, <1>3, <1>4, <1>5 DEF MicNext

-----------------------------------------------------------------------------
(* The order of the microphone's commands.                                   *)

\* Task mode holds its device back: while a session is waited for, its device
\* is in task mode, so that the device has no later session; a session that
\* nobody waits for has ended, or task mode was left without it.
TaskModeHolds ==
  /\ \A s \in DOMAIN sessions : sessions[s].waited => sessions[s].on \in inTaskMode
  /\ \A s \in DOMAIN sessions :
       sessions[s].waited \/ sessions[s].at \in {"over", "raised"} \/ s \in forced
  /\ \A s, t \in DOMAIN sessions : s < t /\ sessions[s].on = sessions[t].on => ~sessions[s].waited

\* A command of the microphone is that of a session that has ended with it.
CommandsOver ==
  \A i \in DOMAIN Commands : Commands[i][1] = "mic" =>
    Commands[i][2] \in DOMAIN sessions /\ sessions[Commands[i][2]].at = "over"

MicHolds == TaskModeHolds /\ CommandsOver /\ CommandsInOrder

\* Nothing of it changes.
LEMMA MicHoldsStill ==
  ASSUME MicHolds, UNCHANGED <<sessions, inTaskMode, forced>>, Commands' = Commands
  PROVE  MicHolds'
  BY DEF MicHolds, TaskModeHolds, CommandsOver, CommandsInOrder

\* A hotword comes only while its device is not in task mode.
LEMMA TaskModeTakesHotword ==
  ASSUME MicTypeOK, TaskModeHolds, Hotword
  PROVE  TaskModeHolds'
  <1> DEFINE n == Len(sessions)
  <1>1. n \in Nat /\ DOMAIN sessions = 1..n
    BY SessionPlaces
  <1>2. /\ sessions' \in Seq(Sessions) /\ Len(sessions') = n + 1
        /\ \A t \in 1..n : sessions'[t] = sessions[t]
        /\ sessions'[n + 1].at = "called" /\ sessions'[n + 1].on = loop.device
        /\ sessions'[n + 1].waited = TRUE
        /\ inTaskMode' = inTaskMode \cup {loop.device} /\ loop.device \notin inTaskMode
    BY HotwordTypes
  <1>3. forced' = forced
    BY DEF Hotword
  <1>4. DOMAIN sessions' = 1..n + 1
    BY <1>2, LenProperties
  <1> HIDE DEF n
  <1>5. \A t \in 1..n + 1 : t \in 1..n \/ t = n + 1
    BY <1>1
  <1>6. \A t \in 1..n : sessions[t].waited => sessions[t].on \in inTaskMode
    BY <1>1 DEF TaskModeHolds
  <1>7. \A s \in 1..n + 1 : sessions'[s].waited => sessions'[s].on \in inTaskMode'
    BY <1>2, <1>5, <1>6
  <1>8. \A s \in 1..n + 1 : sessions'[s].waited \/ sessions'[s].at \in {"over", "raised"} \/ s \in forced'
    BY <1>1, <1>2, <1>3, <1>5 DEF TaskModeHolds
  <1>9. ASSUME NEW s \in 1..n + 1, NEW t \in 1..n + 1, s < t, sessions'[s].on = sessions'[t].on
        PROVE  ~sessions'[s].waited
    <2>1. s \in 1..n /\ sessions'[s] = sessions[s]
      BY <1>1, <1>2, <1>9
    <2>2. CASE t \in 1..n
      BY <1>1, <1>2, <1>9, <2>1, <2>2 DEF TaskModeHolds
    <2>3. CASE t = n + 1
      BY <1>2, <1>6, <1>9, <2>1, <2>3
    <2>4. QED
      BY <1>5, <2>2, <2>3
  <1>10. QED
    BY <1>4, <1>7, <1>8, <1>9 DEF TaskModeHolds

\* A session that is waited for no more takes its device out of task mode, in
\* which no other session has put it.
LEMMA TaskModeKept ==
  ASSUME MicTypeOK, TaskModeHolds, NEW s \in DOMAIN sessions, SessionMoves(s)
  PROVE  /\ TaskModeHolds'
         /\ DOMAIN sessions' = DOMAIN sessions /\ forced \subseteq forced'
         /\ \A t \in DOMAIN sessions : /\ sessions'[t].on = sessions[t].on
                                       /\ t # s => sessions'[t] = sessions[t]
                                       /\ sessions[t].at = "over" => sessions'[t].at = "over"
  <1>1. PICK r \in Sessions :
          /\ sessions' = [sessions EXCEPT ![s] = r]
          /\ r.on = sessions[s].on
          /\ \/ r.at = sessions[s].at
             \/ sessions[s].at \in {"called", "listening"} /\ r.at # "over"
             \/ sessions[s].at = "heard" /\ r.at = "over"
          /\ \/ r.waited = sessions[s].waited /\ inTaskMode' = inTaskMode /\ forced' = forced
             \/ /\ sessions[s].waited /\ ~r.waited /\ r.at = sessions[s].at
                /\ inTaskMode' = inTaskMode \ {sessions[s].on}
                /\ \/ r.at \in {"over", "raised"} /\ forced' = forced
                   \/ forced' = forced \cup {s}
    BY DEF SessionMoves
  <1>2. /\ DOMAIN sessions' = DOMAIN sessions
        /\ sessions'[s] = r
        /\ \A t \in DOMAIN sessions : t # s => sessions'[t] = sessions[t]
    BY <1>1, SessionUpdate
  <1>3. DOMAIN sessions \subseteq Nat
    BY SessionPlaces
  <1>4. forced \subseteq forced'
    BY <1>1
  <1>5. \A t \in DOMAIN sessions : /\ sessions'[t].on = sessions[t].on
                                   /\ sessions'[t].waited => sessions[t].waited
                                   /\ sessions[t].at = "over" => sessions'[t].at = "over"
    BY <1>1, <1>2
  <1>6. ASSUME NEW t \in DOMAIN sessions, sessions'[t].waited
        PROVE  sessions'[t].on \in inTaskMode'
    <2>1. sessions[t].waited /\ sessions[t].on \in inTaskMode
      BY <1>5, <1>6 DEF TaskModeHolds
    <2>2. CASE inTaskMode' = inTaskMode
      BY <1>5, <2>1, <2>2
    <2>3. CASE sessions[s].waited /\ ~r.waited /\ inTaskMode' = inTaskMode \ {sessions[s].on}
      <3>1. t # s
        BY <1>2, <1>6, <2>3
      <3>2. s < t \/ t < s
        BY <1>3, <3>1
      <3>3. sessions[t].on # sessions[s].on
        BY <2>1, <2>3, <3>2 DEF TaskModeHolds
      <3>4. QED
        BY <1>5, <2>1, <2>3, <3>3
    <2>4. QED
      BY <1>1, <2>2, <2>3
  <1>7. ASSUME NEW t \in DOMAIN sessions
        PROVE  sessions'[t].waited \/ sessions'[t].at \in {"over", "raised"} \/ t \in forced'
    <2>1. sessions[t].waited \/ sessions[t].at \in {"over", "raised"} \/ t \in forced
      BY DEF TaskModeHolds
    <2>2. CASE t # s
      BY <1>2, <1>4, <2>1, <2>2
    <2>3. CASE t = s
      BY <1>1, <1>2, <1>4, <2>1, <2>3
    <2>4. QED
      BY <2>2, <2>3
  <1>8. \A t, u \in DOMAIN sessions : t < u /\ sessions'[t].on = sessions'[u].on => ~sessions'[t].waited
    BY <1>5 DEF TaskModeHolds
  <1>9. TaskModeHolds'
    BY <1>2, <1>6, <1>7, <1>8 DEF TaskModeHolds
  <1>10. QED
    BY <1>2, <1>4, <1>5, <1>9

\* The list grows at its end.
LEMMA OneMore ==
  ASSUME ListsTypeOK, NEW x \in Sentences, Commands' = Append(Commands, x)
  PROVE  \E n \in Nat :
           /\ DOMAIN Commands = 1..n /\ DOMAIN Commands' = 1..n + 1
           /\ \A i \in 1..n : Commands'[i] = Commands[i]
           /\ Commands'[n + 1] = x
           /\ \A i \in 1..n + 1 : i \in 1..n \/ i = n + 1
  <1>1. Commands \in Seq(Sentences)
    BY CommandsGrow
  <1>2. Len(Commands) \in Nat /\ DOMAIN Commands = 1..Len(Commands)
    BY <1>1, LenProperties
  <1>3. /\ Commands' \in Seq(Sentences) /\ Len(Commands') = Len(Commands) + 1
        /\ \A i \in 1..Len(Commands) : Commands'[i] = Commands[i]
        /\ Commands'[Len(Commands) + 1] = x
    BY <1>1, AppendProperties
  <1>4. DOMAIN Commands' = 1..Len(Commands')
    BY <1>3, LenProperties
  <1>5. \A i \in 1..Len(Commands) + 1 : i \in 1..Len(Commands) \/ i = Len(Commands) + 1
    BY <1>2
  <1>6. QED
    BY <1>2, <1>3, <1>4, <1>5

\* A sentence of a call says nothing of the microphone's order.
LEMMA MicHoldsBesideCall ==
  ASSUME ListsTypeOK, MicHolds, UNCHANGED <<sessions, inTaskMode, forced>>,
         NEW c \in Calls, Commands' = Append(Commands, <<"call", c>>)
  PROVE  MicHolds'
  <1>1. <<"call", c>> \in Sentences
    BY DEF Sentences
  <1>2. PICK n \in Nat :
          /\ DOMAIN Commands = 1..n /\ DOMAIN Commands' = 1..n + 1
          /\ \A i \in 1..n : Commands'[i] = Commands[i]
          /\ Commands'[n + 1] = <<"call", c>>
          /\ \A i \in 1..n + 1 : i \in 1..n \/ i = n + 1
    BY <1>1, OneMore
  <1>3. \A i \in DOMAIN Commands' : Commands'[i][1] = "mic" => i \in DOMAIN Commands /\ Commands'[i] = Commands[i]
    BY <1>2
  <1>4. TaskModeHolds' /\ CommandsOver'
    BY <1>3 DEF MicHolds, TaskModeHolds, CommandsOver
  <1>5. CommandsInOrder'
    BY <1>3 DEF MicHolds, CommandsInOrder
  <1>6. QED
    BY <1>4, <1>5 DEF MicHolds

\* A session that moves without a command, or puts its command last.
LEMMA MicHoldsInSession ==
  ASSUME MicTypeOK, ListsTypeOK, MicHolds, NEW s \in DOMAIN sessions, Session(s) \/ Sentence(s)
  PROVE  MicHolds'
  <1>1. /\ TaskModeHolds'
        /\ DOMAIN sessions' = DOMAIN sessions /\ forced \subseteq forced'
        /\ \A t \in DOMAIN sessions : /\ sessions'[t].on = sessions[t].on
                                      /\ t # s => sessions'[t] = sessions[t]
                                      /\ sessions[t].at = "over" => sessions'[t].at = "over"
    BY EverySessionMoves, TaskModeKept DEF MicHolds
  <1>2. CASE Commands' = Commands
    <2>1. CommandsOver'
      BY <1>1, <1>2 DEF MicHolds, CommandsOver
    <2>2. CommandsInOrder'
      <3>1. \A i \in DOMAIN Commands : Commands[i][1] = "mic" => Commands[i][2] \in DOMAIN sessions
        BY DEF MicHolds, CommandsOver
      <3>2. QED
        BY <1>1, <1>2, <3>1 DEF MicHolds, CommandsInOrder
    <2>3. QED
      BY <1>1, <2>1, <2>2 DEF MicHolds
  <1>3. CASE Enqueue(s) /\ Commands' = Append(Commands, <<"mic", s>>)
    <2>1. <<"mic", s>> \in Sentences
      BY SessionPlaces, MicBoundAssumption DEF MicTypeOK, Sentences
    <2>2. PICK n \in Nat :
            /\ DOMAIN Commands = 1..n /\ DOMAIN Commands' = 1..n + 1
            /\ \A i \in 1..n : Commands'[i] = Commands[i]
            /\ Commands'[n + 1] = <<"mic", s>>
            /\ \A i \in 1..n + 1 : i \in 1..n \/ i = n + 1
      BY <1>3, <2>1, OneMore
    <2>3. sessions[s].at = "heard" /\ sessions'[s].at = "over"
      <3>1. sessions[s].at = "heard" /\ sessions' = [sessions EXCEPT ![s].at = "over"]
        BY <1>3 DEF Enqueue
      <3>2. sessions[s] \in Sessions
        BY SessionPlaces
      <3>3. QED
        BY <3>1, <3>2 DEF Sessions
    <2>4. \A i \in 1..n : Commands[i][1] = "mic" =>
            Commands[i][2] \in DOMAIN sessions /\ sessions[Commands[i][2]].at = "over"
      BY <2>2 DEF MicHolds, CommandsOver
    <2>5. CommandsOver'
      BY <1>1, <2>2, <2>3, <2>4 DEF CommandsOver
    <2>6. ASSUME NEW i \in 1..n + 1, NEW j \in 1..n + 1, i < j,
                 Commands'[i][1] = "mic", Commands'[j][1] = "mic"
          PROVE  /\ Commands'[i][2] # Commands'[j][2]
                 /\ (Commands'[j][2] < Commands'[i][2]
                       /\ sessions'[Commands'[i][2]].on = sessions'[Commands'[j][2]].on)
                      => Commands'[j][2] \in forced'
      <3>1. i \in 1..n /\ Commands'[i] = Commands[i]
        BY <2>2, <2>6
      <3>2. CASE j \in 1..n
        <4>1. Commands'[j] = Commands[j]
          BY <2>2, <3>2
        <4>2. /\ Commands[i][2] # Commands[j][2]
              /\ (Commands[j][2] < Commands[i][2]
                    /\ sessions[Commands[i][2]].on = sessions[Commands[j][2]].on)
                   => Commands[j][2] \in forced
          BY <2>2, <2>6, <3>1, <3>2, <4>1 DEF MicHolds, CommandsInOrder
        <4>3. Commands[i][2] \in DOMAIN sessions /\ Commands[j][2] \in DOMAIN sessions
          BY <2>4, <2>6, <3>1, <3>2, <4>1
        <4>4. QED
          BY <1>1, <3>1, <4>1, <4>2, <4>3
      <3>3. CASE j = n + 1
        <4> DEFINE first == Commands[i][2]
        <4>1. Commands'[j][2] = s
          BY <2>2, <3>3
        <4>2. first \in DOMAIN sessions /\ sessions[first].at = "over"
          BY <2>4, <2>6, <3>1
        <4> HIDE DEF first
        <4>3. first # s
          BY <2>3, <4>2
        <4>4. s < first /\ sessions'[first].on = sessions'[s].on => s \in forced'
          <5>1. s < first /\ sessions[first].on = sessions[s].on => ~sessions[s].waited
            BY <4>2 DEF MicHolds, TaskModeHolds
          <5>2. ~sessions[s].waited => s \in forced
            BY <2>3 DEF MicHolds, TaskModeHolds
          <5>3. QED
            BY <1>1, <4>2, <5>1, <5>2
        <4>5. QED
          BY <3>1, <4>1, <4>3, <4>4 DEF first
      <3>4. QED
        BY <2>2, <3>2, <3>3
    <2>7. CommandsInOrder'
      BY <2>2, <2>6 DEF CommandsInOrder
    <2>8. QED
      BY <1>1, <2>5, <2>7 DEF MicHolds
  <1>4. Commands' = Commands \/ (Enqueue(s) /\ Commands' = Append(Commands, <<"mic", s>>))
    <2>1. CASE Enqueue(s) /\ sessions[s].words
      <3>1. <<"mic", s>> \in Sentences
        BY SessionPlaces, MicBoundAssumption DEF MicTypeOK, Sentences
      <3>2. QED
        BY <2>1, <3>1, CommandsGrow DEF Enqueue
    <2>2. CASE ~(Enqueue(s) /\ sessions[s].words)
      <3>1. UNCHANGED <<tasks, taken>>
        BY <2>2 DEF Session, OnHotword, ConnectionFails, ListenEnds, Enqueue, ExitTaskMode, Sentence
      <3>2. QED
        BY <3>1, CommandsGrow
    <2>3. QED
      BY <2>1, <2>2
  <1>5. QED
    BY <1>2, <1>3, <1>4

\* The microphone.
LEMMA MicHoldsKept ==
  ASSUME MicTypeOK, ListsTypeOK, MicHolds, MicNext
  PROVE  MicHolds'
  <1>1. CASE LifeNext /\ UNCHANGED micVars
    BY <1>1, MicHoldsStill, CommandsGrow DEF micVars
  <1>2. CASE StartCapture \/ StopCapture \/ JoinCapture \/ CaptureLoop
    <2>1. UNCHANGED heardVars
      BY <1>2 DEF StartCapture, StopCapture, JoinCapture, CaptureLoop, LoopAgain, CreateDevice,
                  CreateFails, ListDevice, HookCallback, OpenDevice, DeviceEnds, LoopEnds, loopRest
    <2>2. QED
      BY <2>1, MicHoldsStill, CommandsGrow DEF heardVars
  <1>3. CASE Hotword
    <2>1. TaskModeHolds'
      BY <1>3, TaskModeTakesHotword DEF MicHolds
    <2>2. forced' = forced /\ Commands' = Commands
      BY <1>3, CommandsGrow DEF Hotword
    <2>3. /\ DOMAIN sessions \subseteq DOMAIN sessions'
          /\ \A t \in DOMAIN sessions : sessions'[t] = sessions[t]
      <3>1. /\ sessions' \in Seq(Sessions) /\ Len(sessions') = Len(sessions) + 1
            /\ \A t \in 1..Len(sessions) : sessions'[t] = sessions[t]
        BY <1>3, HotwordTypes
      <3>2. Len(sessions) \in Nat /\ DOMAIN sessions = 1..Len(sessions)
        BY SessionPlaces
      <3>3. DOMAIN sessions' = 1..Len(sessions')
        BY <3>1, LenProperties
      <3>4. QED
        BY <3>1, <3>2, <3>3
    <2>4. CommandsOver'
      BY <2>2, <2>3 DEF MicHolds, CommandsOver
    <2>5. CommandsInOrder'
      <3>1. \A i \in DOMAIN Commands : Commands[i][1] = "mic" => Commands[i][2] \in DOMAIN sessions
        BY DEF MicHolds, CommandsOver
      <3>2. QED
        BY <2>2, <2>3, <3>1 DEF MicHolds, CommandsInOrder
    <2>6. QED
      BY <2>1, <2>4, <2>5 DEF MicHolds
  <1>4. CASE GetPendingTasks
    BY <1>4, MicHoldsStill, CommandsGrow DEF GetPendingTasks
  <1>5. CASE \E s \in DOMAIN sessions : Session(s) \/ Sentence(s)
    BY <1>5, MicHoldsInSession
  <1>6. QED
    BY <1>1, <1>2, <1>3, <1>4, <1>5 DEF MicNext

-----------------------------------------------------------------------------
(* The calls of transcribe_audio and their semaphore.                        *)

CallStates == {"new", "waiting"} \cup Busy \cup Answers
JobStates == {"none", "queued", "running", "cancelled", "ok", "empty", "error"}

\* The calls that hold a permit.
Working == {c \in Calls : call[c] \in Busy}

\* The permits that are left and the calls that hold one are all there are, the
\* queue of the semaphore is of the calls that wait, each once, and there is one
\* only while no permit is left.
SemaphoreHolds ==
  /\ call \in [Calls -> CallStates] /\ job \in [Calls -> JobStates]
  /\ permits \in Nat /\ permits + Cardinality(Working) = TranscribeMax
  /\ IsQueue(waiting, Calls)
  /\ \A c \in Calls : call[c] = "waiting" <=> InQueue(c, waiting)
  /\ waiting # << >> => permits = 0

LEMMA CallTypes ==
  ASSUME SemaphoreHolds
  PROVE  CallTypeOK
  <1>1. IsFiniteSet(Working) /\ Cardinality(Working) \in Nat
    BY CallsAssumption, FS_Subset, FS_CardinalityType DEF Working
  <1>2. permits \in 0..TranscribeMax
    BY <1>1, LimitAssumption DEF SemaphoreHolds
  <1>3. QED
    BY <1>2 DEF SemaphoreHolds, CallTypeOK, CallStates, JobStates, IsQueue

\* One more call that holds a permit, or one less.
LEMMA WorkingCounts ==
  ASSUME NEW c \in Calls
  PROVE  /\ Cardinality(Working) \in Nat /\ Cardinality(Working \ {c}) \in Nat
         /\ c \notin Working => Cardinality(Working \cup {c}) = Cardinality(Working) + 1
         /\ c \in Working => Cardinality(Working) = Cardinality(Working \ {c}) + 1
         /\ \A d \in Calls : c \in Working /\ d \notin Working
              => Cardinality((Working \ {c}) \cup {d}) = Cardinality(Working)
  <1>1. IsFiniteSet(Working) /\ Cardinality(Working) \in Nat
    BY CallsAssumption, FS_Subset, FS_CardinalityType DEF Working
  <1>2. IsFiniteSet(Working \ {c}) /\ Cardinality(Working \ {c}) \in Nat
    BY <1>1, FS_RemoveElement, FS_CardinalityType
  <1>3. c \in Working => Cardinality(Working) = Cardinality(Working \ {c}) + 1
    BY <1>1, <1>2, FS_RemoveElement
  <1>4. \A d \in Calls : c \in Working /\ d \notin Working
          => Cardinality((Working \ {c}) \cup {d}) = Cardinality(Working)
    BY <1>2, <1>3, FS_AddElement
  <1>5. QED
    BY <1>1, <1>2, <1>3, <1>4, FS_AddElement

\* What the release of a permit does: the first call that waits goes to work.
Released(c, answer, jobs) ==
  /\ call'[c] = answer /\ job'[c] = jobs[c]
  /\ \A d \in Calls : d # c =>
       \/ call'[d] = call[d] /\ job'[d] = jobs[d]
       \/ call[d] = "waiting" /\ call'[d] = "working" /\ job'[d] = "queued"

LEMMA ReleaseKeeps ==
  ASSUME SemaphoreHolds, NEW c \in Calls, call[c] \in Busy, NEW answer \in Answers,
         NEW jobs \in [Calls -> JobStates], Release(c, answer, jobs)
  PROVE  SemaphoreHolds' /\ Released(c, answer, jobs)
  <1> USE DEF SemaphoreHolds
  <1>1. answer \in CallStates /\ answer \notin Busy /\ answer # "waiting" /\ call[c] # "waiting"
    BY DEF CallStates, Answers, Busy
  <1>2. c \in Working
    BY DEF Working
  <1>3. CASE waiting = << >>
    <2>1. /\ permits' = permits + 1 /\ call' = [call EXCEPT ![c] = answer]
          /\ job' = jobs /\ waiting' = waiting
      BY <1>3 DEF Release
    <2>2. call' \in [Calls -> CallStates] /\ \A d \in Calls : call'[d] = IF d = c THEN answer ELSE call[d]
      BY <1>1, <2>1
    <2>3. Working' = Working \ {c}
      BY <1>1, <2>2 DEF Working
    <2>4. permits' \in Nat /\ permits' + Cardinality(Working') = TranscribeMax
      BY <1>2, <2>1, <2>3, WorkingCounts
    <2>5. \A d \in Calls : call'[d] = "waiting" <=> InQueue(d, waiting')
      BY <1>1, <2>1, <2>2
    <2>6. QED
      BY <1>3, <2>1, <2>2, <2>4, <2>5 DEF Released
  <1>4. CASE waiting # << >>
    <2> DEFINE h == Head(waiting)
    <2>1. /\ h \in Calls /\ InQueue(h, waiting) /\ IsQueue(Tail(waiting), Calls)
          /\ \A x : InQueue(x, Tail(waiting)) <=> InQueue(x, waiting) /\ x # h
      BY <1>4, ServeQueue
    <2>2. /\ waiting' = Tail(waiting) /\ permits' = permits
          /\ call' = [call EXCEPT ![c] = answer, ![h] = "working"]
          /\ job' = [jobs EXCEPT ![h] = "queued"]
      BY <1>4 DEF Release
    <2> HIDE DEF h
    <2>3. call[h] = "waiting" /\ h # c /\ h \notin Working
      BY <1>1, <2>1 DEF Working, Busy
    <2>4. "working" \in CallStates /\ "working" \in Busy /\ "queued" \in JobStates
      BY DEF CallStates, JobStates, Busy
    <2>5. /\ call' \in [Calls -> CallStates] /\ call'[h] = "working" /\ call'[c] = answer
          /\ \A d \in Calls : d # c /\ d # h => call'[d] = call[d]
      BY <1>1, <2>1, <2>2, <2>3, <2>4
    <2>6. /\ job' \in [Calls -> JobStates] /\ job'[h] = "queued" /\ job'[c] = jobs[c]
          /\ \A d \in Calls : d # h => job'[d] = jobs[d]
      BY <2>1, <2>2, <2>3, <2>4
    <2>7. Working' = (Working \ {c}) \cup {h}
      BY <1>1, <2>1, <2>4, <2>5 DEF Working
    <2>8. permits' \in Nat /\ permits' + Cardinality(Working') = TranscribeMax
      BY <1>2, <2>1, <2>2, <2>3, <2>7, WorkingCounts
    <2>9. \A d \in Calls : call'[d] = "waiting" <=> InQueue(d, waiting')
      BY <1>1, <2>1, <2>2, <2>5
    <2>10. SemaphoreHolds'
      BY <1>4, <2>1, <2>2, <2>5, <2>6, <2>8, <2>9
    <2>11. Released(c, answer, jobs)
      BY <2>3, <2>5, <2>6 DEF Released
    <2>12. QED
      BY <2>10, <2>11
  <1>5. QED
    BY <1>3, <1>4

\* A call joins, or takes a permit.
LEMMA TranscribeKeeps ==
  ASSUME SemaphoreHolds, NEW c \in Calls, TranscribeAudio(c)
  PROVE  /\ SemaphoreHolds'
         /\ \A d \in Calls : d # c => call'[d] = call[d] /\ job'[d] = job[d]
         /\ \/ call'[c] = "working" /\ job'[c] = "queued"
            \/ call'[c] = "waiting" /\ job'[c] = job[c]
  <1> USE DEF SemaphoreHolds
  <1>1. call[c] = "new" /\ c \notin Working
    BY DEF TranscribeAudio, Working, Busy
  <1>2. {"working", "waiting"} \subseteq CallStates /\ "queued" \in JobStates
    BY DEF CallStates, JobStates, Busy
  <1>3. CASE permits > 0 /\ waiting = << >>
    <2>1. /\ permits' = permits - 1 /\ waiting' = waiting
          /\ call' = [call EXCEPT ![c] = "working"] /\ job' = [job EXCEPT ![c] = "queued"]
      BY <1>3 DEF TranscribeAudio
    <2>2. call' \in [Calls -> CallStates] /\ \A d \in Calls : call'[d] = IF d = c THEN "working" ELSE call[d]
      BY <1>2, <2>1
    <2>3. job' \in [Calls -> JobStates] /\ \A d \in Calls : job'[d] = IF d = c THEN "queued" ELSE job[d]
      BY <1>2, <2>1
    <2>4. Working' = Working \cup {c}
      BY <2>2 DEF Working, Busy
    <2>5. permits' \in Nat /\ permits' + Cardinality(Working') = TranscribeMax
      BY <1>1, <1>3, <2>1, <2>4, WorkingCounts
    <2>6. \A d \in Calls : call'[d] = "waiting" <=> InQueue(d, waiting')
      BY <1>1, <2>1, <2>2
    <2>7. QED
      BY <1>3, <2>1, <2>2, <2>3, <2>5, <2>6
  <1>4. CASE ~(permits > 0 /\ waiting = << >>)
    <2>1. /\ waiting' = Append(waiting, c) /\ permits' = permits /\ job' = job
          /\ call' = [call EXCEPT ![c] = "waiting"]
      BY <1>4 DEF TranscribeAudio
    <2>2. call' \in [Calls -> CallStates] /\ \A d \in Calls : call'[d] = IF d = c THEN "waiting" ELSE call[d]
      BY <1>2, <2>1
    <2>3. Working' = Working
      BY <1>1, <2>2 DEF Working, Busy
    <2>4. ~InQueue(c, waiting)
      BY <1>1
    <2>5. /\ IsQueue(waiting', Calls)
          /\ \A y : InQueue(y, waiting') <=> InQueue(y, waiting) \/ y = c
      BY <2>1, <2>4, JoinQueue
    <2>6. \A d \in Calls : call'[d] = "waiting" <=> InQueue(d, waiting')
      BY <2>2, <2>5
    <2>7. permits = 0
      BY <1>4
    <2>8. QED
      BY <2>1, <2>2, <2>3, <2>5, <2>6, <2>7
  <1>5. QED
    BY <1>3, <1>4

\* A call that waits goes.
LEMMA WaiterKeeps ==
  ASSUME SemaphoreHolds, NEW c \in Calls, WaiterGone(c)
  PROVE  /\ SemaphoreHolds' /\ job' = job
         /\ \A d \in Calls : d # c => call'[d] = call[d]
         /\ call'[c] = "gone"
  <1> USE DEF SemaphoreHolds
  <1>1. call[c] = "waiting" /\ call' = [call EXCEPT ![c] = "gone"] /\ permits' = permits /\ job' = job
    BY DEF WaiterGone
  <1>2. PICK i \in 1..Len(waiting) : waiting[i] = c /\ waiting' = RemoveAt(waiting, i)
    BY DEF WaiterGone, Unqueue
  <1>3. "gone" \in CallStates
    BY DEF CallStates, Answers
  <1>4. call' \in [Calls -> CallStates] /\ \A d \in Calls : call'[d] = IF d = c THEN "gone" ELSE call[d]
    BY <1>1, <1>3
  <1>5. Working' = Working
    BY <1>1, <1>4 DEF Working, Busy
  <1>6. IsQueue(waiting', Calls) /\ \A x : InQueue(x, waiting') <=> InQueue(x, waiting) /\ x # c
    BY <1>2, LeaveQueue
  <1>7. \A d \in Calls : call'[d] = "waiting" <=> InQueue(d, waiting')
    BY <1>4, <1>6
  <1>8. permits = 0
    <2>1. waiting # << >>
      BY <1>2
    <2>2. QED
      BY <2>1
  <1>9. QED
    BY <1>1, <1>4, <1>5, <1>6, <1>7, <1>8

-----------------------------------------------------------------------------
(* What a transcription leaves in the list.                                  *)

\* A job is made when its call gets a permit, waits for a thread only while its
\* call waits for it, and has succeeded when deepgram is asked; a call that
\* vosk fails has a job that failed, and only deepgram lets a call raise.
JobHolds ==
  \A c \in Calls :
    /\ call[c] \in {"new", "waiting"} => job[c] = "none"
    /\ job[c] = "queued" => call[c] = "working"
    /\ call[c] = "asking" => stt = "deepgram" /\ job[c] \in {"ok", "empty"}
    /\ call[c] = "error" /\ stt = "vosk" => job[c] = "error"
    /\ call[c] = "raised" => stt = "deepgram"

\* The job of vosk has appended, or the call of deepgram has answered.
Final(c) ==
  \/ stt = "vosk" /\ job[c] = "ok"
  \/ stt = "deepgram" /\ call[c] = "ok"

\* A sentence of a call is in the list once, when that is so.
CallsPlaced ==
  /\ \A i \in DOMAIN Commands : Commands[i][1] = "call" =>
       Commands[i][2] \in Calls /\ Final(Commands[i][2])
  /\ \A i, j \in DOMAIN Commands :
       i < j /\ Commands[i][1] = "call" /\ Commands[j][1] = "call"
         => Commands[i][2] # Commands[j][2]

CallsHold == SemaphoreHolds /\ JobHolds /\ CallsPlaced

\* The release of a permit, and the job of the call that waited first.
LEMMA ReleasedJobs ==
  ASSUME JobHolds, NEW c \in Calls, call[c] \in Busy, NEW answer \in Answers,
         NEW jobs \in [Calls -> JobStates], Released(c, answer, jobs), stt' = stt,
         \A d \in Calls : d # c => jobs[d] = job[d],
         jobs[c] # "queued", job[c] = "ok" => jobs[c] = "ok",
         answer = "error" /\ stt = "vosk" => jobs[c] = "error",
         answer = "raised" => stt = "deepgram"
  PROVE  /\ JobHolds'
         /\ \A d \in Calls : Final(d) => Final(d)'
  <1>1. call'[c] = answer /\ answer \notin {"new", "waiting", "working", "asking"} /\ job'[c] = jobs[c]
    BY DEF Released, Answers
  <1>2. \A d \in Calls : d # c =>
          \/ call'[d] = call[d] /\ job'[d] = job[d]
          \/ call[d] = "waiting" /\ job[d] = "none" /\ call'[d] = "working" /\ job'[d] = "queued"
    BY DEF Released, JobHolds
  <1>3. ASSUME NEW d \in Calls, d # c
        PROVE  /\ call'[d] \in {"new", "waiting"} => job'[d] = "none"
               /\ job'[d] = "queued" => call'[d] = "working"
               /\ call'[d] = "asking" => stt' = "deepgram" /\ job'[d] \in {"ok", "empty"}
               /\ call'[d] = "error" /\ stt' = "vosk" => job'[d] = "error"
               /\ call'[d] = "raised" => stt' = "deepgram"
               /\ Final(d) => Final(d)'
    <2>1. CASE call'[d] = call[d] /\ job'[d] = job[d]
      BY <2>1 DEF JobHolds, Final
    <2>2. CASE call[d] = "waiting" /\ job[d] = "none" /\ call'[d] = "working" /\ job'[d] = "queued"
      BY <2>2 DEF Final
    <2>3. QED
      BY <1>2, <1>3, <2>1, <2>2
  <1>4. /\ job'[c] # "queued"
        /\ call'[c] = "error" /\ stt' = "vosk" => job'[c] = "error"
        /\ call'[c] = "raised" => stt' = "deepgram"
        /\ Final(c) => Final(c)'
    BY <1>1 DEF Final, Busy
  <1>5. JobHolds'
    BY <1>1, <1>3, <1>4 DEF JobHolds
  <1>6. QED
    BY <1>3, <1>4, <1>5

\* What every step of a call does.
CallMoves ==
  /\ SemaphoreHolds' /\ JobHolds'
  /\ \A d \in Calls : Final(d) => Final(d)'
  /\ \/ Commands' = Commands
     \/ \E c \in Calls : Commands' = Append(Commands, <<"call", c>>) /\ ~Final(c) /\ Final(c)'

LEMMA CallStepMoves ==
  ASSUME STTEngines \subseteq {"vosk", "deepgram"}, stt \in STTEngines, ListsTypeOK,
         SemaphoreHolds, JobHolds, NEW c \in Calls, CallStep(c)
  PROVE  CallMoves /\ ListsTypeOK'
  <1>1. /\ call \in [Calls -> CallStates] /\ job \in [Calls -> JobStates]
        /\ <<"call", c>> \in Sentences
    BY DEF SemaphoreHolds, Sentences
  <1>2. stt' = stt /\ taken' = taken
    BY DEF CallStep, TranscribeAudio, JobStarts, JobEnds, CallGoesOn, ServiceAnswers,
           CallEnds, WaiterGone, callRest
  <1>3. tasks' = tasks => ListsTypeOK' /\ Commands' = Commands
    BY <1>2, CommandsGrow
  <1>4. tasks' = Append(tasks, <<"call", c>>)
          => ListsTypeOK' /\ Commands' = Append(Commands, <<"call", c>>)
    BY <1>1, <1>2, CommandsGrow
  <1>5. CASE TranscribeAudio(c)
    <2>1. /\ SemaphoreHolds' /\ tasks' = tasks
          /\ \A d \in Calls : d # c => call'[d] = call[d] /\ job'[d] = job[d]
          /\ \/ call'[c] = "working" /\ job'[c] = "queued"
             \/ call'[c] = "waiting" /\ job'[c] = job[c]
      BY <1>5, TranscribeKeeps DEF TranscribeAudio
    <2>2. call[c] = "new" /\ job[c] = "none"
      BY <1>5 DEF TranscribeAudio, JobHolds
    <2>3. JobHolds' /\ \A d \in Calls : Final(d) => Final(d)'
      BY <1>2, <2>1, <2>2 DEF JobHolds, Final
    <2>4. QED
      BY <1>3, <2>1, <2>3 DEF CallMoves
  <1>6. CASE JobStarts(c)
    <2>1. /\ job[c] = "queued" /\ job' = [job EXCEPT ![c] = "running"] /\ tasks' = tasks
          /\ UNCHANGED <<permits, waiting, call>>
      BY <1>6 DEF JobStarts
    <2>2. job' \in [Calls -> JobStates] /\ \A d \in Calls : job'[d] = IF d = c THEN "running" ELSE job[d]
      BY <1>1, <2>1 DEF JobStates
    <2>3. SemaphoreHolds'
      BY <2>1, <2>2 DEF SemaphoreHolds, Working
    <2>4. call[c] = "working"
      BY <2>1 DEF JobHolds
    <2>5. JobHolds' /\ \A d \in Calls : Final(d) => Final(d)'
      BY <1>2, <2>1, <2>2, <2>4 DEF JobHolds, Final
    <2>6. QED
      BY <1>3, <2>1, <2>3, <2>5 DEF CallMoves
  <1>7. CASE JobEnds(c)
    <2>1. PICK end \in {"ok", "empty", "error"} :
            /\ job' = [job EXCEPT ![c] = end]
            /\ tasks' = IF stt = "vosk" /\ end = "ok" THEN Append(tasks, <<"call", c>>) ELSE tasks
      BY <1>7 DEF JobEnds
    <2>2. job[c] = "running" /\ UNCHANGED <<permits, waiting, call>>
      BY <1>7 DEF JobEnds
    <2>3. job' \in [Calls -> JobStates] /\ \A d \in Calls : job'[d] = IF d = c THEN end ELSE job[d]
      BY <1>1, <2>1 DEF JobStates
    <2>4. SemaphoreHolds'
      BY <2>2, <2>3 DEF SemaphoreHolds, Working
    <2>5. call[c] \notin {"new", "waiting", "asking"} /\ ~(call[c] = "error" /\ stt = "vosk")
      BY <2>2 DEF JobHolds
    <2>6. JobHolds' /\ \A d \in Calls : Final(d) => Final(d)'
      BY <1>2, <2>2, <2>3, <2>5 DEF JobHolds, Final
    <2>7. CASE stt = "vosk" /\ end = "ok"
      <3>1. ~Final(c) /\ Final(c)'
        BY <1>2, <2>2, <2>3, <2>7 DEF Final
      <3>2. QED
        BY <1>4, <2>1, <2>4, <2>6, <2>7, <3>1 DEF CallMoves
    <2>8. CASE ~(stt = "vosk" /\ end = "ok")
      BY <1>3, <2>1, <2>4, <2>6, <2>8 DEF CallMoves
    <2>9. QED
      BY <2>7, <2>8
  <1>8. CASE CallGoesOn(c)
    <2>1. call[c] = "working" /\ job[c] \in {"ok", "empty", "error"} /\ tasks' = tasks
      BY <1>8 DEF CallGoesOn
    <2>2. CASE stt = "deepgram" /\ job[c] # "error"
      <3>1. call' = [call EXCEPT ![c] = "asking"] /\ UNCHANGED <<permits, waiting, job>>
        BY <1>8, <2>2 DEF CallGoesOn
      <3>2. /\ call' \in [Calls -> CallStates]
            /\ \A d \in Calls : call'[d] = IF d = c THEN "asking" ELSE call[d]
        BY <1>1, <3>1 DEF CallStates, Busy
      <3>3. Working' = Working
        BY <2>1, <3>2 DEF Working, Busy
      <3>4. SemaphoreHolds'
        BY <2>1, <3>1, <3>2, <3>3 DEF SemaphoreHolds
      <3>5. JobHolds' /\ \A d \in Calls : Final(d) => Final(d)'
        BY <1>2, <2>1, <2>2, <3>1, <3>2 DEF JobHolds, Final
      <3>6. QED
        BY <1>3, <2>1, <3>4, <3>5 DEF CallMoves
    <2>3. CASE ~(stt = "deepgram" /\ job[c] # "error")
      <3> DEFINE answer == IF job[c] = "error" THEN "error" ELSE "ok"
      <3>1. Release(c, answer, job) /\ answer \in Answers /\ call[c] \in Busy
        BY <1>8, <2>1, <2>3 DEF CallGoesOn, Answers, Busy
      <3>2. (answer = "error" => job[c] = "error") /\ answer # "raised"
        OBVIOUS
      <3> HIDE DEF answer
      <3>3. SemaphoreHolds' /\ Released(c, answer, job)
        BY <1>1, <3>1, ReleaseKeeps
      <3>4. JobHolds' /\ \A d \in Calls : Final(d) => Final(d)'
        BY <1>1, <1>2, <2>1, <3>1, <3>2, <3>3, ReleasedJobs
      <3>5. QED
        BY <1>3, <2>1, <3>3, <3>4 DEF CallMoves
    <2>4. QED
      BY <2>2, <2>3
  <1>9. CASE ServiceAnswers(c)
    <2>1. call[c] = "asking" /\ call[c] \in Busy /\ stt = "deepgram" /\ job[c] \in {"ok", "empty"}
      BY <1>9 DEF ServiceAnswers, Busy, JobHolds
    <2>2. ASSUME NEW answer \in {"ok", "error"}, Release(c, answer, job)
          PROVE  /\ SemaphoreHolds' /\ JobHolds' /\ call'[c] = answer
                 /\ \A d \in Calls : Final(d) => Final(d)'
      <3>1. answer \in Answers
        BY DEF Answers
      <3>2. SemaphoreHolds' /\ Released(c, answer, job)
        BY <1>1, <2>1, <2>2, <3>1, ReleaseKeeps
      <3>3. JobHolds' /\ \A d \in Calls : Final(d) => Final(d)'
        BY <1>1, <1>2, <2>1, <3>1, <3>2, ReleasedJobs
      <3>4. QED
        BY <3>2, <3>3 DEF Released
    <2>3. CASE tasks' = Append(tasks, <<"call", c>>) /\ Release(c, "ok", job)
      <3>1. ~Final(c) /\ Final(c)'
        BY <1>2, <2>1, <2>2, <2>3 DEF Final
      <3>2. QED
        BY <1>4, <2>2, <2>3, <3>1 DEF CallMoves
    <2>4. CASE tasks' = tasks /\ \E answer \in {"ok", "error"} : Release(c, answer, job)
      BY <1>3, <2>2, <2>4 DEF CallMoves
    <2>5. QED
      BY <1>9, <2>3, <2>4 DEF ServiceAnswers
  <1>10. CASE CallEnds(c)
    <2> DEFINE jobs == IF job[c] = "queued" THEN [job EXCEPT ![c] = "cancelled"] ELSE job
    <2>1. PICK answer \in {IF stt = "vosk" THEN "timeout" ELSE "raised", "gone"} :
            Release(c, answer, jobs)
      BY <1>10 DEF CallEnds
    <2>2. /\ call[c] \in Busy /\ tasks' = tasks
          /\ answer \in Answers /\ answer # "error" /\ (answer = "raised" => stt = "deepgram")
      BY <1>10, <2>1 DEF CallEnds, Answers
    <2>3. /\ jobs \in [Calls -> JobStates] /\ jobs[c] # "queued"
          /\ job[c] = "ok" => jobs[c] = "ok"
          /\ \A d \in Calls : d # c => jobs[d] = job[d]
      BY <1>1 DEF JobStates
    <2> HIDE DEF jobs
    <2>4. SemaphoreHolds' /\ Released(c, answer, jobs)
      BY <2>1, <2>2, <2>3, ReleaseKeeps
    <2>5. JobHolds' /\ \A d \in Calls : Final(d) => Final(d)'
      BY <1>2, <2>2, <2>3, <2>4, ReleasedJobs
    <2>6. QED
      BY <1>3, <2>2, <2>4, <2>5 DEF CallMoves
  <1>11. CASE WaiterGone(c)
    <2>1. /\ SemaphoreHolds' /\ job' = job /\ tasks' = tasks
          /\ \A d \in Calls : d # c => call'[d] = call[d]
          /\ call'[c] = "gone"
      BY <1>11, WaiterKeeps DEF WaiterGone
    <2>2. call[c] = "waiting"
      BY <1>11 DEF WaiterGone
    <2>3. JobHolds' /\ \A d \in Calls : Final(d) => Final(d)'
      BY <1>2, <2>1, <2>2 DEF JobHolds, Final
    <2>4. QED
      BY <1>3, <2>1, <2>3 DEF CallMoves
  <1>12. QED
    BY <1>5, <1>6, <1>7, <1>8, <1>9, <1>10, <1>11 DEF CallStep

\* The list keeps the sentences of the calls once each.
LEMMA PlacedKept ==
  ASSUME ListsTypeOK, CallsPlaced, CallMoves
  PROVE  CallsPlaced'
  <1>1. CASE Commands' = Commands
    BY <1>1 DEF CallMoves, CallsPlaced
  <1>2. CASE \E c \in Calls : Commands' = Append(Commands, <<"call", c>>) /\ ~Final(c) /\ Final(c)'
    <2>1. PICK c \in Calls : Commands' = Append(Commands, <<"call", c>>) /\ ~Final(c) /\ Final(c)'
      BY <1>2
    <2>2. <<"call", c>> \in Sentences
      BY DEF Sentences
    <2>3. PICK n \in Nat :
            /\ DOMAIN Commands = 1..n /\ DOMAIN Commands' = 1..n + 1
            /\ \A i \in 1..n : Commands'[i] = Commands[i]
            /\ Commands'[n + 1] = <<"call", c>>
            /\ \A i \in 1..n + 1 : i \in 1..n \/ i = n + 1
      BY <2>1, <2>2, OneMore
    <2>4. \A i \in 1..n : Commands[i][1] = "call" => Commands[i][2] \in Calls /\ Final(Commands[i][2])
      BY <2>3 DEF CallsPlaced
    <2>5. \A d \in Calls : Final(d) \/ d = c =>
            (stt' = "vosk" /\ job'[d] = "ok") \/ (stt' = "deepgram" /\ call'[d] = "ok")
      BY <2>1 DEF CallMoves, Final
    <2>6. \A i \in 1..n + 1 : Commands'[i][1] = "call" =>
            LET d == Commands'[i][2]
            IN /\ d \in Calls
               /\ (stt' = "vosk" /\ job'[d] = "ok") \/ (stt' = "deepgram" /\ call'[d] = "ok")
      BY <2>3, <2>4, <2>5
    <2>7. ASSUME NEW i \in 1..n + 1, NEW j \in 1..n + 1, i < j,
                 Commands'[i][1] = "call", Commands'[j][1] = "call"
          PROVE  Commands'[i][2] # Commands'[j][2]
      <3>1. i \in 1..n /\ Commands'[i] = Commands[i]
        BY <2>3, <2>7
      <3>2. CASE j \in 1..n
        BY <2>3, <2>7, <3>1, <3>2 DEF CallsPlaced
      <3>3. CASE j = n + 1
        BY <2>1, <2>3, <2>4, <2>7, <3>1, <3>3
      <3>4. QED
        BY <2>3, <3>2, <3>3
    <2>8. QED
      BY <2>3, <2>6, <2>7 DEF CallsPlaced, Final
  <1>3. QED
    BY <1>1, <1>2 DEF CallMoves

\* A transcription whose call has failed has left nothing in the list.
LEMMA NothingLeft ==
  ASSUME STTEngines \subseteq {"vosk", "deepgram"}, stt \in STTEngines, ListsTypeOK, CallsHold
  PROVE  FailedCallLeavesNoTask
  <1> SUFFICES ASSUME NEW c \in Calls
               PROVE  LET times == Cardinality({i \in DOMAIN Commands : Commands[i] = <<"call", c>>})
                      IN /\ times <= 1
                         /\ times = 1 => \/ call[c] = "ok"
                                         \/ stt = "vosk" /\ call[c] \in {"working", "timeout", "gone"}
    BY DEF FailedCallLeavesNoTask
  <1> DEFINE T == {i \in DOMAIN Commands : Commands[i] = <<"call", c>>}
  <1>1. DOMAIN Commands \subseteq Nat
    BY CommandsGrow, LenProperties
  <1>2. \A i, j \in T : i = j
    <2>1. SUFFICES ASSUME NEW i \in T, NEW j \in T, i < j PROVE FALSE
      BY <1>1
    <2>2. Commands[i][1] = "call" /\ Commands[j][1] = "call" /\ Commands[i][2] = Commands[j][2]
      OBVIOUS
    <2>3. QED
      BY <2>1, <2>2 DEF CallsHold, CallsPlaced
  <1>3. CASE T = {}
    BY <1>3, FS_EmptySet
  <1>4. CASE T # {}
    <2>1. PICK i \in T : TRUE
      BY <1>4
    <2>2. T = {i}
      BY <1>2, <2>1
    <2>3. Cardinality(T) = 1
      BY <2>2, FS_Singleton
    <2>4. Final(c)
      <3>1. i \in DOMAIN Commands /\ Commands[i][1] = "call" /\ Commands[i][2] = c
        BY <2>1
      <3>2. QED
        BY <3>1 DEF CallsHold, CallsPlaced
    <2>5. CASE stt = "deepgram" /\ call[c] = "ok"
      BY <2>3, <2>5
    <2>6. CASE stt = "vosk" /\ job[c] = "ok"
      <3>1. call[c] \notin {"new", "waiting", "asking", "error", "raised"}
        BY <2>6 DEF CallsHold, JobHolds
      <3>2. call[c] \in {"new", "waiting", "working", "asking", "ok", "error", "timeout",
                         "raised", "gone"}
        BY DEF CallsHold, SemaphoreHolds, CallStates, Busy, Answers
      <3>3. QED
        BY <2>3, <2>6, <3>1, <3>2
    <2>7. QED
      BY <2>4, <2>5, <2>6 DEF Final
  <1>5. QED
    BY <1>3, <1>4

-----------------------------------------------------------------------------
(* The hotword loop of the deepgram device.                                  *)

LEMMA StreamTypes ==
  ASSUME StreamTypeOK, StreamNext
  PROVE  StreamTypeOK'
  <1>1. /\ MicQueueSize \in Nat /\ SendQueueSize \in Nat /\ PreRoll \in 1..SendQueueSize
        /\ heard \in 0..MicQueueSize /\ unsent \in 0..SendQueueSize
    BY StreamAssumption DEF StreamTypeOK
  <1> USE DEF StreamTypeOK, senderVars
  <1>2. CASE MicFrame \/ StopDevice \/ SenderSends
    <2>1. CASE MicFrame
      <3>1. heard' \in 0..MicQueueSize
        BY <1>1, <2>1 DEF MicFrame
      <3>2. QED
        BY <2>1, <3>1 DEF MicFrame
    <2>2. CASE StopDevice
      BY <2>2 DEF StopDevice
    <2>3. CASE SenderSends
      BY <2>3 DEF SenderSends
    <2>4. QED
      BY <1>2, <2>1, <2>2, <2>3
  <1>3. CASE SenderGets
    BY <1>1, <1>3 DEF SenderGets
  <1>4. CASE OpenMic \/ Retry \/ SilentFrame \/ SilentStall \/ SilentStop
    BY <1>1, <1>4 DEF OpenMic, Retry, SilentFrame, SilentStall, SilentStop
  <1>5. CASE Connect
    <2>1. unsent' \in 0..SendQueueSize
      BY <1>1, <1>5 DEF Connect
    <2>2. QED
      BY <1>5, <2>1 DEF Connect
  <1>6. CASE SessionFrame
    BY <1>1, <1>6 DEF SessionFrame, Finish
  <1>7. CASE SessionStall \/ SessionSilence \/ SessionStop \/ PutSentinel
    BY <1>7 DEF SessionStall, SessionSilence, SessionStop, PutSentinel, Finish
  <1>8. CASE JoinSender
    <2>1. PICK why \in IF sender = "failed" THEN {"error"} ELSE {reason, "error"} :
            /\ reason' = why
            /\ stage' = CASE why = "silence" -> "silence"
                          [] why = "stop"    -> "over"
                          [] OTHER           -> "retry"
      BY <1>8 DEF JoinSender
    <2>3. why \in {"none", "silence", "error", "stall", "stop"}
      BY <2>1
    <2>4. stage' \in {"silence", "over", "retry"} /\ reason' = why
      BY <2>1
    <2>5. 0 \in 0..SendQueueSize
      BY <1>1
    <2>2. sender' = "none" /\ unsent' = 0 /\ sentinel' = FALSE /\ UNCHANGED <<deviceOn, heard>>
      BY <1>8 DEF JoinSender
    <2>6. QED
      BY <2>2, <2>3, <2>4, <2>5
  <1>9. QED
    BY <1>2, <1>3, <1>4, <1>5, <1>6, <1>7, <1>8 DEF StreamNext, HotwordLoop

-----------------------------------------------------------------------------
(* The invariant of the layer.                                               *)

LayerInv ==
  /\ DevicesInv
  /\ MicTypeOK /\ ListsTypeOK /\ StreamTypeOK
  /\ MicHolds /\ CallsHold

\* The microphone leaves the calls alone, and their sentences where they are.
LEMMA CallsBesideMic ==
  ASSUME MicTypeOK, ListsTypeOK, CallsHold, MicNext, UNCHANGED callVars
  PROVE  CallsHold'
  <1>1. stt' = stt
    BY DEF MicNext, micVars, StartCapture, StopCapture, JoinCapture, CaptureLoop, LoopAgain,
           CreateDevice, CreateFails, ListDevice, HookCallback, OpenDevice, DeviceEnds, LoopEnds,
           loopRest, Hotword, Session, OnHotword, Sentence, ConnectionFails, ListenEnds, Enqueue,
           ExitTaskMode, GetPendingTasks, sessionRest
  <1>2. SemaphoreHolds' /\ JobHolds'
    BY <1>1 DEF CallsHold, SemaphoreHolds, JobHolds, Working, callVars
  <1>3. \A c \in Calls : Final(c)' <=> Final(c)
    BY <1>1 DEF Final, callVars
  <1>4. CASE Commands' = Commands
    BY <1>1, <1>2, <1>4 DEF CallsHold, CallsPlaced, Final, callVars
  <1>5. ASSUME NEW s \in 1..MaxHotwords, Commands' = Append(Commands, <<"mic", s>>)
        PROVE  CallsHold'
    <2>1. <<"mic", s>> \in Sentences
      BY DEF Sentences
    <2>2. PICK n \in Nat :
            /\ DOMAIN Commands = 1..n /\ DOMAIN Commands' = 1..n + 1
            /\ \A i \in 1..n : Commands'[i] = Commands[i]
            /\ Commands'[n + 1] = <<"mic", s>>
            /\ \A i \in 1..n + 1 : i \in 1..n \/ i = n + 1
      BY <1>5, <2>1, OneMore
    <2>3. \A i \in DOMAIN Commands' : Commands'[i][1] = "call" =>
            i \in DOMAIN Commands /\ Commands'[i] = Commands[i]
      BY <2>2
    <2>4. CallsPlaced'
      BY <1>1, <2>3 DEF CallsHold, CallsPlaced, Final, callVars
    <2>5. QED
      BY <1>2, <2>4 DEF CallsHold
  <1>6. Commands' = Commands \/ \E s \in 1..MaxHotwords : Commands' = Append(Commands, <<"mic", s>>)
    <2>1. CASE UNCHANGED <<tasks, taken>>
      BY <2>1, CommandsGrow
    <2>2. CASE GetPendingTasks
      BY <2>2, CommandsGrow DEF GetPendingTasks
    <2>3. ASSUME NEW s \in DOMAIN sessions, Enqueue(s), sessions[s].words
          PROVE  \E t \in 1..MaxHotwords : Commands' = Append(Commands, <<"mic", t>>)
      <3>1. s \in 1..MaxHotwords /\ <<"mic", s>> \in Sentences
        BY SessionPlaces, MicBoundAssumption DEF MicTypeOK, Sentences
      <3>2. Commands' = Append(Commands, <<"mic", s>>)
        BY <2>3, <3>1, CommandsGrow DEF Enqueue
      <3>3. QED
        BY <3>1, <3>2
    <2>4. \/ UNCHANGED <<tasks, taken>> \/ GetPendingTasks
          \/ \E s \in DOMAIN sessions : Enqueue(s) /\ sessions[s].words
      BY DEF MicNext, micVars, StartCapture, StopCapture, JoinCapture, CaptureLoop, LoopAgain,
             CreateDevice, CreateFails, ListDevice, HookCallback, OpenDevice, DeviceEnds, LoopEnds,
             loopRest, heardVars, Hotword, Session, OnHotword, Sentence, ConnectionFails,
             ListenEnds, Enqueue, ExitTaskMode
    <2>5. QED
      BY <2>1, <2>2, <2>3, <2>4
  <1>7. QED
    BY <1>4, <1>5, <1>6

\* The calls leave the microphone alone.
LEMMA CallsStep ==
  ASSUME MicTypeOK, ListsTypeOK, MicHolds, CallsHold, CallNext
  PROVE  MicTypeOK' /\ ListsTypeOK' /\ MicHolds' /\ CallsHold'
  <1>1. UNCHANGED <<stt, sessions, inTaskMode, forced>> /\ MicTypeOK'
    BY CallsLife DEF MicTypeOK
  <1>2. STTEngines \subseteq {"vosk", "deepgram"} /\ stt \in STTEngines
    BY STTAssumption DEF MicTypeOK
  <1>3. ASSUME NEW c \in Calls, CallStep(c) PROVE ListsTypeOK' /\ MicHolds' /\ CallsHold'
    <2>1. CallMoves /\ ListsTypeOK'
      BY <1>2, <1>3, CallStepMoves DEF CallsHold
    <2>2. CallsHold'
      BY <2>1, PlacedKept DEF CallsHold, CallMoves
    <2>3. MicHolds'
      BY <1>1, <2>1, MicHoldsStill, MicHoldsBesideCall DEF CallMoves
    <2>4. QED
      BY <2>1, <2>2, <2>3
  <1>4. CASE GetPendingTasks /\ UNCHANGED callVars
    <2>1. ListsTypeOK' /\ Commands' = Commands
      BY <1>4, CommandsGrow DEF GetPendingTasks
    <2>2. CallsHold'
      BY <1>1, <1>4, <2>1 DEF CallsHold, SemaphoreHolds, JobHolds, CallsPlaced, Final, Working, callVars
    <2>3. QED
      BY <1>1, <2>1, <2>2, MicHoldsStill
  <1>5. QED
    BY <1>1, <1>3, <1>4 DEF CallNext

LEMMA LayerInit ==
  ASSUME Init
  PROVE  LayerInv
  <1>1. DevicesInv
    BY DevicesInit
  <1>2. << >> \in Seq(Sessions) /\ Len(<< >>) = 0 /\ 1..0 = {} /\ DOMAIN << >> = {}
    BY EmptySeq
  <1>3. MicTypeOK
    <2>1. loop \in [at : Stages, device : Devices \cup {0}]
      BY DEF Init, MicInit, Stages
    <2>2. sessions \in Seq(Sessions) /\ Len(sessions) <= MaxHotwords /\ forced \subseteq DOMAIN sessions
      BY <1>2, MicBoundAssumption DEF Init, MicInit
    <2>3. /\ stt \in STTEngines /\ micStop \in BOOLEAN /\ micThread \in BOOLEAN
          /\ micDevice \in Devices \cup {0} /\ made \in Devices \cup {0}
          /\ hearing \subseteq Devices /\ inTaskMode \subseteq Devices
      BY DEF Init, MicInit
    <2>4. QED
      BY <2>1, <2>2, <2>3 DEF MicTypeOK, Stages
  <1>4. ListsTypeOK /\ Commands = << >>
    <2>1. tasks = << >> /\ taken = << >> /\ << >> \in Seq(Sentences)
      BY EmptySeq DEF Init, MicInit
    <2>2. << >> \o << >> = << >>
      BY <2>1, ConcatEmptySeq
    <2>3. QED
      BY <2>1, <2>2 DEF ListsTypeOK, Commands
  <1>5. StreamTypeOK
    <2>1. 0 \in 0..MicQueueSize /\ 0 \in 0..SendQueueSize
      BY StreamAssumption
    <2>2. QED
      BY <2>1 DEF Init, StreamInit, StreamTypeOK
  <1>6. MicHolds
    BY <1>2, <1>4 DEF Init, MicInit, MicHolds, TaskModeHolds, CommandsOver, CommandsInOrder
  <1>7. SemaphoreHolds
    <2>1. /\ permits = TranscribeMax /\ waiting = << >>
          /\ call = [c \in Calls |-> "new"] /\ job = [c \in Calls |-> "none"]
      BY DEF Init, CallInit
    <2>2. Working = {}
      BY <2>1 DEF Working, Busy
    <2>3. permits \in Nat /\ permits + Cardinality(Working) = TranscribeMax
      BY <2>1, <2>2, LimitAssumption, FS_EmptySet
    <2>4. IsQueue(waiting, Calls) /\ \A c \in Calls : call[c] = "waiting" <=> InQueue(c, waiting)
      BY <2>1, EmptyQueue
    <2>5. QED
      BY <2>1, <2>3, <2>4 DEF SemaphoreHolds, CallStates, JobStates
  <1>8. JobHolds /\ CallsPlaced
    BY <1>2, <1>4 DEF Init, CallInit, JobHolds, CallsPlaced
  <1>9. QED
    BY <1>1, <1>3, <1>4, <1>5, <1>6, <1>7, <1>8 DEF LayerInv, CallsHold

LEMMA LayerStep ==
  ASSUME LayerInv, [Next]_layerVars
  PROVE  LayerInv'
  <1>1. DevicesInv'
    BY DevicesStep DEF LayerInv
  <1> DEFINE Others == MicTypeOK /\ ListsTypeOK /\ MicHolds /\ CallsHold
  <1>2. Others /\ StreamTypeOK
    BY DEF LayerInv
  <1>3. UNCHANGED streamVars => StreamTypeOK'
    BY <1>2 DEF StreamTypeOK, streamVars
  <1>4. ASSUME UNCHANGED <<micVars, callVars>> PROVE Others'
    <2>1. MicTypeOK' /\ ListsTypeOK' /\ Commands' = Commands
      BY <1>2, <1>4 DEF micVars, MicTypeOK, ListsTypeOK, Commands
    <2>2. MicHolds'
      BY <1>2, <1>4, <2>1, MicHoldsStill DEF micVars
    <2>3. CallsHold'
      BY <1>2, <1>4, <2>1 DEF CallsHold, SemaphoreHolds, JobHolds, CallsPlaced, Final, Working,
                              callVars, micVars
    <2>4. QED
      BY <2>1, <2>2, <2>3
  <1>5. CASE Microphone
    <2>1. Others'
      BY <1>2, <1>5, MicTypes, MicHoldsKept, CallsBesideMic DEF Microphone
    <2>2. QED
      BY <1>1, <1>3, <1>5, <2>1 DEF Microphone, LayerInv
  <1>6. CASE TranscribeCalls
    <2>1. Others'
      BY <1>2, <1>6, CallsStep DEF TranscribeCalls
    <2>2. QED
      BY <1>1, <1>3, <1>6, <2>1 DEF TranscribeCalls, LayerInv
  <1>7. CASE HotwordDevice
    <2>1. StreamTypeOK'
      BY <1>2, <1>7, StreamTypes DEF HotwordDevice
    <2>2. QED
      BY <1>1, <1>4, <1>7, <2>1 DEF HotwordDevice, LayerInv
  <1>8. CASE Camera \/ StateService \/ UNCHANGED layerVars
    <2>1. UNCHANGED <<micVars, callVars, streamVars>>
      BY <1>8 DEF Camera, StateService, layerVars
    <2>2. QED
      BY <1>1, <1>3, <1>4, <2>1 DEF LayerInv
  <1>9. QED
    BY <1>5, <1>6, <1>7, <1>8 DEF Next

LEMMA LayerInvariance == Spec => []LayerInv
  <1>1. Init => LayerInv
    BY LayerInit
  <1>2. LayerInv /\ [Next]_layerVars => LayerInv'
    BY LayerStep
  <1>3. QED
    BY <1>1, <1>2, LayerSteps, PTL

\* Every service of the layer, with the lifespan and the watcher, keeps the
\* types its state has in the source.
THEOREM TypeCorrect == Spec => []LayerTypeOK
  <1>1. LayerInv => LayerTypeOK
    BY CallTypes DEF LayerInv, DevicesInv, CallsHold, LayerTypeOK
  <1>2. QED
    BY <1>1, LayerInvariance, PTL

\* For every number of hotwords and devices: the commands the microphone heard
\* come in the order of their hotwords and once each, however late a callback
\* ends, unless task mode was left before it had (stt/vosk.py, stt/deepgram.py).
THEOREM CommandsComeInOrder == Spec => []CommandsInOrder
  <1>1. LayerInv => CommandsInOrder
    BY DEF LayerInv, MicHolds
  <1>2. QED
    BY <1>1, LayerInvariance, PTL

\* For every number of calls and permits: a transcription appends its sentences
\* once at most, never for a call that answers with an error, and with deepgram
\* only for one that answers with them (audio_capture_controller.py).
THEOREM FailedCallsLeaveNothing == Spec => []FailedCallLeavesNoTask
  <1>1. LayerInv => FailedCallLeavesNoTask
    BY STTAssumption, NothingLeft DEF LayerInv, MicTypeOK
  <1>2. QED
    BY <1>1, LayerInvariance, PTL

\* For every number of calls and permits: the permits that are free and the calls
\* at work are all there are, and nobody waits beside a free one, however calls
\* answer, fail, run out of time or lose their clients (audio_capture_controller.py).
THEOREM PermitsAreKept == Spec => []NoPermitIsLost
  <1>1. LayerInv => NoPermitIsLost
    BY DEF LayerInv, CallsHold, SemaphoreHolds, Working, NoPermitIsLost
  <1>2. QED
    BY <1>1, LayerInvariance, PTL

=============================================================================
