---------------------------- MODULE Speaker_proofs ----------------------------
(***************************************************************************)
(* Proofs about Speaker for both engines, any playbacks, any texts and     *)
(* clips, any number of streams and any number of faults.                  *)
(***************************************************************************)
EXTENDS Speaker, QueueLemmas, FiniteSetTheorems

\* Whoever waits for async_device_lock is in its queue, and nobody else is.
QueueHolds == \A p \in Plays : pc[p] = "queued" <=> InQueue(p, asyncQueue)

\* A playback that waits for a thread waits for a chunk of its source.
ChunkAtWork == \A p \in Plays : pc[p] = "writing" => left[p] > 0

\* A playback is there from its call on, and over when the caller is answered.
CallAndPlayback ==
  \A p \in Plays :
    /\ pc[p] = "new" <=> call[p] \in {"none", "refused"}
    /\ call[p] \in {"told", "timedOut"} => pc[p] \in Over

PlaybackInv == TypeOK /\ QueueHolds /\ ChunkAtWork /\ CallAndPlayback

-----------------------------------------------------------------------------
(* What the actions do to the parts of the state.                          *)

\* The records of the threads and of the resets that their steps make.
LEMMA RecordTypes ==
  /\ 0 \in Streams
  /\ NoWrite \in Writes
  /\ \A at \in {"begin", "recovering", "done", "failed"} : [NoWrite EXCEPT !.at = at] \in Writes
  /\ \A at \in {"writing", "rewriting"}, s \in Streams :
       [at |-> at, on |-> s, slow |-> FALSE] \in Writes
  /\ \A w \in Writes : [w EXCEPT !.slow = TRUE] \in Writes
  /\ NoReset \in Resets
  /\ \A at \in {"done", "raised"} : [NoReset EXCEPT !.at = at] \in Resets
  /\ \A at \in {"locking", "close", "create"}, s \in Streams : [at |-> at, on |-> s] \in Resets
  /\ \A r \in Resets, at \in {"abort", "close", "start"} : [r EXCEPT !.at = at] \in Resets
  /\ \A a \in Actors, role \in {"task", "write", "reset"} : <<a, role>> \in Owners
  /\ Free \in Owners
  <1>1. 0 \in Streams
    BY BoundAssumption DEF Streams
  <1>2. QED
    BY <1>1 DEF NoWrite, NoReset, Writes, Resets, Owners

\* speak_text and recorded_audio_speak refuse, or start a playback.
LEMMA ToolEffects ==
  ASSUME NEW p \in Plays, SpeakText(p) \/ PlayClip(p)
  PROVE  /\ call[p] = "none"
         /\ \/ Answer(p, "refused") /\ UNCHANGED faults
            \/ \E n \in Nat, i \in BOOLEAN : AddTask(p, n, i)
  <1>1. SpeechChunks \subseteq Nat
    BY BoundAssumption DEF SpeechChunks
  <1>2. \A t \in Times : ClipChunks(t) \subseteq Nat
    BY TimesAssumption DEF ClipChunks
  <1>3. QED
    BY <1>1, <1>2 DEF SpeakText, PlayClip

\* One more fault stays within the bound.
LEMMA FaultType ==
  ASSUME TypeOK, Fault
  PROVE  faults' \in 0 .. MaxFaults[engine]
  <1>1. MaxFaults[engine] \in Nat
    BY BoundAssumption DEF TypeOK
  <1>2. QED
    BY <1>1 DEF Fault, TypeOK

\* A call to the stream changes what it is, and nothing else.
LEMMA TurnType ==
  ASSUME TypeOK, NEW s \in Streams, NEW to \in {"running", "stopped", "closed"},
         Turn(s, to)
  PROVE  status' \in [Streams -> {"running", "stopped", "closed"}]
  BY DEF Turn, TypeOK

-----------------------------------------------------------------------------
(* The playbacks, their queue and their calls.                             *)

\* Initially nobody plays.
LEMMA InitPlaybackInv == Init => PlaybackInv
  <1> SUFFICES ASSUME Init PROVE PlaybackInv
    OBVIOUS
  <1>1. IsQueue(asyncQueue, Plays) /\ \A p : ~InQueue(p, asyncQueue)
    BY EmptyQueue DEF Init
  <1>2. MaxFaults[engine] \in Nat
    BY BoundAssumption DEF Init
  <1>3. TypeOK
    <2>1. 0 \in Streams /\ NoWrite \in Writes /\ NoReset \in Resets /\ Free \in Owners
      BY RecordTypes
    <2>2. asyncQueue \in Seq(Plays) /\ IsInjective(asyncQueue)
      BY <1>1 DEF IsQueue
    <2>3. faults \in 0 .. MaxFaults[engine]
      BY <1>2 DEF Init
    <2>4. /\ write \in [Plays -> Writes] /\ reset \in [Actors -> Resets]
          /\ stream \in Streams /\ status \in [Streams -> {"running", "stopped", "closed"}]
          /\ syncLock \in Owners
      BY <2>1 DEF Init
    <2>5. QED
      BY <2>2, <2>3, <2>4 DEF Init, TypeOK
  <1>4. QueueHolds /\ ChunkAtWork /\ CallAndPlayback
    BY <1>1 DEF Init, QueueHolds, ChunkAtWork, CallAndPlayback
  <1>5. QED
    BY <1>3, <1>4 DEF PlaybackInv

\* The calls of the tools, their answers and their timeouts.
LEMMA CallsKeepPlaybackInv ==
  ASSUME PlaybackInv, NEW p \in Plays,
         SpeakText(p) \/ PlayClip(p) \/ Return(p) \/ CallTimeout(p) \/ TimedOut(p)
           \/ ClientGone(p)
  PROVE  PlaybackInv'
  <1> USE DEF PlaybackInv
  <1>1. ASSUME NEW a \in {"refused", "told", "timedOut", "gone"}, Answer(p, a),
               faults' \in 0 .. MaxFaults[engine],
               a = "refused" => call[p] = "none",
               a \in {"told", "timedOut"} => pc[p] \in Over,
               a # "refused" => call[p] \in {"waiting", "closing"}
        PROVE  PlaybackInv'
    BY <1>1 DEF TypeOK, QueueHolds, ChunkAtWork, CallAndPlayback, Answer, deviceRest,
                taskVars, asyncVars, streamVars
  <1>2. ASSUME NEW n \in Nat, NEW i \in BOOLEAN, AddTask(p, n, i), call[p] = "none"
        PROVE  PlaybackInv'
    <2>1. TypeOK'
      BY <1>2 DEF TypeOK, AddTask, InterruptAll, Active, deviceRest, asyncVars, streamVars
    <2>2. QueueHolds' /\ ChunkAtWork' /\ CallAndPlayback'
      BY <1>2 DEF TypeOK, AddTask, QueueHolds, ChunkAtWork, CallAndPlayback, deviceRest,
                  asyncVars, Over
    <2>3. QED
      BY <2>1, <2>2
  <1>3. CASE SpeakText(p) \/ PlayClip(p)
    BY <1>1, <1>2, <1>3, ToolEffects DEF TypeOK
  <1>4. CASE Return(p) \/ TimedOut(p)
    BY <1>1, <1>4 DEF TypeOK, Return, TimedOut
  <1>5. CASE CallTimeout(p)
    <2>1. TypeOK'
      BY <1>5, FaultType DEF TypeOK, CallTimeout, deviceRest, asyncVars, streamVars, Fault
    <2>2. QueueHolds' /\ ChunkAtWork' /\ CallAndPlayback'
      BY <1>5 DEF TypeOK, CallTimeout, QueueHolds, ChunkAtWork, CallAndPlayback,
                  deviceRest, asyncVars
    <2>3. QED
      BY <2>1, <2>2
  <1>6. CASE ClientGone(p)
    BY <1>1, <1>6, FaultType DEF ClientGone
  <1>7. QED
    BY <1>3, <1>4, <1>5, <1>6

\* A playback comes to its end, from wherever it is.
LEMMA FinishKeepsPlaybackInv ==
  ASSUME PlaybackInv, NEW p \in Plays, NEW how \in Over, Finish(p, how), Active(p),
         UNCHANGED taskRest, faults' \in 0 .. MaxFaults[engine], clash' \in BOOLEAN,
         \/ pc[p] # "queued" /\ UNCHANGED asyncQueue
         \/ Unqueue(p)
  PROVE  PlaybackInv'
  <1> USE DEF PlaybackInv
  <1>1. /\ IsQueue(asyncQueue', Plays)
        /\ \A q \in Plays : InQueue(q, asyncQueue') <=> InQueue(q, asyncQueue) /\ q # p
    <2>1. IsQueue(asyncQueue, Plays)
      BY DEF TypeOK, IsQueue
    <2>2. CASE pc[p] # "queued" /\ UNCHANGED asyncQueue
      BY <2>1, <2>2 DEF QueueHolds
    <2>3. CASE Unqueue(p)
      BY <2>1, <2>3, LeaveQueue DEF Unqueue
    <2>4. QED
      BY <2>2, <2>3
  <1>2. TypeOK'
    BY <1>1, RecordTypes DEF TypeOK, IsQueue, Finish, Unlock, taskRest, streamVars, Owners
  <1>3. QueueHolds' /\ ChunkAtWork' /\ CallAndPlayback'
    BY <1>1 DEF TypeOK, QueueHolds, ChunkAtWork, CallAndPlayback, Finish, taskRest,
                Over, Active
  <1>4. QED
    BY <1>2, <1>3

\* A playback moves on without its end, and without the queue.
LEMMA MoveKeepsPlaybackInv ==
  ASSUME PlaybackInv, NEW p \in Plays, TypeOK', Active(p), pc[p] # "queued",
         NEW to \in {"polling", "acquiring", "playing", "writing", "resetting"},
         pc' = [pc EXCEPT ![p] = to], to = "writing" => left'[p] > 0,
         \A q \in Plays \ {p} : left'[q] = left[q],
         UNCHANGED <<call, asyncQueue>>
  PROVE  PlaybackInv'
  BY DEF PlaybackInv, TypeOK, QueueHolds, ChunkAtWork, CallAndPlayback, Active, Over

\* The steps of a playback.
LEMMA TaskStepKeepsPlaybackInv ==
  ASSUME PlaybackInv, NEW p \in Plays, TaskStep(p)
  PROVE  PlaybackInv'
  <1> USE DEF PlaybackInv
  <1>1. IsQueue(asyncQueue, Plays)
    BY DEF TypeOK, IsQueue
  <1>2. CASE Begin(p)
    <2>1. ~InQueue(p, asyncQueue)
      BY <1>2 DEF QueueHolds, Begin
    <2>2. CASE asyncQueue' = Append(asyncQueue, p) /\ asyncLock' = asyncLock
               /\ Move(p, "queued")
      <3>1. /\ IsQueue(asyncQueue', Plays)
            /\ \A q \in Plays : InQueue(q, asyncQueue') <=> InQueue(q, asyncQueue) \/ q = p
        BY <1>1, <2>1, <2>2, JoinQueue
      <3>2. TypeOK'
        BY <1>2, <2>2, <3>1 DEF TypeOK, IsQueue, Begin, Move, taskRest, streamVars
      <3>3. QueueHolds' /\ ChunkAtWork' /\ CallAndPlayback'
        BY <1>2, <2>2, <3>1 DEF TypeOK, QueueHolds, ChunkAtWork, CallAndPlayback, Begin,
                                Move, taskRest, Over
      <3>4. QED
        BY <3>2, <3>3
    <2>3. CASE asyncLock' = <<p>> /\ asyncQueue' = asyncQueue /\ Move(p, "playing")
      <3>1. TypeOK'
        BY <1>2, <2>3 DEF TypeOK, Begin, Move, taskRest, streamVars
      <3>2. QED
        BY <1>2, <2>3, <3>1, MoveKeepsPlaybackInv DEF Begin, Move, taskRest, Active, Over
    <2>4. QED
      BY <1>2, <2>2, <2>3 DEF Begin
  <1>3. CASE Granted(p)
    <2>1. asyncQueue # << >>
      <3>1. InQueue(p, asyncQueue)
        BY <1>3 DEF QueueHolds, Granted
      <3>2. QED
        BY <3>1, EmptyQueue
    <2>2. /\ IsQueue(asyncQueue', Plays)
          /\ \A q \in Plays : InQueue(q, asyncQueue') <=> InQueue(q, asyncQueue) /\ q # p
      BY <1>1, <1>3, <2>1, ServeQueue DEF Granted
    <2>3. TypeOK'
      BY <1>3, <2>2 DEF TypeOK, IsQueue, Granted, Move, taskRest, streamVars
    <2>4. QueueHolds' /\ ChunkAtWork' /\ CallAndPlayback'
      BY <1>3, <2>2 DEF TypeOK, QueueHolds, ChunkAtWork, CallAndPlayback, Granted, Move,
                        taskRest, Over
    <2>5. QED
      BY <2>3, <2>4
  <1>4. CASE GiveUp(p)
    <2>1. /\ IsQueue(asyncQueue', Plays)
          /\ \A q \in Plays : InQueue(q, asyncQueue') <=> InQueue(q, asyncQueue) /\ q # p
      BY <1>1, <1>4, LeaveQueue DEF GiveUp, Unqueue
    <2>2. TypeOK'
      BY <1>4, <2>1, FaultType DEF TypeOK, IsQueue, GiveUp, Move, taskRest, streamVars, Over
    <2>3. QueueHolds' /\ ChunkAtWork' /\ CallAndPlayback'
      BY <1>4, <2>1 DEF TypeOK, QueueHolds, ChunkAtWork, CallAndPlayback, GiveUp, Move,
                        taskRest, Over
    <2>4. QED
      BY <2>2, <2>3
  <1>5. CASE Poll(p)
    <2>1. TypeOK'
      BY <1>5 DEF TypeOK, Poll, Move, taskRest, asyncVars, streamVars, Over, Owners, Actors
    <2>2. ASSUME NEW to \in {"polling", "acquiring", "playing"}, Move(p, to) PROVE PlaybackInv'
      BY <1>5, <2>1, <2>2, MoveKeepsPlaybackInv
         DEF Poll, Move, taskRest, asyncVars, Active, Over
    <2>3. ASSUME Move(p, "ended") PROVE PlaybackInv'
      BY <1>5, <2>1, <2>3 DEF TypeOK, QueueHolds, ChunkAtWork, CallAndPlayback, Poll,
                              Move, taskRest, asyncVars, Over
    <2>4. QED
      BY <1>5, <2>2, <2>3 DEF Poll
  <1>6. CASE NextChunk(p)
    <2>1. ASSUME Submit(p), left[p] > 0, UNCHANGED faults PROVE PlaybackInv'
      <3>1. TypeOK'
        BY <1>6, <2>1, RecordTypes
           DEF TypeOK, NextChunk, Submit, NoWrite, taskRest, streamVars
      <3>2. QED
        BY <1>6, <2>1, <3>1, MoveKeepsPlaybackInv
           DEF NextChunk, Submit, taskRest, Active, Over
    <2>2. ASSUME NEW how \in {"ended", "raised"}, Finish(p, how),
                 faults' \in 0 .. MaxFaults[engine]
          PROVE  PlaybackInv'
      BY <1>6, <2>2, FinishKeepsPlaybackInv DEF NextChunk, Active, Over, TypeOK
    <2>3. QED
      BY <1>6, <2>1, <2>2, FaultType DEF NextChunk, TypeOK
  <1>7. CASE Wrote(p)
    <2>1. left[p] > 0
      BY <1>7 DEF ChunkAtWork, Wrote
    <2>2. TypeOK'
      <3>1. left[p] - 1 \in Nat /\ left' = [left EXCEPT ![p] = left[p] - 1]
        BY <1>7, <2>1 DEF TypeOK, Wrote
      <3>2. left' \in [Plays -> Nat]
        BY <3>1 DEF TypeOK
      <3>3. write' \in [Plays -> Writes]
        BY <1>7, RecordTypes DEF TypeOK, Wrote
      <3>4. QED
        BY <1>7, <3>1, <3>2, <3>3 DEF TypeOK, Wrote, taskRest, asyncVars, streamVars
    <2>3. /\ pc[p] = "writing" /\ pc' = [pc EXCEPT ![p] = "playing"]
          /\ \A q \in Plays \ {p} : left'[q] = left[q]
          /\ UNCHANGED <<call, asyncQueue>>
      BY <1>7 DEF TypeOK, Wrote, taskRest, asyncVars
    <2>4. QED
      BY <2>2, <2>3, MoveKeepsPlaybackInv DEF Active, Over
  <1>8. CASE Bail(p)
    <2>1. TypeOK'
      <3>1. /\ write' = [write EXCEPT ![p] = IF WriteLive(p) THEN @ ELSE NoWrite]
            /\ reset' = [reset EXCEPT ![p].at = "abort"] /\ clash' \in BOOLEAN
            /\ syncLock' \in {syncLock, Free} /\ pc' = [pc EXCEPT ![p] = "resetting"]
            /\ UNCHANGED <<taskRest, left, asyncVars, faults>>
        BY <1>8 DEF Bail, StartReset, Unlock, ResetLive, TypeOK
      <3>2. QED
        BY <3>1, RecordTypes DEF TypeOK, taskRest, asyncVars, streamVars, Owners, Actors
    <2>2. pc[p] = "writing" /\ pc' = [pc EXCEPT ![p] = "resetting"]
      BY <1>8 DEF Bail
    <2>3. UNCHANGED <<left, call, asyncQueue>>
      BY <1>8 DEF Bail, taskRest, asyncVars
    <2>4. QED
      BY <2>1, <2>2, <2>3, MoveKeepsPlaybackInv DEF Active, Over
  <1>9. CASE AfterReset(p)
    BY <1>9, FinishKeepsPlaybackInv DEF AfterReset, Active, Over, TypeOK
  <1>10. CASE Cancelled(p)
    BY <1>10, FinishKeepsPlaybackInv DEF Cancelled, Over, TypeOK
  <1>11. QED
    BY <1>2, <1>3, <1>4, <1>5, <1>6, <1>7, <1>8, <1>9, <1>10 DEF TaskStep

\* The steps of the writers, of the resets and of the device change no playback.
LEMMA DeviceKeepsPlaybackInv ==
  ASSUME PlaybackInv, TypeOK', UNCHANGED <<pc, left, call, asyncQueue>>
  PROVE  PlaybackInv'
  BY DEF PlaybackInv, QueueHolds, ChunkAtWork, CallAndPlayback

\* A thread goes on with its chunk, or ends.
LEMMA WriteStepKeepsPlaybackInv ==
  ASSUME PlaybackInv, NEW p \in Plays, WriteStep(p) \/ WriteSlow(p) \/ WriteError(p)
  PROVE  PlaybackInv'
  <1> USE RecordTypes DEF PlaybackInv
  <1>1. ASSUME NEW at \in {"done", "failed"}, EndWrite(p, at)
        PROVE  /\ write' \in [Plays -> Writes]
               /\ syncLock' \in Owners
    BY <1>1 DEF EndWrite, Unlock, TypeOK, Owners, NoWrite
  <1>2. CASE WriteBegin(p)
    <2>1. syncLock' \in Owners /\ UNCHANGED <<pc, left, call, asyncQueue>>
      <3>1. <<p, "write">> \in Owners /\ syncLock \in Owners
        BY DEF Actors, TypeOK
      <3>2. QED
        BY <1>1, <1>2, <3>1 DEF WriteBegin, writeRest, taskVars, asyncVars
    <2>2. write' \in [Plays -> Writes]
      <3>1. CASE EndWrite(p, "done")
        BY <1>1, <3>1
      <3>2. CASE write' = [write EXCEPT ![p] = [at |-> "writing", on |-> stream, slow |-> FALSE]]
        <4>1. stream \in Streams /\ write \in [Plays -> Writes]
          BY DEF TypeOK
        <4>2. [at |-> "writing", on |-> stream, slow |-> FALSE] \in Writes
          BY <4>1
        <4>3. QED
          BY <3>2, <4>1, <4>2
      <3>3. QED
        BY <1>2, <3>1, <3>2, SMTT(20) DEF WriteBegin
    <2>3. late' \in [Plays -> 0 .. 2]
      <3>1. late[p] \in 0 .. 2 /\ (late[p] < 2 => late[p] + 1 \in 0 .. 2)
        BY DEF TypeOK
      <3>2. \/ UNCHANGED late
            \/ late' = [late EXCEPT ![p] = IF stopped[p] /\ late[p] < 2 THEN late[p] + 1
                                                                      ELSE late[p]]
        BY <1>2 DEF WriteBegin
      <3>3. QED
        BY <3>1, <3>2 DEF TypeOK
    <2>4. TypeOK'
      BY <1>2, <2>1, <2>2, <2>3
         DEF TypeOK, WriteBegin, writeRest, taskVars, asyncVars, streamVars
    <2>5. QED
      BY <2>1, <2>4, DeviceKeepsPlaybackInv
  <1>3. CASE WriteOk(p)
    BY <1>1, <1>3, DeviceKeepsPlaybackInv
       DEF TypeOK, WriteOk, writeRest, taskVars, asyncVars, streamVars
  <1>4. CASE Recover(p)
    <2>1. status' \in [Streams -> {"running", "stopped", "closed"}]
      BY <1>4, TurnType DEF Recover, TypeOK
    <2>2. write' \in [Plays -> Writes] /\ syncLock' \in Owners
      BY <1>1, <1>4 DEF Recover, TypeOK
    <2>3. TypeOK'
      BY <1>4, <2>1, <2>2 DEF TypeOK, Recover, writeRest, taskVars, asyncVars
    <2>4. QED
      BY <1>4, <2>3, DeviceKeepsPlaybackInv DEF Recover, writeRest, taskVars, asyncVars
  <1>5. CASE WriteSlow(p)
    <2>1. TypeOK'
      <3>1. write' \in [Plays -> Writes]
        BY <1>5 DEF WriteSlow, TypeOK
      <3>2. faults' \in 0 .. MaxFaults[engine]
        BY <1>5, FaultType DEF WriteSlow
      <3>3. UNCHANGED <<writeRest, streamVars, syncLock, late>>
        BY <1>5 DEF WriteSlow
      <3>4. QED
        BY <3>1, <3>2, <3>3 DEF TypeOK, writeRest, taskVars, asyncVars, streamVars
    <2>2. QED
      BY <1>5, <2>1, DeviceKeepsPlaybackInv DEF WriteSlow, writeRest, taskVars, asyncVars
  <1>6. CASE WriteError(p)
    <2>1. faults' \in 0 .. MaxFaults[engine]
      BY <1>6, FaultType DEF WriteError, TypeOK
    <2>2. write' \in [Plays -> Writes] /\ syncLock' \in Owners
      BY <1>1, <1>6 DEF WriteError, TypeOK
    <2>3. TypeOK'
      BY <1>6, <2>1, <2>2 DEF TypeOK, WriteError, writeRest, taskVars, asyncVars, streamVars
    <2>4. QED
      BY <1>6, <2>3, DeviceKeepsPlaybackInv DEF WriteError, writeRest, taskVars, asyncVars
  <1>7. QED
    BY <1>2, <1>3, <1>4, <1>5, <1>6 DEF WriteStep

\* A reset that begins, goes on or ends, and a device that drops out.
LEMMA ResetStepKeepsPlaybackInv ==
  ASSUME PlaybackInv, NEW a \in Actors,
         ResetStep(a) \/ WatcherRestarts \/ Disconnect \/ StopSpeaking
  PROVE  PlaybackInv'
  <1> USE RecordTypes DEF PlaybackInv
  <1>1. ASSUME NEW at \in {"done", "raised"}, EndReset(a, at)
        PROVE  /\ reset' \in [Actors -> Resets]
               /\ syncLock' \in Owners
    BY <1>1 DEF EndReset, Unlock, TypeOK, Owners, NoReset
  <1>2. CASE ResetAbort(a)
    <2>1. status' \in [Streams -> {"running", "stopped", "closed"}]
      BY <1>2, TurnType DEF ResetAbort, TypeOK
    <2>2. TypeOK'
      BY <1>2, <2>1 DEF TypeOK, ResetAbort, resetRest, taskVars, asyncVars
    <2>3. QED
      BY <1>2, <2>2, DeviceKeepsPlaybackInv DEF ResetAbort, resetRest, taskVars, asyncVars
  <1>3. CASE ResetLock(a)
    <2>1. syncLock' \in Owners /\ clash' \in BOOLEAN
      BY <1>3 DEF ResetLock, TypeOK
    <2>2. TypeOK'
      BY <1>3, <2>1 DEF TypeOK, ResetLock, resetRest, taskVars, asyncVars, streamVars
    <2>3. QED
      BY <1>3, <2>2, DeviceKeepsPlaybackInv DEF ResetLock, resetRest, taskVars, asyncVars
  <1>4. CASE ResetClose(a)
    <2>1. status' \in [Streams -> {"running", "stopped", "closed"}]
      <3>1. reset[a].on \in Streams /\ stream \in Streams
        <4>1. reset[a] \in Resets /\ stream \in Streams
          BY DEF TypeOK
        <4>2. QED
          BY <4>1 DEF Resets
      <3>2. PICK s \in Streams : Turn(s, "closed")
        BY <1>4, <3>1 DEF ResetClose
      <3>3. QED
        BY <3>2, TurnType
    <2>2. TypeOK'
      BY <1>4, <2>1 DEF TypeOK, ResetClose, resetRest, taskVars, asyncVars
    <2>3. QED
      BY <1>4, <2>2, DeviceKeepsPlaybackInv DEF ResetClose, resetRest, taskVars, asyncVars
  <1>5. CASE CreateStream(a)
    <2>1. /\ stream' \in Streams
          /\ status' \in [Streams -> {"running", "stopped", "closed"}]
      <3>1. CASE Fresh # {}
        <4>1. (CHOOSE s \in Fresh : TRUE) \in Streams
          BY <3>1 DEF Fresh
        <4>2. QED
          BY <1>5, <4>1 DEF CreateStream, TypeOK, streamVars
      <3>2. QED
        BY <1>5, <3>1 DEF CreateStream, TypeOK, streamVars
    <2>2. /\ faults' \in 0 .. MaxFaults[engine] /\ syncLock' \in Owners
          /\ reset' \in [Actors -> Resets]
      <3>1. CASE Fault /\ EndReset(a, "raised")
        BY <1>1, <1>5, <3>1, FaultType DEF CreateStream, resetRest
      <3>2. CASE reset' = [reset EXCEPT ![a].at = "start"] /\ UNCHANGED <<syncLock, faults>>
        BY <1>5, <3>2 DEF CreateStream, resetRest, TypeOK
      <3>3. QED
        BY <1>5, <3>1, <3>2 DEF CreateStream
    <2>3. TypeOK'
      BY <1>5, <2>1, <2>2 DEF TypeOK, CreateStream, resetRest, taskVars, asyncVars
    <2>4. QED
      BY <1>5, <2>3, DeviceKeepsPlaybackInv DEF CreateStream, resetRest, taskVars, asyncVars
  <1>6. CASE ResetStart(a)
    <2>1. status' \in [Streams -> {"running", "stopped", "closed"}]
      BY <1>6, TurnType DEF ResetStart, TypeOK
    <2>2. TypeOK'
      BY <1>1, <1>6, <2>1 DEF TypeOK, ResetStart, resetRest, taskVars, asyncVars
    <2>3. QED
      BY <1>6, <2>2, DeviceKeepsPlaybackInv DEF ResetStart, resetRest, taskVars, asyncVars
  <1>7. CASE WatcherRestarts
    <2>1. faults' \in 0 .. MaxFaults[engine] /\ clash' \in BOOLEAN
      BY <1>7, FaultType DEF WatcherRestarts, StartReset, ResetLive, TypeOK
    <2>2. TypeOK'
      BY <1>7, <2>1 DEF TypeOK, WatcherRestarts, StartReset, resetRest, taskVars,
                        asyncVars, streamVars, Actors
    <2>3. QED
      BY <1>7, <2>2, DeviceKeepsPlaybackInv DEF WatcherRestarts, resetRest, taskVars, asyncVars
  <1>8. CASE Disconnect
    <2>1. TypeOK'
      BY <1>8, FaultType DEF TypeOK, Disconnect, resetRest, taskVars, asyncVars
    <2>2. QED
      BY <1>8, <2>1, DeviceKeepsPlaybackInv DEF Disconnect, resetRest, taskVars, asyncVars
  <1>9. CASE StopSpeaking
    <2>1. TypeOK'
      BY <1>9 DEF TypeOK, StopSpeaking, InterruptAll, Active, deviceRest, asyncVars, streamVars
    <2>2. QED
      BY <1>9, <2>1, DeviceKeepsPlaybackInv DEF StopSpeaking, deviceRest, asyncVars
  <1>10. QED
    BY <1>2, <1>3, <1>4, <1>5, <1>6, <1>7, <1>8, <1>9 DEF ResetStep

\* The invariant is inductive.
LEMMA PlaybackInvariance == Spec => []PlaybackInv
  <1>1. PlaybackInv /\ [Next]_vars => PlaybackInv'
    <2> SUFFICES ASSUME PlaybackInv, [Next]_vars PROVE PlaybackInv'
      OBVIOUS
    <2>1. CASE UNCHANGED vars
      <3>1. TypeOK'
        BY <2>1 DEF PlaybackInv, TypeOK, vars, taskVars, asyncVars, streamVars
      <3>2. QED
        BY <2>1, <3>1, DeviceKeepsPlaybackInv DEF vars, taskVars, asyncVars
    <2>2. Watcher \in Actors
      BY DEF Actors
    <2>3. QED
      BY <2>1, <2>2, CallsKeepPlaybackInv, TaskStepKeepsPlaybackInv,
         WriteStepKeepsPlaybackInv, ResetStepKeepsPlaybackInv DEF Next
  <1>2. QED
    BY InitPlaybackInv, <1>1, PTL DEF Spec

\* Every variable keeps its type; the queue of async_device_lock holds nobody
\* twice, and a playback never asks its source for less than nothing.
THEOREM TypeCorrect == Spec => []TypeOK
  BY PlaybackInvariance, PTL DEF PlaybackInv

\* An answer of aspeak or aplay_file means that the playback is over.
THEOREM AnswersMeanOver == Spec => []AnswerMeansOver
  <1>1. PlaybackInv => AnswerMeansOver
    BY DEF PlaybackInv, TypeOK, CallAndPlayback, AnswerMeansOver, Active
  <1>2. QED
    BY PlaybackInvariance, <1>1, PTL

-----------------------------------------------------------------------------
(* The chunks that begin after a stop.                                     *)

\* Once a chunk began after the stop, no other one is on its way: the playback
\* hands none over any more.
LateMeansStopped ==
  \A p \in Plays : late[p] <= 1 /\ (late[p] = 1 => stopped[p] /\ write[p].at # "begin")

\* It is enough that a stop is for ever, and that no chunk is handed over after it.
LEMMA LateKept ==
  ASSUME LateMeansStopped, UNCHANGED late,
         \A q \in Plays : stopped[q] => stopped'[q],
         \A q \in Plays : write'[q].at = "begin" => write[q].at = "begin" \/ ~stopped[q]
  PROVE  LateMeansStopped'
  BY DEF LateMeansStopped

\* The steps of a playback hand over a chunk of one that was not stopped, at most.
LEMMA TaskStepKeepsLate ==
  ASSUME PlaybackInv, LateMeansStopped, NEW p \in Plays, TaskStep(p)
  PROVE  LateMeansStopped'
  <1>1. UNCHANGED <<late, stopped>>
    BY DEF TaskStep, Begin, Granted, GiveUp, Poll, NextChunk, Wrote, Bail, AfterReset,
           Cancelled, taskRest
  <1>2. NoWrite.at # "begin" /\ write \in [Plays -> Writes]
    BY DEF NoWrite, PlaybackInv, TypeOK
  <1>3. \/ UNCHANGED write
        \/ write' = [write EXCEPT ![p] = IF WriteLive(p) THEN write[p] ELSE NoWrite]
        \/ write' = [write EXCEPT ![p] = NoWrite]
        \/ Submit(p) /\ ~stopped[p]
    BY DEF TaskStep, Begin, Granted, GiveUp, Poll, NextChunk, Wrote, Bail, AfterReset,
           Cancelled, Move, Finish
  <1>4. \A q \in Plays : write'[q].at = "begin" => write[q].at = "begin" \/ ~stopped[q]
    BY <1>2, <1>3 DEF Submit
  <1>5. QED
    BY <1>1, <1>4, LateKept

\* A thread begins one chunk, and none is on its way from then on.
LEMMA WriteStepKeepsLate ==
  ASSUME PlaybackInv, LateMeansStopped, NEW p \in Plays,
         WriteStep(p) \/ WriteSlow(p) \/ WriteError(p)
  PROVE  LateMeansStopped'
  <1>1. NoWrite.at # "begin" /\ write \in [Plays -> Writes] /\ UNCHANGED stopped
    BY DEF NoWrite, PlaybackInv, TypeOK, WriteStep, WriteBegin, WriteOk, Recover, WriteSlow,
           WriteError, writeRest, taskVars
  <1>2. ASSUME NEW at \in {"done", "failed"}, EndWrite(p, at), UNCHANGED late
        PROVE  LateMeansStopped'
    <2>1. [NoWrite EXCEPT !.at = at].at # "begin"
      BY DEF NoWrite
    <2>2. \A q \in Plays : write'[q].at = "begin" => write[q].at = "begin"
      BY <1>1, <1>2, <2>1 DEF EndWrite
    <2>3. QED
      BY <1>1, <1>2, <2>2, LateKept
  <1>3. CASE WriteBegin(p)
    <2>1. CASE EndWrite(p, "done") /\ UNCHANGED late
      BY <1>2, <2>1
    <2>2. CASE /\ write' = [write EXCEPT ![p] = [at |-> "writing", on |-> stream, slow |-> FALSE]]
               /\ late' = [late EXCEPT ![p] = IF stopped[p] /\ @ < 2 THEN @ + 1 ELSE @]
      <3>1. late[p] = 0
        BY <1>3 DEF WriteBegin, LateMeansStopped, PlaybackInv, TypeOK
      <3>2. late'[p] = (IF stopped[p] THEN 1 ELSE 0) /\ write'[p].at = "writing"
        BY <1>1, <2>2, <3>1 DEF PlaybackInv, TypeOK
      <3>3. \A q \in Plays \ {p} : late'[q] = late[q] /\ write'[q] = write[q]
        BY <1>1, <2>2 DEF PlaybackInv, TypeOK
      <3>4. QED
        BY <1>1, <3>2, <3>3 DEF LateMeansStopped
    <2>3. QED
      BY <1>3, <2>1, <2>2 DEF WriteBegin
  <1>4. CASE WriteOk(p)
    BY <1>2, <1>4 DEF WriteOk
  <1>5. CASE Recover(p)
    <2>1. CASE write' = [write EXCEPT ![p] = [at |-> "rewriting", on |-> stream, slow |-> FALSE]]
      BY <1>1, <1>5, <2>1, LateKept DEF Recover
    <2>2. QED
      BY <1>2, <1>5, <2>1 DEF Recover
  <1>6. CASE WriteSlow(p)
    <2>1. write'[p].at = write[p].at
      BY <1>1, <1>6 DEF WriteSlow, Writes
    <2>2. \A q \in Plays \ {p} : write'[q] = write[q]
      BY <1>1, <1>6 DEF WriteSlow
    <2>3. QED
      BY <1>1, <1>6, <2>1, <2>2, LateKept DEF WriteSlow
  <1>7. CASE WriteError(p)
    <2>1. CASE write' = [write EXCEPT ![p] = [NoWrite EXCEPT !.at = "recovering"]]
      <3>1. [NoWrite EXCEPT !.at = "recovering"].at # "begin"
        BY DEF NoWrite
      <3>2. \A q \in Plays : write'[q].at = "begin" => write[q].at = "begin"
        BY <1>1, <2>1, <3>1
      <3>3. QED
        BY <1>1, <1>7, <3>2, LateKept DEF WriteError
    <2>2. QED
      BY <1>2, <1>7, <2>1 DEF WriteError
  <1>8. QED
    BY <1>3, <1>4, <1>5, <1>6, <1>7 DEF WriteStep

\* The others stop playbacks, and write nothing.
LEMMA OthersKeepLate ==
  ASSUME PlaybackInv, LateMeansStopped, UNCHANGED <<late, write>>,
         \/ UNCHANGED stopped
         \/ stopped' = InterruptAll
         \/ \E p \in Plays : stopped' = [stopped EXCEPT ![p] = TRUE]
  PROVE  LateMeansStopped'
  <1>1. \A q \in Plays : stopped[q] => stopped'[q]
    BY DEF PlaybackInv, TypeOK, InterruptAll
  <1>2. QED
    BY <1>1, LateKept

\* Of a playback that was stopped at most one chunk still begins.
THEOREM AtMostOneChunkLate == Spec => []OneChunkAfterStop
  <1>1. Init => LateMeansStopped
    BY DEF Init, LateMeansStopped
  <1>2. PlaybackInv /\ LateMeansStopped /\ [Next]_vars => LateMeansStopped'
    <2> SUFFICES ASSUME PlaybackInv, LateMeansStopped, [Next]_vars PROVE LateMeansStopped'
      OBVIOUS
    <2>1. ASSUME NEW p \in Plays, SpeakText(p) \/ PlayClip(p) PROVE LateMeansStopped'
      BY <2>1, ToolEffects, OthersKeepLate DEF Answer, AddTask, deviceRest, taskVars
    <2>2. ASSUME NEW p \in Plays, Return(p) \/ CallTimeout(p) \/ TimedOut(p) \/ ClientGone(p)
          PROVE  LateMeansStopped'
      BY <2>2, OthersKeepLate
         DEF Return, CallTimeout, TimedOut, ClientGone, Answer, deviceRest, taskVars
    <2>3. CASE StopSpeaking
      BY <2>3, OthersKeepLate DEF StopSpeaking, deviceRest
    <2>4. CASE WatcherRestarts \/ Disconnect \/ \E a \in Actors : ResetStep(a)
      BY <2>4, OthersKeepLate
         DEF WatcherRestarts, Disconnect, ResetStep, ResetAbort, ResetLock, ResetClose,
             CreateStream, ResetStart, resetRest, taskVars
    <2>5. CASE UNCHANGED vars
      BY <2>5, OthersKeepLate DEF vars, taskVars
    <2>6. QED
      BY <2>1, <2>2, <2>3, <2>4, <2>5, TaskStepKeepsLate, WriteStepKeepsLate DEF Next
  <1>3. LateMeansStopped => OneChunkAfterStop
    BY DEF LateMeansStopped, OneChunkAfterStop
  <1>4. QED
    BY PlaybackInvariance, <1>1, <1>2, <1>3, PTL DEF Spec

-----------------------------------------------------------------------------
(* The writer has the lock.                                                *)

\* OpenAI's thread holds sync_device_lock from before its write until after it;
\* Piper's playback holds it as long as it plays or waits for its write.
WriterHasLock ==
  /\ engine = "openai" => \A p \in Plays : InWrite(p) => syncLock = <<p, "write">>
  /\ engine = "piper" =>
       \A p \in Plays : /\ pc[p] \in {"playing", "writing"} => syncLock = <<p, "task">>
                        /\ pc[p] \notin {"ready", "queued"}

\* Two owners of the lock differ in who they are or in what they own it for.
LEMMA OwnersDiffer ==
  /\ \A a, r : <<a, r>> # Free
  /\ \A a, b, r, t : <<a, r>> = <<b, t>> => a = b /\ r = t
  BY DEF Free

\* An engine is one of the two.
LEMMA TwoEngines ==
  ASSUME TypeOK
  PROVE  engine \in {"openai", "piper"}
  BY EngineAssumption DEF TypeOK

\* The tools and the callers touch neither the threads nor the lock.
LEMMA CallsKeepLock ==
  ASSUME PlaybackInv, WriterHasLock, NEW p \in Plays,
         SpeakText(p) \/ PlayClip(p) \/ Return(p) \/ CallTimeout(p) \/ TimedOut(p)
           \/ ClientGone(p)
  PROVE  WriterHasLock'
  <1>1. /\ UNCHANGED <<engine, write, syncLock>>
        /\ \/ UNCHANGED pc
           \/ pc' = [pc EXCEPT ![p] = IF engine = "openai" THEN "ready" ELSE "polling"]
    BY ToolEffects DEF Answer, AddTask, Return, CallTimeout, TimedOut, ClientGone,
                       deviceRest, taskVars
  <1>2. QED
    BY <1>1 DEF WriterHasLock, InWrite, PlaybackInv, TypeOK

\* A playback takes the free lock, and gives back its own.
LEMMA TaskStepKeepsLock ==
  ASSUME PlaybackInv, WriterHasLock, NEW p \in Plays, TaskStep(p)
  PROVE  WriterHasLock'
  <1> USE OwnersDiffer
  <1>1. UNCHANGED engine
    BY DEF TaskStep, Begin, Granted, GiveUp, Poll, NextChunk, Wrote, Bail, AfterReset,
           Cancelled, taskRest
  <1>2. NoWrite.at = "idle" /\ write \in [Plays -> Writes] /\ DOMAIN pc = Plays
    BY DEF NoWrite, PlaybackInv, TypeOK
  <1>3. CASE engine = "openai"
    <2>1. \/ UNCHANGED write
          \/ write' = [write EXCEPT ![p] = IF WriteLive(p) THEN write[p] ELSE NoWrite]
          \/ write' = [write EXCEPT ![p] = NoWrite]
          \/ write' = [write EXCEPT ![p] = [NoWrite EXCEPT !.at = "begin"]]
      BY DEF TaskStep, Begin, Granted, GiveUp, Poll, NextChunk, Wrote, Bail, AfterReset,
             Cancelled, Move, Finish, Submit
    <2>2. \A q \in Plays : InWrite(q)' => InWrite(q)
      BY <1>2, <2>1 DEF InWrite, NoWrite
    <2>3. \/ UNCHANGED syncLock
          \/ Unlock(<<p, "task">>)
          \/ syncLock = Free
      BY DEF TaskStep, Begin, Granted, GiveUp, Poll, NextChunk, Wrote, Bail, AfterReset,
             Cancelled, Finish, Submit
    <2>4. \A q \in Plays : syncLock = <<q, "write">> => UNCHANGED syncLock
      BY <2>3 DEF Unlock
    <2>5. QED
      BY <1>1, <1>3, <2>2, <2>4 DEF WriterHasLock
  <1>4. CASE engine = "piper"
    <2>1. CASE Poll(p)
      BY <1>1, <1>2, <1>4, <2>1 DEF WriterHasLock, Poll, Move
    <2>2. CASE NextChunk(p) \/ Wrote(p)
      BY <1>1, <1>2, <1>4, <2>2
         DEF WriterHasLock, NextChunk, Wrote, Submit, Finish, Unlock, Over
    <2>3. CASE Bail(p) \/ AfterReset(p)
      BY <1>1, <1>2, <1>4, <2>3
         DEF WriterHasLock, Bail, AfterReset, Finish, Unlock, Over
    <2>4. QED
      BY <1>4, <2>1, <2>2, <2>3
         DEF WriterHasLock, TaskStep, Begin, Granted, GiveUp, Cancelled
  <1>5. QED
    BY <1>3, <1>4, TwoEngines DEF PlaybackInv

\* A thread of OpenAI comes to its write with the lock, and gives it back.
LEMMA WriteStepKeepsLock ==
  ASSUME PlaybackInv, WriterHasLock, NEW p \in Plays,
         WriteStep(p) \/ WriteSlow(p) \/ WriteError(p)
  PROVE  WriterHasLock'
  <1> USE OwnersDiffer
  <1>1. UNCHANGED <<engine, pc>> /\ write \in [Plays -> Writes]
    BY DEF PlaybackInv, TypeOK, WriteStep, WriteBegin, WriteOk, Recover, WriteSlow,
           WriteError, writeRest, taskVars
  <1>2. \A q \in Plays \ {p} : write'[q] = write[q]
    BY <1>1 DEF WriteStep, WriteBegin, WriteOk, Recover, WriteSlow, WriteError, EndWrite
  <1>3. CASE engine = "openai"
    <2>1. /\ \/ UNCHANGED syncLock /\ (InWrite(p)' => InWrite(p))
             \/ Unlock(<<p, "write">>) /\ ~InWrite(p)'
             \/ syncLock = Free /\ syncLock' = <<p, "write">>
      <3>1. ASSUME NEW at \in {"done", "failed"}, EndWrite(p, at)
            PROVE  Unlock(<<p, "write">>) /\ ~InWrite(p)'
        BY <1>1, <3>1 DEF EndWrite, InWrite, NoWrite
      <3>2. CASE WriteBegin(p)
        BY <1>3, <3>1, <3>2 DEF WriteBegin
      <3>3. CASE WriteOk(p)
        BY <3>1, <3>3 DEF WriteOk
      <3>4. CASE Recover(p)
        BY <3>1, <3>4 DEF Recover, InWrite
      <3>5. CASE WriteSlow(p)
        BY <3>5 DEF WriteSlow, Writing, InWrite
      <3>6. CASE WriteError(p)
        BY <3>1, <3>6 DEF WriteError, InWrite
      <3>7. QED
        BY <3>2, <3>3, <3>4, <3>5, <3>6 DEF WriteStep
    <2>2. \A q \in Plays \ {p} : InWrite(q)' = InWrite(q)
      BY <1>2 DEF InWrite
    <2>3. QED
      BY <1>1, <1>3, <2>1, <2>2 DEF WriterHasLock, Unlock
  <1>4. CASE engine = "piper"
    <2>1. syncLock' \in {syncLock, Free} /\ (UNCHANGED syncLock \/ syncLock = <<p, "write">>)
      BY <1>4 DEF WriteStep, WriteBegin, WriteOk, Recover, WriteSlow, WriteError, EndWrite,
                  Unlock
    <2>2. QED
      BY <1>1, <1>4, <2>1 DEF WriterHasLock
  <1>5. QED
    BY <1>3, <1>4, TwoEngines DEF PlaybackInv

\* A reset takes the free lock, and gives back its own.
LEMMA ResetStepKeepsLock ==
  ASSUME PlaybackInv, WriterHasLock, NEW a \in Actors,
         ResetStep(a) \/ WatcherRestarts \/ Disconnect \/ StopSpeaking
  PROVE  WriterHasLock'
  <1>1. UNCHANGED <<engine, pc, write>>
    BY DEF ResetStep, ResetAbort, ResetLock, ResetClose, CreateStream, ResetStart,
           WatcherRestarts, Disconnect, StopSpeaking, resetRest, deviceRest, taskVars
  <1>2. UNCHANGED syncLock \/ syncLock = Free \/ Unlock(<<a, "reset">>)
    BY DEF ResetStep, ResetAbort, ResetLock, ResetClose, CreateStream, ResetStart,
           WatcherRestarts, Disconnect, StopSpeaking, deviceRest, EndReset
  <1>3. QED
    BY <1>1, <1>2, OwnersDiffer DEF WriterHasLock, InWrite, Unlock

\* It is inductive, given the types.
LEMMA LockInvariance == Spec => [](PlaybackInv /\ WriterHasLock)
  <1>1. Init => WriterHasLock
    BY DEF Init, WriterHasLock, InWrite, NoWrite
  <1>2. PlaybackInv /\ WriterHasLock /\ [Next]_vars => WriterHasLock'
    <2> SUFFICES ASSUME PlaybackInv, WriterHasLock, [Next]_vars PROVE WriterHasLock'
      OBVIOUS
    <2>1. CASE UNCHANGED vars
      BY <2>1 DEF vars, taskVars, WriterHasLock, InWrite
    <2>2. Watcher \in Actors
      BY DEF Actors
    <2>3. QED
      BY <2>1, <2>2, CallsKeepLock, TaskStepKeepsLock, WriteStepKeepsLock,
         ResetStepKeepsLock DEF Next
  <1>3. QED
    BY PlaybackInvariance, <1>1, <1>2, PTL DEF Spec

\* A set in which any two members are the same has one at most.
LEMMA AtMostOne ==
  ASSUME NEW S, \A x, y \in S : x = y
  PROVE  Cardinality(S) <= 1
  <1>1. CASE S = {}
    BY <1>1, FS_EmptySet
  <1>2. CASE S # {}
    <2>1. PICK x \in S : S = {x}
      BY <1>2
    <2>2. QED
      BY <2>1, FS_Singleton
  <1>3. QED
    BY <1>1, <1>2

\* Two threads are never in the write of the stream, Piper's orphans left aside.
THEOREM WritersExclude == Spec => []OneWriter
  <1>1. PlaybackInv /\ WriterHasLock => OneWriter
    <2> SUFFICES ASSUME PlaybackInv, WriterHasLock PROVE OneWriter
      OBVIOUS
    <2> DEFINE W == {p \in Plays : InWrite(p) /\ (engine = "piper" => ~Orphan(p))}
    <2>1. \A p \in W : engine = "piper" => pc[p] = "writing"
      BY DEF Orphan, WriteLive
    <2>2. \A p \in W : \E r : syncLock = <<p, r>>
      BY <2>1, TwoEngines DEF WriterHasLock, PlaybackInv
    <2>3. \A p, q \in W : p = q
      BY <2>2, OwnersDiffer
    <2>4. QED
      BY <2>3, AtMostOne DEF OneWriter
  <1>2. QED
    BY LockInvariance, <1>1, PTL

-----------------------------------------------------------------------------
(* The resets.                                                             *)

\* As long as no reset had to share: only the stream of the moment is open, and
\* whoever is about to make a new one has closed it.  Nobody else is there: with
\* OpenAI he holds sync_device_lock, with Piper no other reset is under way.
ResetAlone ==
  ~clash =>
    /\ Open \subseteq {stream}
    /\ \A a \in Actors : reset[a].at = "create" => status[stream] = "closed"
    /\ engine = "openai" =>
         \A a \in Actors : reset[a].at \in {"close", "create", "start"} => syncLock = <<a, "reset">>
    /\ engine = "piper" =>
         /\ \A a, b \in Actors : ResetLive(a) /\ ResetLive(b) => a = b
         /\ \A a \in Actors : reset[a].at = "close" => reset[a].on = stream
         /\ \A a \in Actors : reset[a].at # "locking"

\* It is enough that no reset goes on, that the same streams are closed, and that
\* no reset loses its lock.
LEMMA ResetsRest ==
  ASSUME PlaybackInv, ResetAlone, UNCHANGED <<engine, stream, clash>>,
         \A a \in Actors : reset'[a] = reset[a] \/ ~ResetLive(a)',
         \A s \in Streams : status'[s] = "closed" <=> status[s] = "closed",
         \A a \in Actors : ResetLive(a)' /\ syncLock = <<a, "reset">> => UNCHANGED syncLock
  PROVE  ResetAlone'
  <1>1. Open' = Open /\ stream \in Streams
    BY DEF Open, PlaybackInv, TypeOK
  <1>2. \A a \in Actors : ResetLive(a)' => ResetLive(a) /\ reset'[a] = reset[a]
    BY DEF ResetLive
  <1>3. QED
    BY <1>1, <1>2 DEF ResetAlone, ResetLive

\* A call to a stream that may reopen none.
LEMMA TurnClosesNone ==
  ASSUME TypeOK, NEW s \in Streams, NEW to \in {"running", "stopped"}, Turn(s, to)
  PROVE  \A r \in Streams : status'[r] = "closed" <=> status[r] = "closed"
  BY DEF Turn, TypeOK

\* The callers, the writers and the device leave the resets alone.
LEMMA OthersKeepAlone ==
  ASSUME PlaybackInv, ResetAlone, NEW p \in Plays,
         \/ SpeakText(p) \/ PlayClip(p) \/ Return(p) \/ CallTimeout(p) \/ TimedOut(p)
         \/ ClientGone(p) \/ WriteStep(p) \/ WriteSlow(p) \/ WriteError(p)
  PROVE  ResetAlone'
  <1>1. UNCHANGED <<engine, stream, clash, reset>>
    BY ToolEffects DEF Answer, AddTask, Return, CallTimeout, TimedOut, ClientGone, WriteStep,
       WriteBegin, WriteOk, Recover, WriteSlow, WriteError, deviceRest, writeRest, streamVars
  <1>2. \A s \in Streams : status'[s] = "closed" <=> status[s] = "closed"
    <2>1. UNCHANGED status \/ Turn(stream, "running")
      BY ToolEffects DEF Answer, AddTask, Return, CallTimeout, TimedOut, ClientGone, WriteStep,
         WriteBegin, WriteOk, Recover, WriteSlow, WriteError, deviceRest, streamVars
    <2>2. TypeOK /\ stream \in Streams
      BY DEF PlaybackInv, TypeOK
    <2>3. QED
      BY <2>1, <2>2, TurnClosesNone
  <1>3. UNCHANGED syncLock \/ syncLock = Free \/ Unlock(<<p, "write">>)
    BY ToolEffects DEF Answer, AddTask, Return, CallTimeout, TimedOut, ClientGone, WriteStep,
       WriteBegin, WriteOk, Recover, WriteSlow, WriteError, EndWrite, deviceRest, PlaybackInv,
       TypeOK
  <1>4. \A a \in Actors : syncLock = <<a, "reset">> => UNCHANGED syncLock
    BY <1>3, OwnersDiffer DEF Unlock
  <1>5. QED
    BY <1>1, <1>2, <1>4, ResetsRest

\* A reset begins.
LEMMA StartKeepsAlone ==
  ASSUME PlaybackInv, ResetAlone, NEW a \in Actors, StartReset(a),
         UNCHANGED <<engine, streamVars>>,
         \A b \in Actors : syncLock = <<b, "reset">> => UNCHANGED syncLock
  PROVE  ResetAlone'
  <1> SUFFICES ASSUME ~clash' PROVE ResetAlone'
    BY DEF ResetAlone
  <1>1. reset \in [Actors -> Resets] /\ Open' = Open
    BY DEF PlaybackInv, TypeOK, Open, streamVars
  <1>2. /\ reset'[a].at = "abort"
        /\ \A b \in Actors \ {a} : reset'[b] = reset[b]
    BY <1>1 DEF StartReset, Resets
  <1>3. ~clash /\ (engine = "piper" => \A b \in Actors \ {a} : ~ResetLive(b))
    BY DEF StartReset, PlaybackInv, TypeOK
  <1>4. QED
    BY <1>1, <1>2, <1>3 DEF ResetAlone, ResetLive, streamVars

\* The steps of a playback.
LEMMA TaskStepKeepsAlone ==
  ASSUME PlaybackInv, ResetAlone, NEW p \in Plays, TaskStep(p)
  PROVE  ResetAlone'
  <1>1. UNCHANGED <<engine, streamVars>>
    BY DEF TaskStep, Begin, Granted, GiveUp, Poll, NextChunk, Wrote, Bail, AfterReset,
           Cancelled, taskRest
  <1>2. \A a \in Actors : syncLock = <<a, "reset">> => UNCHANGED syncLock
    <2>1. UNCHANGED syncLock \/ syncLock = Free \/ Unlock(<<p, "task">>)
      BY DEF TaskStep, Begin, Granted, GiveUp, Poll, NextChunk, Wrote, Bail, AfterReset,
             Cancelled, Finish, Submit
    <2>2. QED
      BY <2>1, OwnersDiffer DEF Unlock
  <1>3. CASE Bail(p)
    BY <1>1, <1>2, <1>3, StartKeepsAlone DEF Bail, Actors
  <1>4. CASE ~Bail(p)
    <2>1. UNCHANGED clash
      BY <1>4 DEF TaskStep, Begin, Granted, GiveUp, Poll, NextChunk, Wrote, AfterReset, Cancelled
    <2>2. \/ UNCHANGED reset
          \/ reset' = [reset EXCEPT ![p] = IF ResetLive(p) THEN reset[p] ELSE NoReset]
      BY <1>4 DEF TaskStep, Begin, Granted, GiveUp, Poll, NextChunk, Wrote, AfterReset,
                  Cancelled, Move, Submit, Finish
    <2>3. \A a \in Actors : reset'[a] = reset[a] \/ ~ResetLive(a)'
      BY <2>2 DEF PlaybackInv, TypeOK, NoReset, ResetLive, Actors
    <2>4. QED
      BY <1>1, <1>2, <2>1, <2>3, ResetsRest DEF streamVars
  <1>5. QED
    BY <1>3, <1>4

\* A reset ends: it is not live any more, and only its own lock is given back.
LEMMA EndEffects ==
  ASSUME PlaybackInv, NEW a \in Actors, NEW at \in {"done", "raised"}, EndReset(a, at)
  PROVE  /\ ~ResetLive(a)'
         /\ \A b \in Actors : reset'[b] = reset[b] \/ ~ResetLive(b)'
         /\ \A b \in Actors : ResetLive(b)' /\ syncLock = <<b, "reset">> => UNCHANGED syncLock
  <1>1. reset \in [Actors -> Resets]
    BY DEF PlaybackInv, TypeOK
  <1>2. ~ResetLive(a)' /\ \A b \in Actors \ {a} : reset'[b] = reset[b]
    BY <1>1 DEF EndReset, ResetLive, NoReset
  <1>3. QED
    BY <1>2, OwnersDiffer DEF EndReset, Unlock

\* A reset goes on, or ends.
LEMMA ResetStepKeepsAlone ==
  ASSUME PlaybackInv, ResetAlone, NEW a \in Actors, ResetStep(a)
  PROVE  ResetAlone'
  <1> SUFFICES ASSUME ~clash' PROVE ResetAlone'
    BY DEF ResetAlone
  <1>1. /\ TypeOK /\ stream \in Streams /\ reset \in [Actors -> Resets]
        /\ status \in [Streams -> {"running", "stopped", "closed"}] /\ UNCHANGED engine
    BY DEF PlaybackInv, TypeOK, ResetStep, ResetAbort, ResetLock, ResetClose, CreateStream,
           ResetStart, resetRest
  <1>2. /\ \A b \in Actors \ {a} : reset'[b] = reset[b]
        /\ ~clash /\ ResetLive(a)
    BY <1>1 DEF ResetStep, ResetAbort, ResetLock, ResetClose, CreateStream, ResetStart,
                EndReset, ResetLive
  <1>3. CASE ResetAbort(a)
    <2>1. Open' = Open /\ UNCHANGED <<stream, syncLock>>
      BY <1>1, <1>3, TurnClosesNone DEF ResetAbort, Open
    <2>2. \A s \in Streams : status'[s] = "closed" <=> status[s] = "closed"
      BY <1>1, <1>3, TurnClosesNone DEF ResetAbort
    <2>3. reset'[a] = IF engine = "openai" THEN [at |-> "locking", on |-> 0]
                      ELSE [at |-> "close", on |-> stream]
      BY <1>1, <1>3 DEF ResetAbort
    <2>4. QED
      BY <1>1, <1>2, <2>1, <2>2, <2>3, TwoEngines DEF ResetAlone, ResetLive
  <1>4. CASE ResetLock(a)
    <2>1. Open' = Open /\ UNCHANGED <<stream, status>> /\ reset'[a].at = "close"
      BY <1>1, <1>4 DEF ResetLock, Open, streamVars, Resets
    <2>2. syncLock = Free /\ syncLock' = <<a, "reset">>
      BY <1>4 DEF ResetLock
    <2>3. engine = "openai"
      BY <1>1, <1>2, <1>4, TwoEngines DEF ResetAlone, ResetLock
    <2>4. QED
      BY <1>1, <1>2, <2>1, <2>2, <2>3, OwnersDiffer DEF ResetAlone
  <1>5. CASE ResetClose(a)
    <2>1. Turn(stream, "closed") /\ UNCHANGED <<stream, syncLock>>
      BY <1>1, <1>2, <1>5, TwoEngines DEF ResetAlone, ResetClose
    <2>2. status'[stream] = "closed" /\ Open' \subseteq Open
      BY <1>1, <2>1 DEF Turn, Open
    <2>3. reset'[a] = [at |-> "create", on |-> 0]
      BY <1>1, <1>5 DEF ResetClose
    <2>4. reset[a].at = "close"
      BY <1>5 DEF ResetClose
    <2>5. QED
      BY <1>1, <1>2, <2>1, <2>2, <2>3, <2>4, TwoEngines DEF ResetAlone, ResetLive
  <1>6. CASE CreateStream(a)
    <2>1. CASE EndReset(a, "raised") /\ UNCHANGED streamVars
      BY <1>1, <1>6, <2>1, EndEffects, ResetsRest DEF CreateStream, streamVars
    <2> DEFINE new == CHOOSE s \in Fresh : TRUE
    <2>2. CASE /\ Fresh # {} /\ stream' = new /\ status' = [status EXCEPT ![new] = "stopped"]
               /\ reset' = [reset EXCEPT ![a].at = "start"] /\ UNCHANGED syncLock
      <3>1. new \in Fresh
        BY <2>2
      <3> HIDE DEF new
      <3>2. Open = {}
        BY <1>2, <1>6 DEF ResetAlone, CreateStream, Open
      <3>3. Open' \subseteq {stream'}
        BY <1>1, <2>2, <3>1, <3>2 DEF Open, Fresh
      <3>4. reset[a].at = "create" /\ reset'[a].at = "start"
        BY <1>1, <1>6, <2>2 DEF CreateStream, Resets
      <3>5. \A b \in Actors \ {a} : reset[b].at \notin {"close", "create", "start"}
        BY <1>1, <1>2, <3>4, OwnersDiffer, TwoEngines DEF ResetAlone, ResetLive
      <3>6. QED
        BY <1>1, <1>2, <2>2, <3>3, <3>4, <3>5, TwoEngines DEF ResetAlone, ResetLive
    <2>3. QED
      BY <1>6, <2>1, <2>2 DEF CreateStream
  <1>7. CASE ResetStart(a)
    <2>1. \A s \in Streams : status'[s] = "closed" <=> status[s] = "closed"
      BY <1>1, <1>7, TurnClosesNone DEF ResetStart
    <2>2. \E at \in {"done", "raised"} : EndReset(a, at)
      BY <1>7 DEF ResetStart
    <2>3. QED
      BY <1>1, <1>7, <2>1, <2>2, EndEffects, ResetsRest DEF ResetStart
  <1>8. QED
    BY <1>3, <1>4, <1>5, <1>6, <1>7 DEF ResetStep

\* The two locks and the resets, all together.
SpeakerInv == PlaybackInv /\ WriterHasLock /\ ResetAlone

\* It is inductive.
LEMMA SpeakerInvariance == Spec => []SpeakerInv
  <1>1. Init => ResetAlone
    BY DEF Init, ResetAlone, Open, ResetLive, NoReset
  <1>2. PlaybackInv /\ ResetAlone /\ [Next]_vars => ResetAlone'
    <2> SUFFICES ASSUME PlaybackInv, ResetAlone, [Next]_vars PROVE ResetAlone'
      OBVIOUS
    <2>1. CASE UNCHANGED vars
      BY <2>1, ResetsRest DEF vars, streamVars
    <2>2. CASE WatcherRestarts
      BY <2>2, StartKeepsAlone DEF WatcherRestarts, resetRest, Actors
    <2>3. CASE Disconnect
      <3>1. \A s \in Streams : status'[s] = "closed" <=> status[s] = "closed"
        BY <2>3 DEF Disconnect, PlaybackInv, TypeOK
      <3>2. QED
        BY <2>3, <3>1, ResetsRest DEF Disconnect, resetRest
    <2>4. CASE StopSpeaking
      BY <2>4, ResetsRest DEF StopSpeaking, deviceRest, streamVars
    <2>5. QED
      BY <2>1, <2>2, <2>3, <2>4, OthersKeepAlone, TaskStepKeepsAlone, ResetStepKeepsAlone
         DEF Next
  <1>3. QED
    BY LockInvariance, <1>1, <1>2, PTL DEF Spec, SpeakerInv

\* A reset leaves one open stream at most behind it, unless it was forced past a
\* writer or had to share the stream with another reset.
THEOREM StreamsAreClosed == Spec => []NoStreamIsLeaked
  <1>1. SpeakerInv => NoStreamIsLeaked
    <2> SUFFICES ASSUME SpeakerInv, ~clash PROVE Cardinality(Open) <= 1
      BY DEF NoStreamIsLeaked
    <2>1. \A s, t \in Open : s = t
      BY DEF SpeakerInv, ResetAlone
    <2>2. QED
      BY <2>1, AtMostOne
  <1>2. QED
    BY SpeakerInvariance, <1>1, PTL

\* OpenAI does not replace the stream under a thread that writes to it, unless
\* the reset was forced.
THEOREM WriterKeepsItsStream == Spec => NoSwapUnderWriter
  <1> DEFINE Swap == engine = "openai" /\ stream' # stream /\ ~clash
                       => \A p \in Plays : ~InWrite(p)
  <1>1. SpeakerInv /\ [Next]_vars => [Swap]_vars
    <2> SUFFICES ASSUME SpeakerInv, Next, engine = "openai", stream' # stream, ~clash,
                        NEW p \in Plays, InWrite(p)
                 PROVE  FALSE
      BY DEF vars, streamVars
    <2>1. PICK a \in Actors : CreateStream(a)
      <3>1. CASE \E q \in Plays : SpeakText(q) \/ PlayClip(q)
        BY <3>1, ToolEffects DEF Answer, AddTask, deviceRest, streamVars
      <3>2. CASE \/ StopSpeaking
                 \/ \E q \in Plays : Return(q) \/ CallTimeout(q) \/ TimedOut(q) \/ ClientGone(q)
        BY <3>2 DEF StopSpeaking, Return, CallTimeout, TimedOut, ClientGone, Answer, deviceRest,
                    streamVars
      <3>3. CASE \E q \in Plays : TaskStep(q)
        BY <3>3 DEF TaskStep, Begin, Granted, GiveUp, Poll, NextChunk, Wrote, Bail, AfterReset,
                    Cancelled, taskRest, streamVars
      <3>4. CASE \E q \in Plays : WriteStep(q) \/ WriteSlow(q) \/ WriteError(q)
        BY <3>4 DEF WriteStep, WriteBegin, WriteOk, Recover, WriteSlow, WriteError, streamVars
      <3>5. CASE WatcherRestarts \/ Disconnect
        BY <3>5 DEF WatcherRestarts, Disconnect, streamVars
      <3>6. CASE \E b \in Actors : ResetStep(b)
        BY <3>6 DEF ResetStep, ResetAbort, ResetLock, ResetClose, ResetStart, streamVars
      <3>7. QED
        BY <3>1, <3>2, <3>3, <3>4, <3>5, <3>6 DEF Next
    <2>2. syncLock = <<a, "reset">>
      BY <2>1 DEF SpeakerInv, ResetAlone, CreateStream
    <2>3. syncLock = <<p, "write">>
      BY DEF SpeakerInv, WriterHasLock
    <2>4. QED
      BY <2>2, <2>3, OwnersDiffer
  <1>2. QED
    BY SpeakerInvariance, <1>1, PTL DEF Spec, NoSwapUnderWriter

=============================================================================
