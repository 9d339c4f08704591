------------------------------- MODULE Speaker -------------------------------
(***************************************************************************)
(* The speaker of the middle layer: the tools of mcps/speaker.py, the      *)
(* speaker controller and the two service classes of                       *)
(* impl/speaker/base.py, of which the container builds one:                *)
(*   "openai"  AsyncSpeakerDeviceBase: a playback is a task of the event   *)
(*             loop and each chunk is written by a thread of its own;      *)
(*   "piper"   SyncSpeakerDeviceBase: a playback is a thread and its       *)
(*             chunks are written by one worker of its own.                *)
(*                                                                         *)
(* Every playback wants the one output stream.  A write may fail or hang;  *)
(* whoever sees that resets the stream, and so may the device watcher,     *)
(* while the thread of the hung write (an orphan) is still there.  A step  *)
(* is what a task does between two awaits, or what a thread does between   *)
(* two points where it blocks on the stream, on a lock or on a timeout.    *)
(*                                                                         *)
(* Time is left out: a wait may time out as soon as what it waits for is    *)
(* slow.  What goes wrong is counted, and MaxFaults bounds it.             *)
(***************************************************************************)
EXTENDS Integers, Sequences, FiniteSets, SequencesExt

CONSTANTS
  Engines,      \* the service classes the container may build
  Plays,        \* the playbacks: calls of speak_text and recorded_audio_speak
  Watcher,      \* the device watcher, the other one who resets the stream
  Times,        \* the "times" a clip may be asked for
  MaxSpeech,    \* bound: the most chunks a text is turned into
  MaxStreams,   \* bound: the streams that are open or in use, besides the first
  MaxFaults     \* bound: how many things go wrong, for each class

ASSUME EngineAssumption == Engines \subseteq {"openai", "piper"}
ASSUME PlayAssumption == IsFiniteSet(Plays) /\ Watcher \notin Plays
ASSUME TimesAssumption == Times \subseteq Int
ASSUME BoundAssumption == MaxSpeech \in Nat /\ MaxStreams \in Nat /\ MaxFaults \in [Engines -> Nat]

VARIABLES
  engine,       \* which of the two classes serves
  pc,           \* where each playback is
  left,         \* the chunks its source still has for it
  stopped,      \* its task was cancelled (openai), its event is set (piper)
  write,        \* the thread that writes its chunk, and the stream it writes to
  asyncLock,    \* async_device_lock: who owns it
  asyncQueue,   \* and who waits for it
  syncLock,     \* sync_device_lock: who owns it
  stream,       \* self.stream
  status,       \* what each stream is
  reset,        \* where each one's _reset_stream is, and the stream it took
  call,         \* where the call of each playback is, or how it ended
  late,         \* history: its chunks that began after it was stopped
  clash,        \* history: a reset did not have the stream to itself
  faults        \* history: how many things went wrong

taskVars == <<pc, left, stopped>>
asyncVars == <<asyncLock, asyncQueue>>
streamVars == <<stream, status>>
vars == <<engine, taskVars, write, asyncVars, syncLock, streamVars, reset, call,
          late, clash, faults>>

Actors == Plays \cup {Watcher}
Streams == 0 .. MaxStreams
Free == << >>                     \* nobody owns the lock
Owners == {Free} \cup (Actors \X {"task", "write", "reset"})

Over == {"ended", "raised", "cancelled"}
Active(p) == pc[p] \notin {"new"} \cup Over

\* A thread is inside _try_write.
InWrite(p) == write[p].at \in {"writing", "recovering", "rewriting"}
\* Or it has been handed the chunk and is not there yet.
WriteLive(p) == InWrite(p) \/ write[p].at = "begin"
ResetLive(a) == reset[a].at \in {"abort", "locking", "close", "create", "start"}

\* The thread outlived the playback that waited for it.
Orphan(p) == WriteLive(p) /\ pc[p] # "writing"

Writes == [at : {"idle", "begin", "writing", "recovering", "rewriting", "done", "failed"},
           on : Streams, slow : BOOLEAN]
Resets == [at : {"idle", "abort", "locking", "close", "create", "start", "done", "raised"},
           on : Streams]
NoWrite == [at |-> "idle", on |-> 0, slow |-> FALSE]
NoReset == [at |-> "idle", on |-> 0]

TypeOK ==
  /\ engine \in Engines
  /\ pc \in [Plays -> {"new", "ready", "queued", "polling", "acquiring",
                       "playing", "writing", "resetting"} \cup Over]
  /\ left \in [Plays -> Nat]
  /\ stopped \in [Plays -> BOOLEAN]
  /\ write \in [Plays -> Writes]
  /\ asyncLock \in {Free} \cup {<<p>> : p \in Plays}
  /\ asyncQueue \in Seq(Plays) /\ IsInjective(asyncQueue)
  /\ syncLock \in Owners
  /\ stream \in Streams
  /\ status \in [Streams -> {"running", "stopped", "closed"}]
  /\ reset \in [Actors -> Resets]
  /\ call \in [Plays -> {"none", "refused", "waiting", "told", "closing",
                         "timedOut", "gone"}]
  /\ late \in [Plays -> 0 .. 2]
  /\ clash \in BOOLEAN /\ faults \in 0 .. MaxFaults[engine]

\* The constructor opens and starts the first stream.
Init ==
  /\ engine \in Engines
  /\ pc = [p \in Plays |-> "new"]
  /\ left = [p \in Plays |-> 0]
  /\ stopped = [p \in Plays |-> FALSE]
  /\ write = [p \in Plays |-> NoWrite]
  /\ asyncLock = Free /\ asyncQueue = << >> /\ syncLock = Free
  /\ stream = 0
  /\ status = [s \in Streams |-> IF s = 0 THEN "running" ELSE "closed"]
  /\ reset = [a \in Actors |-> NoReset]
  /\ call = [p \in Plays |-> "none"]
  /\ late = [p \in Plays |-> 0]
  /\ clash = FALSE /\ faults = 0

\* One more thing goes wrong.
Fault == faults < MaxFaults[engine] /\ faults' = faults + 1

-----------------------------------------------------------------------------
(* The tools.                                                              *)

deviceRest == <<engine, write, asyncVars, syncLock, streamVars, reset, late, clash>>

\* A clip is one chunk each time it is played, and none if the file is empty;
\* it is played at least once.
ClipChunks(times) == {0, IF times > 1 THEN times ELSE 1}

\* What a text is turned into is up to the speech model.
SpeechChunks == 0 .. MaxSpeech

\* interrupt_all_task: every playback under way is cancelled, or has its event
\* set.
InterruptAll == [p \in Plays |-> stopped[p] \/ Active(p)]

\* _add_new_task: interrupt the others first, if asked; then a task (openai) or
\* a thread (piper) of its own.
AddTask(p, chunks, interrupt) ==
  /\ stopped' = IF interrupt THEN InterruptAll ELSE stopped
  /\ pc' = [pc EXCEPT ![p] = IF engine = "openai" THEN "ready" ELSE "polling"]
  /\ left' = [left EXCEPT ![p] = chunks]
  /\ call' = [call EXCEPT ![p] = "waiting"]
  /\ UNCHANGED <<deviceRest, faults>>

Answer(p, a) ==
  /\ call' = [call EXCEPT ![p] = a]
  /\ UNCHANGED <<deviceRest, taskVars>>

\* speak_text: an empty text is refused, and so is any text when the registry
\* says, or Piper itself, that the speech model could not be loaded.
SpeakText(p) ==
  /\ call[p] = "none"
  /\ \/ Answer(p, "refused") /\ UNCHANGED faults
     \/ \E n \in SpeechChunks, i \in BOOLEAN : AddTask(p, n, i)

\* recorded_audio_speak: a clip that is not there is refused.
PlayClip(p) ==
  /\ call[p] = "none"
  /\ \/ Answer(p, "refused") /\ UNCHANGED faults
     \/ \E t \in Times, i \in BOOLEAN : \E n \in ClipChunks(t) : AddTask(p, n, i)

\* stop_speaking.
StopSpeaking ==
  /\ stopped' = InterruptAll
  /\ UNCHANGED <<deviceRest, pc, left, call, faults>>

\* aspeak and aplay_file: the task is over, and the caller is told so: a success
\* if it "ended", an interruption if it was "cancelled", or the exception.
Return(p) ==
  /\ call[p] = "waiting" /\ pc[p] \in Over
  /\ Answer(p, "told") /\ UNCHANGED faults

CallTimeout_NoWait(p) ==      \* mutant: the task is not awaited after the timeout
  /\ call[p] = "waiting" /\ Active(p) /\ Fault
  /\ stopped' = [stopped EXCEPT ![p] = TRUE]
  /\ call' = [call EXCEPT ![p] = "timedOut"]
  /\ UNCHANGED <<deviceRest, pc, left>>

\* The minute is over: the playback is stopped, and its end awaited ...
CallTimeout(p) ==
  /\ call[p] = "waiting" /\ Active(p) /\ Fault
  /\ stopped' = [stopped EXCEPT ![p] = TRUE]
  /\ call' = [call EXCEPT ![p] = "closing"]
  /\ UNCHANGED <<deviceRest, pc, left>>

\* ... before the caller is told so.
TimedOut(p) ==
  /\ call[p] = "closing" /\ pc[p] \in Over
  /\ Answer(p, "timedOut") /\ UNCHANGED faults

\* The client gives up on its call.  The shield keeps the playback going; after
\* the timeout it was stopped already.
ClientGone(p) ==
  /\ call[p] \in {"waiting", "closing"} /\ Active(p)
  /\ Answer(p, "gone") /\ Fault

-----------------------------------------------------------------------------
(* The output stream and its reset.                                        *)

resetRest == <<engine, taskVars, write, asyncVars, call, late>>

\* A stream that is closed stays closed, whatever is called on it.
Turn(s, to) == status' = [status EXCEPT ![s] = IF @ = "closed" THEN @ ELSE to]

Open == {s \in Streams : status[s] # "closed"}

\* Streams that do not exist (any more) for anybody: a new one is one of them.
Fresh == {s \in Streams :
            /\ status[s] = "closed" /\ s # stream
            /\ \A p \in Plays : InWrite(p) => write[p].on # s
            /\ \A a \in Actors : reset[a].at = "close" => reset[a].on # s}

\* sync_device_lock is held by a thread whose write outlasts every wait.
Stuck == \E p \in Plays : syncLock = <<p, "write">> /\ write[p].slow

\* Or by a reset, which may be slow to open its stream.
ResetHolds == \E a \in Actors : syncLock = <<a, "reset">>

\* A lock its owner holds is given back.
Unlock(owner) == syncLock' = IF syncLock = owner THEN Free ELSE syncLock

\* _reset_stream begins.  Piper's takes no lock, so two of them may be under
\* way.
StartReset(a) ==
  /\ reset' = [reset EXCEPT ![a].at = "abort"]
  /\ clash' = (clash \/ (engine = "piper" /\ \E b \in Actors \ {a} : ResetLive(b)))

\* It ends, and the task or the watcher that waits for it learns how.
EndReset(a, at) ==
  /\ reset' = [reset EXCEPT ![a] =
                 IF a \in Plays /\ pc[a] # "resetting" THEN NoReset
                 ELSE [NoReset EXCEPT !.at = at]]
  /\ Unlock(<<a, "reset">>)

\* The watcher finds the stream inactive and restarts the service.  It is looked
\* at for one restart only: its backoff keeps the next one far away.
WatcherRestarts ==
  /\ status[stream] # "running" /\ reset[Watcher].at = "idle" /\ Fault
  /\ StartReset(Watcher)
  /\ UNCHANGED <<resetRest, syncLock, streamVars>>

\* abort() is called on the stream of the moment, to unblock whoever writes.
\* Piper goes on with that stream, OpenAI with whatever is there under the lock.
ResetAbort(a) ==
  /\ reset[a].at = "abort"
  /\ Turn(stream, "stopped")
  /\ reset' = [reset EXCEPT ![a] = IF engine = "openai" THEN [at |-> "locking", on |-> 0]
                                   ELSE [at |-> "close", on |-> stream]]
  /\ UNCHANGED <<resetRest, syncLock, stream, clash, faults>>

ResetLock_None(a) ==          \* mutant: the reset does not wait for the lock
  /\ reset[a].at = "locking"
  /\ reset' = [reset EXCEPT ![a].at = "close"]
  /\ UNCHANGED <<resetRest, syncLock, streamVars, clash, faults>>

\* OpenAI waits for the writer, or for another reset, to leave the lock, for a
\* time; then it forces ahead.
ResetLock(a) ==
  /\ reset[a].at = "locking"
  /\ reset' = [reset EXCEPT ![a].at = "close"]
  /\ \/ syncLock = Free /\ syncLock' = <<a, "reset">> /\ UNCHANGED clash
     \/ (Stuck \/ ResetHolds) /\ clash' = TRUE /\ UNCHANGED syncLock
  /\ UNCHANGED <<resetRest, streamVars, faults>>

ResetClose_Skipped(a) ==      \* mutant: the old stream is not closed
  /\ reset[a].at = "close"
  /\ reset' = [reset EXCEPT ![a] = [at |-> "create", on |-> 0]]
  /\ UNCHANGED <<resetRest, syncLock, streamVars, clash, faults>>

ResetClose(a) ==
  /\ reset[a].at = "close"
  /\ Turn(IF engine = "openai" THEN stream ELSE reset[a].on, "closed")
  /\ reset' = [reset EXCEPT ![a] = [at |-> "create", on |-> 0]]
  /\ UNCHANGED <<resetRest, syncLock, stream, clash, faults>>

\* _create_output_stream opens a stream, in mono, or in stereo where the device
\* has no mono; or it cannot, and the closed stream stays where it is.
CreateStream(a) ==
  /\ reset[a].at = "create"
  /\ \/ /\ Fresh # {}
        /\ LET new == CHOOSE s \in Fresh : TRUE
           IN  stream' = new /\ status' = [status EXCEPT ![new] = "stopped"]
        /\ reset' = [reset EXCEPT ![a].at = "start"]
        /\ UNCHANGED <<syncLock, faults>>
     \/ Fault /\ EndReset(a, "raised") /\ UNCHANGED streamVars
  /\ UNCHANGED <<resetRest, clash>>

\* start(), on whatever self.stream is by now.
ResetStart(a) ==
  /\ reset[a].at = "start"
  /\ Turn(stream, "running")
  /\ EndReset(a, IF status[stream] = "closed" THEN "raised" ELSE "done")
  /\ UNCHANGED <<resetRest, stream, clash, faults>>

\* The device drops out: the stream is no longer active.
Disconnect ==
  /\ status[stream] = "running" /\ Fault
  /\ status' = [status EXCEPT ![stream] = "stopped"]
  /\ UNCHANGED <<resetRest, syncLock, stream, reset, clash>>

-----------------------------------------------------------------------------
(* The thread that writes a chunk: __play_chunk (openai) and _try_write.   *)

writeRest == <<engine, taskVars, asyncVars, reset, call, clash>>

\* The thread ends.  Its playback may wait for it.
EndWrite(p, at) ==
  /\ write' = [write EXCEPT ![p] = IF pc[p] = "writing" THEN [NoWrite EXCEPT !.at = at]
                                   ELSE NoWrite]
  /\ Unlock(<<p, "write">>)

\* self.stream.write(chunk), on the stream of the moment.  OpenAI takes the lock
\* first, or skips the chunk when that takes too long.
WriteBegin(p) ==
  /\ write[p].at = "begin"
  /\ \/ /\ engine = "openai" => syncLock = Free
        /\ syncLock' = IF engine = "openai" THEN <<p, "write">> ELSE syncLock
        /\ write' = [write EXCEPT ![p] = [at |-> "writing", on |-> stream, slow |-> FALSE]]
        /\ late' = [late EXCEPT ![p] = IF stopped[p] /\ @ < 2 THEN @ + 1 ELSE @]
     \/ /\ engine = "openai" /\ (Stuck \/ ResetHolds)
        /\ EndWrite(p, "done")
        /\ UNCHANGED late
  /\ UNCHANGED <<writeRest, streamVars, faults>>

Writing(p) == write[p].at \in {"writing", "rewriting"}

\* The write hangs, or takes longer than the waits allow.
WriteSlow(p) ==
  /\ Writing(p) /\ ~write[p].slow /\ Fault
  /\ write' = [write EXCEPT ![p].slow = TRUE]
  /\ UNCHANGED <<writeRest, streamVars, syncLock, late>>

WriteOk(p) ==
  /\ Writing(p) /\ status[write[p].on] = "running"
  /\ EndWrite(p, "done")
  /\ UNCHANGED <<writeRest, streamVars, late, faults>>

\* The write raises, by itself or because its stream was stopped or closed: it
\* is tried once more, then the error goes up.
WriteError(p) ==
  /\ \/ status[write[p].on] # "running" /\ UNCHANGED faults
     \/ status[write[p].on] = "running" /\ Fault
  /\ \/ /\ write[p].at = "writing"
        /\ write' = [write EXCEPT ![p] = [NoWrite EXCEPT !.at = "recovering"]]
        /\ UNCHANGED syncLock
     \/ write[p].at = "rewriting" /\ EndWrite(p, "failed")
  /\ UNCHANGED <<writeRest, streamVars, late>>

\* stop(), start() and write() once more, on whatever self.stream is by now.
Recover(p) ==
  /\ write[p].at = "recovering"
  /\ Turn(stream, "running")
  /\ \/ /\ status[stream] # "closed"
        /\ write' = [write EXCEPT ![p] = [at |-> "rewriting", on |-> stream, slow |-> FALSE]]
        /\ UNCHANGED syncLock
     \/ status[stream] = "closed" /\ EndWrite(p, "failed")
  /\ UNCHANGED <<writeRest, stream, late, faults>>

-----------------------------------------------------------------------------
(* A playback: _aplay_stream (openai) or _play_stream (piper).             *)

taskRest == <<engine, stopped, streamVars, call, late>>

\* A task (openai) only runs on if it was not cancelled.
Runs(p) == engine = "openai" => ~stopped[p]

\* The playback is over: the lock it holds goes back; the rest of the source and
\* a thread or a reset that ended are forgotten.
Finish(p, how) ==
  /\ pc' = [pc EXCEPT ![p] = how]
  /\ left' = [left EXCEPT ![p] = 0]
  /\ asyncLock' = IF asyncLock = <<p>> THEN Free ELSE asyncLock
  /\ Unlock(<<p, "task">>)
  /\ write' = [write EXCEPT ![p] = IF WriteLive(p) THEN @ ELSE NoWrite]
  /\ reset' = [reset EXCEPT ![p] = IF ResetLive(p) THEN @ ELSE NoReset]

Move(p, to) ==
  /\ pc' = [pc EXCEPT ![p] = to]
  /\ UNCHANGED <<write, reset>>

\* OpenAI: the task runs and takes the free lock, or joins the queue.
Begin(p) ==
  /\ pc[p] = "ready" /\ Runs(p)
  /\ \/ /\ asyncLock = Free /\ asyncQueue = << >>
        /\ asyncLock' = <<p>> /\ UNCHANGED asyncQueue
        /\ Move(p, "playing")
     \/ /\ asyncLock # Free \/ asyncQueue # << >>
        /\ asyncQueue' = Append(asyncQueue, p) /\ UNCHANGED asyncLock
        /\ Move(p, "queued")
  /\ UNCHANGED <<taskRest, left, syncLock, clash, faults>>

\* The lock reaches the head of the queue.
Granted(p) ==
  /\ pc[p] = "queued" /\ Runs(p)
  /\ asyncLock = Free /\ Head(asyncQueue) = p
  /\ asyncLock' = <<p>> /\ asyncQueue' = Tail(asyncQueue)
  /\ Move(p, "playing")
  /\ UNCHANGED <<taskRest, left, syncLock, clash, faults>>

\* p leaves the queue from wherever it waits in it.
Unqueue(p) ==
  \E i \in 1 .. Len(asyncQueue) :
    asyncQueue[i] = p /\ asyncQueue' = RemoveAt(asyncQueue, i)

\* It does not in time: the playback is skipped, and returns as if played.
GiveUp(p) ==
  /\ pc[p] = "queued" /\ Runs(p) /\ Fault
  /\ Unqueue(p)
  /\ Move(p, "ended")
  /\ UNCHANGED <<taskRest, left, asyncLock, syncLock, clash>>

Poll_NoLock(p) ==             \* mutant: the thread goes on without the lock
  /\ pc[p] = "polling"
  /\ Move(p, IF stopped[p] THEN "ended" ELSE "playing")
  /\ UNCHANGED <<taskRest, left, syncLock, asyncVars, clash, faults>>

\* Piper: the thread looks at its event, then tries the lock for a moment.
Poll(p) ==
  /\ \/ /\ pc[p] = "polling"
        /\ Move(p, IF stopped[p] THEN "ended" ELSE "acquiring")
        /\ UNCHANGED syncLock
     \/ /\ pc[p] = "acquiring" /\ syncLock = Free
        /\ Move(p, "playing")
        /\ syncLock' = <<p, "task">>
     \/ /\ pc[p] = "acquiring" /\ syncLock # Free
        /\ Move(p, "polling")
        /\ UNCHANGED syncLock
  /\ UNCHANGED <<taskRest, left, asyncVars, clash, faults>>

\* A chunk is handed to a thread.
Submit(p) ==
  /\ pc' = [pc EXCEPT ![p] = "writing"]
  /\ write' = [write EXCEPT ![p] = [NoWrite EXCEPT !.at = "begin"]]
  /\ UNCHANGED <<left, asyncLock, syncLock, reset>>

NextChunk_PastEnd(p) ==       \* mutant: one chunk too many
  /\ pc[p] = "playing" /\ Runs(p)
  /\ \/ left[p] >= 0 /\ ~stopped[p] /\ Submit(p)
     \/ (left[p] < 0 \/ stopped[p]) /\ Finish(p, "ended")
  /\ UNCHANGED <<taskRest, asyncQueue, clash, faults>>

\* The source gives a chunk, and it is handed to a thread; or it has none left,
\* or it raises.  Piper looks at the event once it has the chunk.
NextChunk(p) ==
  /\ pc[p] = "playing" /\ Runs(p)
  /\ \/ left[p] > 0 /\ ~stopped[p] /\ Submit(p) /\ UNCHANGED faults
     \/ (left[p] = 0 \/ stopped[p]) /\ Finish(p, "ended") /\ UNCHANGED faults
     \/ Finish(p, "raised") /\ Fault
  /\ UNCHANGED <<taskRest, asyncQueue, clash>>

\* The chunk is written, or was skipped: on to the next one.
Wrote(p) ==
  /\ pc[p] = "writing" /\ write[p].at = "done" /\ Runs(p)
  /\ left' = [left EXCEPT ![p] = @ - 1]
  /\ pc' = [pc EXCEPT ![p] = "playing"]
  /\ write' = [write EXCEPT ![p] = NoWrite]
  /\ UNCHANGED <<taskRest, asyncVars, syncLock, reset, clash, faults>>

Bail_OnError(p) ==            \* mutant: the write has no timeout
  /\ pc[p] = "writing" /\ write[p].at = "failed" /\ Runs(p)
  /\ pc' = [pc EXCEPT ![p] = "resetting"]
  /\ write' = [write EXCEPT ![p] = NoWrite]
  /\ StartReset(p)
  /\ Unlock(<<p, "task">>)
  /\ UNCHANGED <<taskRest, left, asyncVars, faults>>

\* The write failed, or took too long and is left to itself: the stream is
\* reset.  Piper gives its lock back first; OpenAI keeps the async lock.
Bail(p) ==
  /\ pc[p] = "writing" /\ (write[p].at = "failed" \/ write[p].slow) /\ Runs(p)
  /\ pc' = [pc EXCEPT ![p] = "resetting"]
  /\ write' = [write EXCEPT ![p] = IF WriteLive(p) THEN @ ELSE NoWrite]
  /\ StartReset(p)
  /\ Unlock(<<p, "task">>)
  /\ UNCHANGED <<taskRest, left, asyncVars, faults>>

\* The reset is done, or raised, which ends the playback with the exception.
AfterReset(p) ==
  /\ pc[p] = "resetting" /\ Runs(p)
  /\ \/ reset[p].at = "done" /\ Finish(p, "ended")
     \/ reset[p].at = "raised" /\ Finish(p, "raised")
  /\ UNCHANGED <<taskRest, asyncQueue, clash, faults>>

\* OpenAI: CancelledError where the task is suspended.  Its threads go on.
Cancelled(p) ==
  /\ engine = "openai" /\ Active(p) /\ stopped[p]
  /\ IF pc[p] = "queued" THEN Unqueue(p) ELSE UNCHANGED asyncQueue
  /\ Finish(p, "cancelled")
  /\ UNCHANGED <<taskRest, clash, faults>>

-----------------------------------------------------------------------------

TaskStep(p) ==
  \/ Begin(p) \/ Granted(p) \/ GiveUp(p) \/ Poll(p) \/ NextChunk(p)
  \/ Wrote(p) \/ Bail(p) \/ AfterReset(p) \/ Cancelled(p)
WriteStep(p) == WriteBegin(p) \/ WriteOk(p) \/ Recover(p)
ResetStep(a) ==
  \/ ResetAbort(a) \/ ResetLock(a) \/ ResetClose(a) \/ CreateStream(a)
  \/ ResetStart(a)

Next ==
  \/ \E p \in Plays : SpeakText(p) \/ PlayClip(p)
  \/ StopSpeaking
  \/ \E p \in Plays : Return(p) \/ CallTimeout(p) \/ TimedOut(p) \/ ClientGone(p)
  \/ \E p \in Plays : TaskStep(p)
  \/ \E p \in Plays : WriteStep(p) \/ WriteSlow(p) \/ WriteError(p)
  \/ \E a \in Actors : ResetStep(a)
  \/ WatcherRestarts
  \/ Disconnect

Spec == Init /\ [][Next]_vars

\* What a thread does by itself: only a slow write on a running stream may take
\* for ever.
WriteGoesOn(p) ==
  \/ ~write[p].slow /\ WriteStep(p)
  \/ Writing(p) /\ status[write[p].on] # "running" /\ WriteError(p)

\* Tasks and threads run on, and the timeouts of their waits fire.  Nothing is
\* assumed of a slow write, nor of the clients, the watcher or the device.
Fairness ==
  /\ \A p \in Plays : /\ WF_vars(TaskStep(p))
                      /\ WF_vars(WriteGoesOn(p))
                      /\ WF_vars(Return(p) \/ TimedOut(p))
  /\ \A a \in Actors : WF_vars(ResetStep(a))

FairSpec == Spec /\ Fairness

-----------------------------------------------------------------------------
(* Properties.                                                             *)

\* A reset leaves one open stream at most behind it (_reset_stream), as long
\* as no reset forced its way past a writer (openai) and no two ran at the
\* same time (piper).
NoStreamIsLeaked == ~clash => Cardinality(Open) <= 1

\* At most one thread is in the write of the stream.  Piper gives its lock back
\* while a hung write goes on, so that orphans do not count there.
OneWriter ==
  Cardinality({p \in Plays : InWrite(p) /\ (engine = "piper" => ~Orphan(p))}) <= 1

\* OpenAI never replaces the stream under a thread that is inside _try_write,
\* unless a reset was forced: sync_device_lock keeps the two apart, orphans
\* and the watcher's restart included.
NoSwapUnderWriter ==
  [][engine = "openai" /\ stream' # stream /\ ~clash
       => \A p \in Plays : ~InWrite(p)]_vars

\* What stop_speaking and the interrupt flag come to: of a playback that was
\* stopped, only the chunk that was handed to its thread before may still begin.
\* That is less than the "immediately" of the tool's description: for a clip the
\* chunk is the whole file (whole_file=True), and what has begun is played out.
OneChunkAfterStop == \A p \in Plays : late[p] <= 1

\* An answer of aspeak or aplay_file means that the playback is over: only a
\* client that is gone leaves one behind.
AnswerMeansOver == \A p \in Plays : Active(p) => call[p] \in {"waiting", "closing", "gone"}

\* Every playback comes to its end and its caller is answered, though writes may
\* hang: the timeouts of the locks and of the chunks see to that.
EveryPlaybackEnds ==
  \A p \in Plays : Active(p) ~> pc[p] \in Over /\ call[p] \notin {"waiting", "closing"}

\* A hung write does not block the next one for ever: the chunk of a playback
\* that nobody stops gets to the stream (base.py, __play_chunk, _aplay_stream).
NextWriteIsMade ==
  \A p \in Plays : write[p].at = "begin" ~> InWrite(p) \/ stopped[p]

=============================================================================
