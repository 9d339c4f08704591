----------------------------- MODULE Transcribe -----------------------------
(* The transcription of audio a client sends                                *)
(* (usecases/audio_capture_controller.py, stt/vosk.py, stt/deepgram.py),    *)
(* beside the microphone: a semaphore limits the calls, the default         *)
(* executor does the decoding, and what was recognised is put into the list *)
(* of commands and answered.  The job of vosk decodes, recognises and       *)
(* appends; that of deepgram decodes, and the call then asks the service.   *)
(* A call that has waited 30 s gives the semaphore back, and its job goes   *)
(* on; it answers 504 with vosk and raises with deepgram, whose service has *)
(* no TRANSCRIBE_TIMEOUT to put into the answer.                            *)
EXTENDS AudioCapture

CONSTANTS
  Calls,            \* the calls of transcribe_audio
  TranscribeMax,    \* transcribe_max_concurrency
  Workers           \* the threads of the default executor

ASSUME CallsAssumption == IsFiniteSet(Calls)
ASSUME LimitAssumption == TranscribeMax \in Nat \ {0} /\ Workers \in Nat \ {0}

VARIABLES
  permits,      \* what is left of the semaphore
  waiting,      \* the calls that wait for it
  call,         \* where each call is, or what it answered
  job           \* its job: whether it waits, runs or has ended, and how

callVars == <<permits, waiting, call, job>>

Busy == {"working", "asking"}
Answers == {"ok", "error", "timeout", "raised", "gone"}

CallTypeOK ==
  /\ permits \in 0..TranscribeMax
  /\ waiting \in Seq(Calls)
  /\ call \in [Calls -> {"new", "waiting"} \cup Busy \cup Answers]
  /\ job \in [Calls -> {"none", "queued", "running", "cancelled", "ok", "empty", "error"}]

CallInit ==
  /\ permits = TranscribeMax
  /\ waiting = <<>>
  /\ call = [c \in Calls |-> "new"]
  /\ job = [c \in Calls |-> "none"]

callRest == <<lifeVars, stt, micStop, micThread, loop, micDevice, made, hearing,
              inTaskMode, sessions, forced, taken>>

-----------------------------------------------------------------------------
TranscribeAudio(c) ==
  /\ call[c] = "new"
  /\ IF permits > 0 /\ waiting = <<>>
     THEN /\ permits' = permits - 1
          /\ call' = [call EXCEPT ![c] = "working"]
          /\ job' = [job EXCEPT ![c] = "queued"]
          /\ UNCHANGED waiting
     ELSE /\ waiting' = Append(waiting, c)
          /\ call' = [call EXCEPT ![c] = "waiting"]
          /\ UNCHANGED <<permits, job>>
  /\ UNCHANGED <<callRest, tasks>>

\* c answers and releases the semaphore to the first that waits; the job of c
\* is as in jobs.
Release(c, answer, jobs) ==
  IF waiting = <<>>
  THEN /\ permits' = permits + 1
       /\ call' = [call EXCEPT ![c] = answer]
       /\ job' = jobs
       /\ UNCHANGED waiting
  ELSE /\ waiting' = Tail(waiting)
       /\ call' = [call EXCEPT ![c] = answer, ![Head(waiting)] = "working"]
       /\ job' = [jobs EXCEPT ![Head(waiting)] = "queued"]
       /\ UNCHANGED permits

JobStarts(c) ==
  /\ job[c] = "queued"
  /\ Cardinality({d \in Calls : job[d] = "running"}) < Workers
  /\ job' = [job EXCEPT ![c] = "running"]
  /\ UNCHANGED <<callRest, tasks, permits, waiting, call>>

\* The job of vosk appends what it recognised, whoever still waits for it.
JobEnds(c) ==
  /\ job[c] = "running"
  /\ \E end \in {"ok", "empty", "error"} :
       /\ job' = [job EXCEPT ![c] = end]
       /\ tasks' = IF stt = "vosk" /\ end = "ok" THEN Append(tasks, <<"call", c>>)
                                                 ELSE tasks
  /\ UNCHANGED <<callRest, permits, waiting, call>>

\* mutant: deepgram's sentences are appended before the answer is complete
CallGoesOn_AppendFirst(c) ==
  /\ call[c] = "working" /\ job[c] \in {"ok", "empty", "error"}
  /\ IF stt = "deepgram" /\ job[c] # "error"
     THEN /\ call' = [call EXCEPT ![c] = "asking"]
          /\ tasks' = Append(tasks, <<"call", c>>)
          /\ UNCHANGED <<permits, waiting, job>>
     ELSE Release(c, IF job[c] = "error" THEN "error" ELSE "ok", job) /\ UNCHANGED tasks
  /\ UNCHANGED callRest

CallGoesOn(c) ==
  /\ call[c] = "working" /\ job[c] \in {"ok", "empty", "error"}
  /\ IF stt = "deepgram" /\ job[c] # "error"
     THEN call' = [call EXCEPT ![c] = "asking"] /\ UNCHANGED <<permits, waiting, job>>
     ELSE Release(c, IF job[c] = "error" THEN "error" ELSE "ok", job)
  /\ UNCHANGED <<callRest, tasks>>

\* The transcription service answers with text, without any, or fails.
ServiceAnswers(c) ==
  /\ call[c] = "asking"
  /\ \/ tasks' = Append(tasks, <<"call", c>>) /\ Release(c, "ok", job)
     \/ UNCHANGED tasks /\ \E answer \in {"ok", "error"} : Release(c, answer, job)
  /\ UNCHANGED callRest

\* mutant: a call that is cut off keeps its permit
CallEnds_KeepsPermit(c) ==
  /\ call[c] \in Busy
  /\ call' = [call EXCEPT ![c] = "gone"]
  /\ job' = IF job[c] = "queued" THEN [job EXCEPT ![c] = "cancelled"] ELSE job
  /\ UNCHANGED <<callRest, tasks, permits, waiting>>

\* 30 s are over, or the client has gone: a job that has not begun never will.
CallEnds(c) ==
  /\ call[c] \in Busy
  /\ \E answer \in {IF stt = "vosk" THEN "timeout" ELSE "raised", "gone"} :
       Release(c, answer, IF job[c] = "queued" THEN [job EXCEPT ![c] = "cancelled"] ELSE job)
  /\ UNCHANGED <<callRest, tasks>>

\* A call that waits leaves the queue of the semaphore.
Unqueue(c) ==
  \E i \in 1..Len(waiting) : waiting[i] = c /\ waiting' = RemoveAt(waiting, i)

\* mutant: a call that is gone before its turn gives back what it never had
WaiterGone_Releases(c) ==
  /\ call[c] = "waiting"
  /\ call' = [call EXCEPT ![c] = "gone"]
  /\ Unqueue(c)
  /\ permits' = permits + 1
  /\ UNCHANGED <<callRest, tasks, job>>

WaiterGone(c) ==
  /\ call[c] = "waiting"
  /\ call' = [call EXCEPT ![c] = "gone"]
  /\ Unqueue(c)
  /\ UNCHANGED <<callRest, tasks, permits, job>>

CallStep(c) ==
  \/ TranscribeAudio(c) \/ JobStarts(c) \/ JobEnds(c) \/ CallGoesOn(c)
  \/ ServiceAnswers(c) \/ CallEnds(c) \/ WaiterGone(c)

CallNext ==
  \/ \E c \in Calls : CallStep(c)
  \/ GetPendingTasks /\ UNCHANGED callVars

=============================================================================
