-------------------------- MODULE SportControl_proofs --------------------------
(***************************************************************************)
(* Proofs about SportControl for any number of commands, any bounds, any   *)
(* modes and any replies.  The invariant IInv is inductive: mutual         *)
(* exclusion, the owner of every SDK call and the life of the cancel event *)
(* each need the others.                                                   *)
(***************************************************************************)
EXTENDS SportControl, SequenceTheorems, TLAPS

IInv == TypeOK /\ OneInside /\ SoleDriver /\ EventOfLoop

\* Whatever code a command runs inside the lock up to its next await, it ends
\* in one of two ways: it awaits an SDK call, with the event there exactly if
\* that call is a MOVE of the loop, or it returns one of the results in R, and
\* the event is gone.  The event it leaves behind was not set.
Advance(c, R) ==
  /\ \/ \E o \in Options, at \in InsideLock \ {"sleeping"} :
          Send(c, o, at) /\ (cancelEvent' # "none" <=> at = "moving")
     \/ \E r \in R : Return(c, r) /\ cancelEvent' = "none"
  /\ cancelEvent' \in {"none", "clear"}
  /\ ticks' \in [Commands -> 0 .. MaxTicks]
  /\ ahead' \in [Commands -> 0 .. MaxTicks]

\* The results of a command that was not interrupted, and of one that ran.
Finals == {"sent", "failed", "already", "completed", "nothing"}
Endings == Finals \cup {"interrupted"}

\* A worker's idle record is a job, and so is one that starts.
LEMMA JobTypes ==
  /\ NoJob \in Jobs
  /\ Attempts \in Nat /\ Attempts > 0
  /\ \A o \in Options :
       [opt |-> o, tries |-> Attempts, reply |-> "pending"] \in Jobs
  <1>1. Attempts \in Nat /\ Attempts > 0
    BY BoundAssumption DEF Attempts
  <1>2. QED
    BY <1>1 DEF Jobs, NoJob

\* What StartLeg does is an Advance.
LEMMA StartLegAdvances ==
  ASSUME TypeOK, NEW c \in Commands, NEW now \in 0 .. MaxTicks,
         NEW then \in 0 .. MaxTicks, StartLeg(c, now, then), NEW R
  PROVE  Advance(c, R)
  <1>1. ticks' \in [Commands -> 0 .. MaxTicks] /\ ahead' \in [Commands -> 0 .. MaxTicks]
    BY DEF StartLeg, TypeOK
  <1>2. CASE now > 0 /\ cancelEvent' = "clear" /\ Send(c, "MOVE", "moving")
    BY <1>1, <1>2 DEF Advance, Options, InsideLock
  <1>3. CASE now = 0 /\ FinishLeg(c)
    BY <1>1, <1>3 DEF FinishLeg, Advance, Options, InsideLock
  <1>4. QED
    BY <1>2, <1>3 DEF StartLeg

\* What BeginMotion does when no event is about is an Advance.
LEMMA BeginMotionAdvances ==
  ASSUME TypeOK, NEW c \in Commands, BeginMotion(c, "none")
  PROVE  Advance(c, Finals)
  <1>1. CASE kind[c] = "target" /\ ticks[c] = 0
    BY <1>1 DEF BeginMotion, Advance, Finals, Results, TypeOK
  <1>2. CASE ~(kind[c] = "target" /\ ticks[c] = 0)
    <2>1. StartLeg(c, ticks[c], ahead[c])
      BY <1>2 DEF BeginMotion
    <2>2. ticks[c] \in 0 .. MaxTicks /\ ahead[c] \in 0 .. MaxTicks
      BY DEF TypeOK
    <2>3. QED
      BY <2>1, <2>2, StartLegAdvances
  <1>3. QED
    BY <1>1, <1>2

\* What EndLeg does is an Advance.
LEMMA EndLegAdvances ==
  ASSUME TypeOK, NEW c \in Commands, NEW R, NEW r \in R, EndLeg(c, r)
  PROVE  Advance(c, R)
  <1>1. ahead[c] \in 0 .. MaxTicks /\ 0 \in 0 .. MaxTicks
    BY BoundAssumption DEF TypeOK
  <1>2. CASE ahead[c] > 0
    BY <1>1, <1>2, StartLegAdvances DEF EndLeg
  <1>3. CASE ~(ahead[c] > 0)
    BY <1>3 DEF EndLeg, Advance, TypeOK
  <1>4. QED
    BY <1>2, <1>3

\* What Begin does when no event is about is an Advance.
LEMMA BeginAdvances ==
  ASSUME TypeOK, NEW c \in Commands, Begin(c, "none")
  PROVE  Advance(c, Finals)
  <1> USE DEF Options, InsideLock, Results, Finals
  <1>1. ASSUME NEW mode \in Modes, EnsureStanding(c, mode, "none")
        PROVE  Advance(c, Finals)
    <2>1. CASE mode \in {"STANDING", "WALKING_POS"} /\ BeginMotion(c, "none")
      BY <2>1, BeginMotionAdvances
    <2>2. CASE ~(mode \in {"STANDING", "WALKING_POS"} /\ BeginMotion(c, "none"))
      BY <1>1, <2>2 DEF EnsureStanding, Advance, TypeOK
    <2>3. QED
      BY <2>1, <2>2
  <1>2. ASSUME cancelEvent' = "none", UNCHANGED <<ticks, ahead>>,
               \/ Send(c, "STOP_MOVE", "stopping")
               \/ \E mode \in Modes : BeginUp(c, mode)
               \/ \E mode \in Modes : BeginDown(c, mode)
        PROVE  Advance(c, Finals)
    <2>1. ticks' \in [Commands -> 0 .. MaxTicks] /\ ahead' \in [Commands -> 0 .. MaxTicks]
      BY <1>2 DEF TypeOK
    <2>2. CASE Send(c, "STOP_MOVE", "stopping")
      BY <1>2, <2>1, <2>2 DEF Advance
    <2>3. ASSUME NEW mode \in Modes, BeginUp(c, mode)
          PROVE  Advance(c, Finals)
      BY <1>2, <2>1, <2>3 DEF Advance, BeginUp
    <2>4. ASSUME NEW mode \in Modes, BeginDown(c, mode)
          PROVE  Advance(c, Finals)
      BY <1>2, <2>1, <2>4 DEF Advance, BeginDown
    <2>5. QED
      BY <1>2, <2>2, <2>3, <2>4
  <1>3. QED
    BY <1>1, <1>2 DEF Begin

-----------------------------------------------------------------------------

\* An Advance of the command that has the lock, or that takes it while it is
\* free, preserves the invariant.
LEMMA AdvanceKeepsIInv ==
  ASSUME IInv, NEW c \in Commands, NEW R \in SUBSET Results, Advance(c, R),
         holder \in {c, NoCommand},
         waiters' \in Seq(Commands), calls' \in Seq(Commands),
         UNCHANGED <<kind, robot, refusals>>
  PROVE  IInv'
  <1> USE CommandAssumption DEF IInv
  <1>1. ASSUME NEW o \in Options, NEW at \in InsideLock \ {"sleeping"},
               Send(c, o, at), cancelEvent' # "none" <=> at = "moving"
        PROVE  IInv'
    <2>1. TypeOK'
      BY <1>1, JobTypes DEF TypeOK, Advance, Send, Suspended
    <2>2. OneInside'
      BY <1>1 DEF TypeOK, OneInside, Send
    <2>3. SoleDriver'
      BY <1>1 DEF TypeOK, SoleDriver, Send
    <2>4. EventOfLoop'
      BY <1>1 DEF TypeOK, EventOfLoop, OneInside, Send, InsideLock, Loop
    <2>5. QED
      BY <2>1, <2>2, <2>3, <2>4
  <1>2. ASSUME NEW r \in R, Return(c, r), cancelEvent' = "none"
        PROVE  IInv'
    <2>1. TypeOK'
      BY <1>2, JobTypes DEF TypeOK, Advance, Return
    <2>2. OneInside'
      BY <1>2 DEF TypeOK, OneInside, Return, InsideLock
    <2>3. SoleDriver'
      BY <1>2 DEF TypeOK, SoleDriver, Return, NoJob
    <2>4. EventOfLoop'
      BY <1>2 DEF TypeOK, EventOfLoop, OneInside, Return, InsideLock, Loop
    <2>5. QED
      BY <2>1, <2>2, <2>3, <2>4
  <1>3. QED
    BY <1>1, <1>2 DEF Advance

\* The invariant holds initially.
LEMMA InitIInv == Init => IInv
  <1> SUFFICES ASSUME Init PROVE IInv
    OBVIOUS
  <1>1. TypeOK
    BY KindAssumption, JobTypes DEF Init, TypeOK, Results
  <1>2. OneInside
    BY CommandAssumption DEF Init, OneInside, InsideLock
  <1>3. SoleDriver /\ EventOfLoop
    BY DEF Init, SoleDriver, EventOfLoop, NoJob, Loop
  <1>4. QED
    BY <1>1, <1>2, <1>3 DEF IInv

\* While no command is inside, there is no event to signal.
LEMMA NoEventWhenFree ==
  ASSUME IInv, holder = NoCommand
  PROVE  cancelEvent = "none"
  BY CommandAssumption DEF IInv, OneInside, EventOfLoop, InsideLock, Loop

\* A call preserves the invariant.
LEMMA CallKeepsIInv ==
  ASSUME IInv, NEW c \in Commands, Call(c)
  PROVE  IInv'
  <1>1. calls' \in Seq(Commands)
    BY DEF Call, IInv, TypeOK
  <1>2. CASE holder = NoCommand /\ Begin(c, Signalled) /\ UNCHANGED waiters
    <2>1. Advance(c, Finals)
      BY <1>2, NoEventWhenFree, BeginAdvances DEF Signalled, IInv
    <2>2. QED
      BY <1>1, <1>2, <2>1, AdvanceKeepsIInv DEF Finals, Results, Call, IInv, TypeOK
  <1>3. CASE /\ cancelEvent' = Signalled
             /\ waiters' = Append(waiters, c)
             /\ pc' = [pc EXCEPT ![c] = "waiting"]
             /\ UNCHANGED <<ticks, ahead, job, holder, result>>
    <2>1. TypeOK'
      BY <1>1, <1>3 DEF Call, IInv, TypeOK, Signalled, Suspended
    <2>2. OneInside' /\ SoleDriver' /\ EventOfLoop'
      BY <1>3 DEF Call, IInv, TypeOK, OneInside, SoleDriver, EventOfLoop,
                  Signalled, InsideLock, Loop
    <2>3. QED
      BY <2>1, <2>2 DEF IInv
  <1>4. QED
    BY <1>2, <1>3 DEF Call, LockIsFree

\* MOVE was accepted and the loop goes to sleep.
Rest(c) ==
  /\ pc[c] = "moving"
  /\ job' = [job EXCEPT ![c] = NoJob]
  /\ pc' = [pc EXCEPT ![c] = "sleeping"]
  /\ UNCHANGED <<ticks, ahead, holder, waiters, cancelEvent, result>>

\* Every step of a coroutine is taken with the lock, or takes it, and is an
\* Advance or a Rest; it can answer "interrupted" only from the loop, with the
\* event set.
LEMMA StepEffects ==
  ASSUME IInv, NEW c \in Commands, Step(c)
  PROVE  /\ holder \in {c, NoCommand} /\ pc[c] # "new"
         /\ waiters' \in Seq(Commands) /\ UNCHANGED <<kind, calls, robot, refusals>>
         /\ \/ Advance(c, Finals)
            \/ Advance(c, Endings) /\ pc[c] = "sleeping" /\ cancelEvent = "set"
            \/ Rest(c)
  <1> USE DEF IInv
  <1>1. CASE Granted(c)
    <2>1. holder = NoCommand /\ cancelEvent = "none"
      BY <1>1, NoEventWhenFree DEF Granted
    <2>2. Advance(c, Finals)
      BY <1>1, <2>1, BeginAdvances DEF Granted
    <2>3. QED
      BY <1>1, <2>1, <2>2 DEF Granted, TypeOK
  <1>2. CASE Resume(c)
    <2>1. pc[c] \in InsideLock \ Loop
      BY <1>2 DEF Resume, InsideLock, Loop
    <2>2. holder = c /\ cancelEvent = "none"
      BY <2>1 DEF OneInside, EventOfLoop, InsideLock, Loop, TypeOK
    <2>3. Advance(c, Finals)
      BY <1>2, <2>2 DEF Resume, Advance, Options, InsideLock, Finals, Results, TypeOK
    <2>4. QED
      BY <1>2, <2>2, <2>3 DEF Resume, TypeOK
  <1>3. CASE Ready(c)
    <2>1. holder = c /\ cancelEvent = "none"
      BY <1>3 DEF Ready, OneInside, EventOfLoop, InsideLock, Loop, TypeOK
    <2>2. Advance(c, Finals)
      BY <1>3, <2>1, BeginMotionAdvances DEF Ready
    <2>3. QED
      BY <1>3, <2>1, <2>2 DEF Ready, TypeOK
  <1>4. CASE Moved(c)
    <2>1. holder = c /\ pc[c] = "moving"
      BY <1>4 DEF Moved, OneInside, InsideLock
    <2>2. ASSUME cancelEvent' = "none", Return(c, "failed")
          PROVE  Advance(c, Finals)
      BY <1>4, <2>2 DEF Moved, Advance, Finals, Results, TypeOK
    <2>3. Advance(c, Finals) \/ Rest(c)
      BY <1>4, <2>2 DEF Moved, Rest
    <2>4. QED
      BY <1>4, <2>1, <2>3 DEF Moved, TypeOK
  <1>5. CASE Slept(c)
    <2>1. holder = c /\ cancelEvent # "none" /\ pc[c] = "sleeping"
      BY <1>5 DEF Slept, OneInside, EventOfLoop, InsideLock, Loop
    <2>2. PICK left \in 0 .. ticks[c] - 1 :
            \/ /\ left = 0 /\ FinishLeg(c)
               /\ ticks' = [ticks EXCEPT ![c] = 0]
               /\ UNCHANGED ahead
            \/ cancelEvent = "set" /\ EndLeg(c, "interrupted")
            \/ /\ cancelEvent # "set"
               /\ ticks' = [ticks EXCEPT ![c] = left]
               /\ Send(c, "MOVE", "moving")
               /\ UNCHANGED <<ahead, cancelEvent>>
      BY <1>5 DEF Slept, TimeLeft, Interrupted
    <2>3. ticks[c] \in 0 .. MaxTicks /\ left \in 0 .. MaxTicks
      BY <2>2, BoundAssumption DEF TypeOK
    <2>4. ASSUME EndLeg(c, "interrupted") PROVE Advance(c, Endings)
      <3>1. "interrupted" \in Endings
        BY DEF Endings
      <3>2. QED
        BY <2>4, <3>1, EndLegAdvances
    <2>5. ASSUME left = 0, FinishLeg(c),
                 ticks' = [ticks EXCEPT ![c] = 0],
                 UNCHANGED ahead
          PROVE  Advance(c, Finals)
      BY <2>3, <2>5 DEF FinishLeg, Advance, Options, InsideLock, TypeOK
    <2>6. ASSUME cancelEvent # "set",
                 ticks' = [ticks EXCEPT ![c] = left],
                 Send(c, "MOVE", "moving"),
                 UNCHANGED <<ahead, cancelEvent>>
          PROVE  Advance(c, Finals)
      BY <2>1, <2>3, <2>6 DEF Advance, Options, InsideLock, TypeOK
    <2>7. Advance(c, Finals) \/ (Advance(c, Endings) /\ cancelEvent = "set")
      BY <2>2, <2>4, <2>5, <2>6
    <2>8. QED
      BY <1>5, <2>1, <2>7 DEF Slept, TypeOK
  <1>6. CASE Ended(c)
    <2>1. holder = c
      BY <1>6 DEF Ended, OneInside, InsideLock
    <2>2. Advance(c, Finals)
      BY <1>6, EndLegAdvances DEF Ended, Finals, Results
    <2>3. QED
      BY <1>6, <2>1, <2>2 DEF Ended, TypeOK
  <1>7. QED
    BY <1>1, <1>2, <1>3, <1>4, <1>5, <1>6 DEF Step

\* A step of a coroutine preserves the invariant.
LEMMA StepKeepsIInv ==
  ASSUME IInv, NEW c \in Commands, Step(c)
  PROVE  IInv'
  <1>1. calls' \in Seq(Commands)
    BY StepEffects DEF IInv, TypeOK
  <1>2. CASE \E R \in SUBSET Results : Advance(c, R)
    BY <1>1, <1>2, StepEffects, AdvanceKeepsIInv
  <1>3. CASE Rest(c)
    <2>1. TypeOK'
      BY <1>3, JobTypes, StepEffects DEF Rest, IInv, TypeOK, Suspended, InsideLock
    <2>2. OneInside' /\ SoleDriver' /\ EventOfLoop'
      BY <1>3 DEF Rest, IInv, TypeOK, OneInside, SoleDriver, EventOfLoop, NoJob,
                  InsideLock, Loop
    <2>3. QED
      BY <2>1, <2>2 DEF IInv
  <1>4. QED
    BY <1>2, <1>3, StepEffects DEF Finals, Endings, Results

\* Cancelling a call preserves the invariant.
LEMMA AbortKeepsIInv ==
  ASSUME IInv, NEW c \in Commands, Abort(c)
  PROVE  IInv'
  <1> USE DEF IInv
  <1>1. waiters' \in Seq(Commands)
    <2>1. ASSUME NEW i \in 1 .. Len(waiters), waiters' = RemoveAt(waiters, i)
          PROVE  waiters' \in Seq(Commands)
      <3>1. SubSeq(waiters, 1, i - 1) \in Seq(Commands)
        BY DEF TypeOK
      <3>2. SubSeq(waiters, i + 1, Len(waiters)) \in Seq(Commands)
        BY DEF TypeOK
      <3>3. QED
        BY <2>1, <3>1, <3>2 DEF RemoveAt
    <2>2. QED
      BY <2>1 DEF Abort, TypeOK
  <1>2. TypeOK'
    <2>1. job' \in [Commands -> Jobs]
      BY JobTypes DEF Abort, TypeOK
    <2>2. pc' \in [Commands -> Suspended \cup {"new", "done"}] /\ result' \in [Commands -> Results]
      BY DEF Abort, TypeOK, Results
    <2>3. QED
      BY <1>1, <2>1, <2>2 DEF Abort, TypeOK
  <1>3. OneInside'
    BY CommandAssumption DEF Abort, TypeOK, OneInside, InsideLock
  <1>4. SoleDriver'
    BY DEF Abort, TypeOK, SoleDriver, NoJob
  <1>5. EventOfLoop'
    BY DEF Abort, TypeOK, OneInside, EventOfLoop, InsideLock, Loop
  <1>6. QED
    BY <1>2, <1>3, <1>4, <1>5

\* A worker thread preserves the invariant.
LEMMA DeliverKeepsIInv ==
  ASSUME IInv, NEW c \in Commands, Deliver(c)
  PROVE  IInv'
  <1> USE DEF IInv
  <1>1. /\ robot' \in [opt : Options \cup {"NONE"}, by : Commands \cup {NoCommand}]
        /\ refusals' \subseteq Commands
        /\ job' \in [Commands -> Jobs]
    <2>1. job[c] \in Jobs
      BY DEF TypeOK
    <2>2. [job[c] EXCEPT !.reply = "accepted"] \in Jobs
          /\ [job[c] EXCEPT !.reply = "refused"] \in Jobs
      BY <2>1 DEF Jobs
    <2>3. job[c].tries > 1 => [job[c] EXCEPT !.tries = @ - 1] \in Jobs
      BY <2>1, JobTypes DEF Jobs
    <2>4. job[c].opt \in Options \cup {"NONE"}
      BY <2>1 DEF Jobs
    <2>5. \A j \in Jobs : [job EXCEPT ![c] = j] \in [Commands -> Jobs]
      BY DEF TypeOK
    <2>6. \/ job' = [job EXCEPT ![c] = [job[c] EXCEPT !.reply = "accepted"]]
          \/ job' = [job EXCEPT ![c] = [job[c] EXCEPT !.reply = "refused"]]
          \/ /\ job[c].tries > 1
             /\ job' = [job EXCEPT ![c] = [job[c] EXCEPT !.tries = @ - 1]]
      BY DEF Deliver
    <2>7. job' \in [Commands -> Jobs]
      BY <2>2, <2>3, <2>5, <2>6
    <2>8. robot' \in [opt : Options \cup {"NONE"}, by : Commands \cup {NoCommand}]
      BY <2>4 DEF Deliver, TypeOK
    <2>9. QED
      BY <2>7, <2>8 DEF Deliver, TypeOK
  <1>2. TypeOK'
    BY <1>1 DEF Deliver, TypeOK
  <1>3. OneInside' /\ EventOfLoop'
    BY DEF Deliver, OneInside, EventOfLoop
  <1>4. SoleDriver'
    BY DEF Deliver, SoleDriver, TypeOK
  <1>5. QED
    BY <1>2, <1>3, <1>4

\* The invariant is inductive, so it holds in every reachable state.
LEMMA Invariance == Spec => []IInv
  <1>1. IInv /\ [Next]_vars => IInv'
    <2> SUFFICES ASSUME IInv, [Next]_vars PROVE IInv'
      OBVIOUS
    <2>1. CASE \E c \in Commands : Call(c) \/ Step(c) \/ Abort(c) \/ Deliver(c)
      BY <2>1, CallKeepsIInv, StepKeepsIInv, AbortKeepsIInv, DeliverKeepsIInv
    <2>2. CASE UNCHANGED vars
      BY <2>2 DEF vars, IInv, TypeOK, OneInside, SoleDriver, EventOfLoop
    <2>3. QED
      BY <2>1, <2>2 DEF Next
  <1>2. QED
    BY InitIInv, <1>1, PTL DEF Spec

-----------------------------------------------------------------------------

\* Every variable keeps its type, whatever is called, cancelled or refused.
THEOREM TypeCorrect == Spec => []TypeOK
  BY Invariance, PTL DEF IInv

\* The controller's lock works: one command at a time is past it, and it is
\* the one that holds it.
THEOREM MutualExclusion == Spec => []OneInside
  BY Invariance, PTL DEF IInv

\* Only the lock's holder has an SDK call under way, except for the worker
\* threads that cancelled commands left behind.
THEOREM DriverHoldsLock == Spec => []SoleDriver
  BY Invariance, PTL DEF IInv

\* The cancel event exists exactly while a command is inside its move loop.
THEOREM EventLivesInLoop == Spec => []EventOfLoop
  BY Invariance, PTL DEF IInv

-----------------------------------------------------------------------------
(* Why an interrupted move always has a successor: an event can only have  *)
(* been set by a command called while its owner was in the loop, and no    *)
(* set event outlives the loop.                                            *)

Recorded == \A c \in Commands : pc[c] # "new" => \E i \in 1 .. Len(calls) : calls[i] = c

SetHasSuccessor ==
  cancelEvent = "set" =>
    \A c \in Commands : pc[c] \in Loop => \E d \in Commands : CalledBefore(c, d)

SInv == Recorded /\ SetHasSuccessor /\ InterruptHasSuccessor

\* The history of calls only grows, so what it says stays true.
LEMMA CallsGrow ==
  ASSUME TypeOK, NEW e \in Commands, calls' \in {calls, Append(calls, e)}
  PROVE  /\ \A c, d \in Commands : CalledBefore(c, d) => CalledBefore(c, d)'
         /\ \A c \in Commands : (\E i \in 1 .. Len(calls) : calls[i] = c)
                              => (\E i \in 1 .. Len(calls') : calls'[i] = c)
  <1>1. CASE calls' = calls
    BY <1>1 DEF CalledBefore
  <1>2. CASE calls' = Append(calls, e)
    <2>1. /\ Len(calls') = Len(calls) + 1 /\ Len(calls) \in Nat
          /\ \A i \in 1 .. Len(calls) : calls'[i] = calls[i]
      BY <1>2 DEF TypeOK
    <2>2. 1 .. Len(calls) \subseteq 1 .. Len(calls')
      BY <2>1
    <2>3. QED
      BY <2>1, <2>2 DEF CalledBefore
  <1>3. QED
    BY <1>1, <1>2

\* A command called last comes after every command called before it.
LEMMA NewestIsLast ==
  ASSUME TypeOK, NEW c \in Commands, NEW e \in Commands,
         \E i \in 1 .. Len(calls) : calls[i] = c, calls' = Append(calls, e)
  PROVE  CalledBefore(c, e)'
  <1>1. PICK i \in 1 .. Len(calls) : calls[i] = c
    OBVIOUS
  <1>2. Len(calls) \in Nat /\ calls \in Seq(Commands)
    BY DEF TypeOK
  <1>3. Len(calls') = Len(calls) + 1
    BY <1>2
  <1>4. calls'[i] = calls[i]
    BY <1>2
  <1>5. calls'[Len(calls) + 1] = e
    BY <1>2
  <1>6. /\ Len(calls') = Len(calls) + 1 /\ Len(calls) \in Nat
        /\ calls'[i] = c /\ calls'[Len(calls) + 1] = e
    BY <1>1, <1>2, <1>3, <1>4, <1>5
  <1>7. i \in 1 .. Len(calls') /\ Len(calls) + 1 \in 1 .. Len(calls')
        /\ i < Len(calls) + 1
    BY <1>6
  <1>8. \E j \in 1 .. Len(calls') : i < j /\ calls'[j] = e
    BY <1>6, <1>7
  <1>9. QED
    BY <1>1, <1>6, <1>7, <1>8 DEF CalledBefore

\* An Advance of a recorded command preserves SInv, if the command has a
\* successor whenever it may answer "interrupted".
LEMMA AdvanceKeepsSInv ==
  ASSUME IInv, SInv, NEW c \in Commands, NEW R \in SUBSET Results, Advance(c, R),
         NEW e \in Commands, calls' \in {calls, Append(calls, e)},
         \E i \in 1 .. Len(calls') : calls'[i] = c,
         "interrupted" \in R => \E d \in Commands : CalledBefore(c, d)
  PROVE  SInv'
  <1> USE DEF IInv, SInv
  <1>1. SetHasSuccessor'
    BY DEF Advance, SetHasSuccessor
  <1>2. Recorded'
    <2> SUFFICES ASSUME NEW d \in Commands, pc'[d] # "new"
                 PROVE  \E i \in 1 .. Len(calls') : calls'[i] = d
      BY DEF Recorded
    <2>1. CASE d # c
      <3>1. pc'[d] = pc[d]
        BY <2>1 DEF Advance, Send, Return, TypeOK
      <3>2. QED
        BY <3>1, CallsGrow DEF Recorded
    <2>2. QED
      BY <2>1
  <1>3. InterruptHasSuccessor'
    <2> SUFFICES ASSUME NEW d \in Commands, result'[d] = "interrupted"
                 PROVE  \E f \in Commands : CalledBefore(d, f)'
      BY DEF InterruptHasSuccessor
    <2>1. CASE result[d] = "interrupted"
      BY <2>1, CallsGrow DEF InterruptHasSuccessor
    <2>2. CASE result[d] # "interrupted"
      <3>0. PICK r \in R : result' = [result EXCEPT ![c] = r]
        BY <2>2 DEF Advance, Send, Return
      <3>1. d = c /\ "interrupted" \in R
        BY <2>2, <3>0 DEF TypeOK
      <3>2. PICK f \in Commands : CalledBefore(c, f)
        BY <3>1
      <3>3. CalledBefore(c, f)'
        BY <3>2, CallsGrow
      <3>4. QED
        BY <3>1, <3>3
    <2>3. QED
      BY <2>1, <2>2
  <1>4. QED
    BY <1>1, <1>2, <1>3

\* A step that neither sends nor returns preserves SInv when it keeps the
\* event and moves no command into the loop from outside.
LEMMA QuietKeepsSInv ==
  ASSUME TypeOK, SInv, UNCHANGED calls,
         cancelEvent' \in {cancelEvent, "none"},
         \A d \in Commands : /\ pc'[d] # "new" => pc[d] # "new"
                             /\ pc'[d] \in Loop => pc[d] \in Loop
                             /\ result'[d] = "interrupted" => result[d] = "interrupted"
  PROVE  SInv'
  BY DEF SInv, Recorded, SetHasSuccessor, InterruptHasSuccessor, CalledBefore

\* A call preserves SInv: it records itself, and if it signals the command in
\* the loop it becomes that command's successor.
LEMMA CallKeepsSInv ==
  ASSUME IInv, SInv, NEW c \in Commands, Call(c)
  PROVE  SInv'
  <1> USE DEF IInv
  <1>1. calls' = Append(calls, c)
    BY DEF Call
  <1>2. \E i \in 1 .. Len(calls') : calls'[i] = c
    <2>1. Len(calls) \in Nat /\ Len(calls') = Len(calls) + 1
          /\ calls'[Len(calls) + 1] = c
      BY <1>1 DEF TypeOK
    <2>2. QED
      BY <2>1
  <1>3. CASE holder = NoCommand /\ Begin(c, Signalled)
    <2>1. Advance(c, Finals)
      BY <1>3, NoEventWhenFree, BeginAdvances DEF Signalled
    <2>2. QED
      BY <1>1, <1>2, <2>1, AdvanceKeepsSInv DEF Finals, Results
  <1>4. CASE /\ cancelEvent' = Signalled
             /\ pc' = [pc EXCEPT ![c] = "waiting"]
             /\ UNCHANGED result
    <2>1. Recorded'
      <3> SUFFICES ASSUME NEW d \in Commands, pc'[d] # "new"
                   PROVE  \E i \in 1 .. Len(calls') : calls'[i] = d
        BY DEF Recorded
      <3>1. CASE d # c
        <4>1. pc'[d] = pc[d]
          BY <1>4, <3>1 DEF TypeOK
        <4>2. QED
          BY <1>1, <4>1, CallsGrow DEF SInv, Recorded
      <3>2. QED
        BY <1>2, <3>1
    <2>2. SetHasSuccessor'
      <3> SUFFICES ASSUME NEW d \in Commands, pc'[d] \in Loop
                   PROVE  CalledBefore(d, c)'
        BY DEF SetHasSuccessor
      <3>1. pc[d] # "new"
        BY <1>4 DEF TypeOK, Loop
      <3>2. QED
        BY <1>1, <3>1, NewestIsLast DEF SInv, Recorded
    <2>3. InterruptHasSuccessor'
      BY <1>1, <1>4, CallsGrow DEF SInv, InterruptHasSuccessor
    <2>4. QED
      BY <2>1, <2>2, <2>3 DEF SInv
  <1>5. QED
    BY <1>3, <1>4 DEF Call, LockIsFree

\* A step of a coroutine preserves SInv.
LEMMA StepKeepsSInv ==
  ASSUME IInv, SInv, NEW c \in Commands, Step(c)
  PROVE  SInv'
  <1>1. /\ calls' = calls /\ pc[c] # "new"
        /\ \/ Advance(c, Finals)
           \/ Advance(c, Endings) /\ pc[c] = "sleeping" /\ cancelEvent = "set"
           \/ Rest(c)
    BY StepEffects
  <1>2. \E i \in 1 .. Len(calls') : calls'[i] = c
    BY <1>1 DEF SInv, Recorded
  <1>3. CASE Advance(c, Finals)
    BY <1>1, <1>2, <1>3, AdvanceKeepsSInv DEF Finals, Results
  <1>4. CASE Advance(c, Endings) /\ pc[c] = "sleeping" /\ cancelEvent = "set"
    <2>1. \E d \in Commands : CalledBefore(c, d)
      BY <1>4 DEF SInv, SetHasSuccessor, Loop
    <2>2. QED
      BY <1>1, <1>2, <1>4, <2>1, AdvanceKeepsSInv DEF Endings, Finals, Results
  <1>5. CASE Rest(c)
    BY <1>1, <1>5, QuietKeepsSInv DEF Rest, IInv, TypeOK, Loop
  <1>6. QED
    BY <1>1, <1>3, <1>4, <1>5

\* The two together are inductive.
LEMMA SuccessorInvariance == Spec => [](IInv /\ SInv)
  <1>1. Init => SInv
    BY DEF Init, SInv, Recorded, SetHasSuccessor, InterruptHasSuccessor
  <1>2. IInv /\ SInv /\ [Next]_vars => SInv'
    <2> SUFFICES ASSUME IInv, SInv, [Next]_vars PROVE SInv'
      OBVIOUS
    <2>1. ASSUME NEW c \in Commands, Abort(c) PROVE SInv'
      BY <2>1, QuietKeepsSInv DEF Abort, IInv, TypeOK, Suspended, InsideLock, Loop
    <2>2. ASSUME NEW c \in Commands, Deliver(c) PROVE SInv'
      BY <2>2, QuietKeepsSInv DEF Deliver, IInv
    <2>3. CASE UNCHANGED vars
      BY <2>3 DEF vars, SInv, Recorded, SetHasSuccessor, InterruptHasSuccessor,
                  CalledBefore
    <2>4. QED
      BY <2>1, <2>2, <2>3, CallKeepsSInv, StepKeepsSInv DEF Next
  <1>3. QED
    BY Invariance, <1>1, <1>2, PTL DEF Spec

\* A move that answers "interrupted by new command" was interrupted by one.
THEOREM InterruptionsAreCalled == Spec => []InterruptHasSuccessor
  BY SuccessorInvariance, PTL DEF SInv

=============================================================================
