--------------------------- MODULE SportOrder_proofs ---------------------------
(***************************************************************************)
(* Proofs about the order of the commands in SportControl: that the lock   *)
(* serves them in the order of their calls, whose order the robot got last *)
(* and what a command's answer says of it.                                 *)
(***************************************************************************)
EXTENDS SportControl_proofs, QueueLemmas

\* The lock's queue holds those who wait, in the order of their calls.
Queues ==
  /\ IsQueue(calls, Commands) /\ IsQueue(waiters, Commands)
  /\ \A c \in Commands : /\ pc[c] # "new" <=> InQueue(c, calls)
                         /\ pc[c] = "waiting" <=> InQueue(c, waiters)
  /\ \A c, d \in Commands : Ahead(c, d, waiters) => CalledBefore(c, d)

\* A command has its answer exactly when it is done.
Answers == \A c \in Commands : result[c] # "none" <=> pc[c] = "done"

\* The command had the lock: it is inside, has an SDK call left, gave the robot
\* its last order or was answered.
Served(c) ==
  \/ pc[c] \in InsideLock
  \/ job[c].reply # "none"
  \/ robot.by = c
  \/ result[c] \notin {"none", "aborted"}

\* Nobody had it before he waited for it, and whoever had it was called before
\* everybody who has it now or still waits.
ServedOnce == \A c \in Commands : pc[c] \in {"new", "waiting"} => ~Served(c)

ServedFirst ==
  \A c, d \in Commands : Served(c) /\ pc[d] \in Suspended /\ d # c => CalledBefore(c, d)

OrderInv == Queues /\ Answers /\ ServedOnce /\ ServedFirst

-----------------------------------------------------------------------------

\* Of two calls one was the earlier one.
LEMMA CalledOnce ==
  ASSUME Queues, NEW c, NEW d, CalledBefore(c, d)
  PROVE  c # d /\ ~CalledBefore(d, c)
  <1>1. calls \in Seq(Commands) /\ Len(calls) \in Nat
    BY LenProperties DEF Queues, IsQueue
  <1>2. \A i, j \in 1 .. Len(calls) : calls[i] = calls[j] => i = j
    BY <1>1, QueuePlaces DEF Queues, IsQueue
  <1>3. QED
    BY <1>1, <1>2 DEF CalledBefore

\* What an Advance does to the places and the answers of the commands.
LEMMA AdvanceMoves ==
  ASSUME TypeOK, NEW c \in Commands, NEW R \in SUBSET Endings, Advance(c, R)
  PROVE  /\ \A d \in Commands \ {c} :
              pc'[d] = pc[d] /\ job'[d] = job[d] /\ result'[d] = result[d]
         /\ \/ pc'[c] \in InsideLock /\ result' = result
            \/ pc'[c] = "done" /\ result'[c] \in R
  BY DEF Advance, Send, Return, TypeOK

\* What a step of a coroutine does to them: its command had the lock, or gets it
\* now as the first of the queue.
LEMMA StepMoves ==
  ASSUME IInv, NEW c \in Commands, Step(c)
  PROVE  /\ \A d \in Commands \ {c} :
              pc'[d] = pc[d] /\ job'[d] = job[d] /\ result'[d] = result[d]
         /\ \/ pc'[c] \in InsideLock /\ result' = result
            \/ pc'[c] = "done" /\ result'[c] \in Endings
         /\ UNCHANGED <<kind, calls, robot, refusals>>
         /\ \/ pc[c] \in InsideLock /\ UNCHANGED waiters
            \/ /\ pc[c] = "waiting" /\ holder = NoCommand
               /\ waiters # << >> /\ Head(waiters) = c /\ waiters' = Tail(waiters)
  <1>1. \/ Advance(c, Finals) \/ Advance(c, Endings) \/ Rest(c)
    BY StepEffects
  <1>2. \/ pc[c] \in InsideLock /\ UNCHANGED waiters
        \/ /\ pc[c] = "waiting" /\ holder = NoCommand
           /\ waiters # << >> /\ Head(waiters) = c /\ waiters' = Tail(waiters)
    BY DEF Step, Granted, Resume, Ready, Moved, Slept, Ended, InsideLock
  <1>3. CASE Advance(c, Finals) \/ Advance(c, Endings)
    <2>1. Finals \in SUBSET Endings /\ Endings \in SUBSET Endings
      BY DEF Endings
    <2>2. QED
      BY <1>2, <1>3, <2>1, AdvanceMoves, StepEffects DEF IInv
  <1>4. CASE Rest(c)
    BY <1>2, <1>4, StepEffects DEF Rest, IInv, TypeOK, InsideLock
  <1>5. QED
    BY <1>1, <1>3, <1>4

\* What a call does to them: it has the free lock, or waits.
LEMMA CallMoves ==
  ASSUME IInv, NEW c \in Commands, Call(c)
  PROVE  /\ \A d \in Commands \ {c} :
              pc'[d] = pc[d] /\ job'[d] = job[d] /\ result'[d] = result[d]
         /\ pc[c] = "new" /\ calls' = Append(calls, c) /\ UNCHANGED <<kind, robot, refusals>>
         /\ \/ /\ holder = NoCommand /\ waiters = << >> /\ waiters' = << >>
               /\ \/ pc'[c] \in InsideLock /\ result' = result
                  \/ pc'[c] = "done" /\ result'[c] \in Finals
            \/ /\ pc'[c] = "waiting" /\ waiters' = Append(waiters, c)
               /\ UNCHANGED <<result, job>>
  <1>1. CASE LockIsFree /\ Begin(c, Signalled) /\ UNCHANGED waiters
    <2>1. holder = NoCommand /\ waiters = << >>
      BY <1>1 DEF LockIsFree
    <2>2. Advance(c, Finals)
      BY <1>1, <2>1, NoEventWhenFree, BeginAdvances DEF Signalled, IInv
    <2>3. Finals \in SUBSET Endings
      BY DEF Endings
    <2>4. QED
      BY <1>1, <2>1, <2>2, <2>3, AdvanceMoves DEF Call, IInv
  <1>2. CASE ~(LockIsFree /\ Begin(c, Signalled) /\ UNCHANGED waiters)
    BY <1>2 DEF Call, IInv, TypeOK
  <1>3. QED
    BY <1>1, <1>2

-----------------------------------------------------------------------------
(* The queue and the answers.                                              *)

\* A call is the last one from then on.
LEMMA CallKeepsQueues ==
  ASSUME IInv, Queues, NEW c \in Commands, Call(c)
  PROVE  /\ Queues'
         /\ \A d, e \in Commands : CalledBefore(d, e) => CalledBefore(d, e)'
         /\ \A d \in Commands : pc[d] # "new" => CalledBefore(d, c)'
  <1>1. /\ ~InQueue(c, calls) /\ ~InQueue(c, waiters)
        /\ IsQueue(calls, Commands) /\ calls' = Append(calls, c)
        /\ pc[c] = "new" /\ \A d \in Commands \ {c} : pc'[d] = pc[d]
    BY CallMoves DEF Queues
  <1>2. /\ IsQueue(calls', Commands)
        /\ \A d : InQueue(d, calls') <=> InQueue(d, calls) \/ d = c
        /\ \A d, e : Ahead(d, e, calls') <=> Ahead(d, e, calls) \/ (InQueue(d, calls) /\ e = c)
    BY <1>1, JoinQueue
  <1>3. \A d, e : CalledBefore(d, e)' <=> CalledBefore(d, e) \/ (InQueue(d, calls) /\ e = c)
    BY <1>2 DEF CalledBefore, Ahead
  <1>4. ASSUME waiters = << >>, waiters' = << >>, pc'[c] \in InsideLock \cup {"done"}
        PROVE  Queues'
    <2>1. /\ IsQueue(waiters', Commands)
          /\ \A d : ~InQueue(d, waiters') /\ ~InQueue(d, waiters)
          /\ \A d, e : ~Ahead(d, e, waiters')
      BY <1>4, EmptyQueue
    <2>2. pc'[c] \notin {"new", "waiting"}
      BY <1>4 DEF InsideLock
    <2>3. QED
      BY <1>1, <1>2, <2>1, <2>2 DEF Queues
  <1>5. ASSUME pc'[c] = "waiting", waiters' = Append(waiters, c)
        PROVE  Queues'
    <2>1. /\ IsQueue(waiters', Commands)
          /\ \A d : InQueue(d, waiters') <=> InQueue(d, waiters) \/ d = c
          /\ \A d, e : Ahead(d, e, waiters')
                         <=> Ahead(d, e, waiters) \/ (InQueue(d, waiters) /\ e = c)
      BY <1>1, <1>5, JoinQueue DEF Queues
    <2>2. QED
      BY <1>1, <1>2, <1>3, <1>5, <2>1 DEF Queues
  <1>6. Queues'
    BY <1>4, <1>5, CallMoves
  <1>7. QED
    BY <1>3, <1>6 DEF Queues

\* A step serves the first of the queue, or leaves it alone.
LEMMA StepKeepsQueues ==
  ASSUME IInv, Queues, NEW c \in Commands, Step(c)
  PROVE  Queues'
  <1>1. \A d, e : CalledBefore(d, e)' <=> CalledBefore(d, e)
    BY StepMoves DEF CalledBefore
  <1>2. /\ \A d \in Commands \ {c} : pc'[d] = pc[d]
        /\ pc[c] \notin {"new"} /\ pc'[c] \notin {"new", "waiting"} /\ calls' = calls
    BY StepMoves DEF InsideLock
  <1>3. CASE pc[c] \in InsideLock /\ UNCHANGED waiters
    BY <1>1, <1>2, <1>3 DEF Queues, InsideLock
  <1>4. CASE /\ pc[c] = "waiting" /\ waiters # << >> /\ Head(waiters) = c
             /\ waiters' = Tail(waiters)
    <2>1. /\ IsQueue(waiters', Commands)
          /\ \A d : InQueue(d, waiters') <=> InQueue(d, waiters) /\ d # c
          /\ \A d, e : Ahead(d, e, waiters') => Ahead(d, e, waiters)
      BY <1>4, ServeQueue DEF Queues
    <2>2. QED
      BY <1>1, <1>2, <1>4, <2>1 DEF Queues
  <1>5. QED
    BY <1>3, <1>4, StepMoves

\* A cancelled call leaves the queue, if it waited.
LEMMA AbortKeepsQueues ==
  ASSUME IInv, Queues, NEW c \in Commands, Abort(c)
  PROVE  Queues'
  <1>1. \A d, e : CalledBefore(d, e)' <=> CalledBefore(d, e)
    BY DEF Abort, CalledBefore
  <1>2. /\ \A d \in Commands \ {c} : pc'[d] = pc[d]
        /\ pc[c] # "new" /\ pc'[c] = "done" /\ calls' = calls
    BY DEF Abort, IInv, TypeOK, Suspended, InsideLock
  <1>3. CASE pc[c] # "waiting" /\ UNCHANGED waiters
    BY <1>1, <1>2, <1>3 DEF Queues
  <1>4. CASE pc[c] = "waiting" /\ ~UNCHANGED waiters
    <2>1. PICK i \in 1 .. Len(waiters) : waiters[i] = c /\ waiters' = RemoveAt(waiters, i)
      BY <1>4 DEF Abort
    <2>2. /\ IsQueue(waiters', Commands)
          /\ \A d : InQueue(d, waiters') <=> InQueue(d, waiters) /\ d # c
          /\ \A d, e : Ahead(d, e, waiters') => Ahead(d, e, waiters)
      BY <2>1, LeaveQueue DEF Queues
    <2>3. QED
      BY <1>1, <1>2, <1>4, <2>2 DEF Queues
  <1>5. CASE pc[c] = "waiting" /\ UNCHANGED waiters
    <2>1. PICK i \in 1 .. Len(waiters) : waiters[i] = c /\ waiters' = RemoveAt(waiters, i)
      BY <1>5 DEF Abort
    <2>2. ~InQueue(c, waiters')
      BY <2>1, LeaveQueue DEF Queues
    <2>3. QED
      BY <1>5, <2>2 DEF Queues
  <1>6. QED
    BY <1>3, <1>4, <1>5 DEF Abort

\* Whoever is done has an answer, and he keeps it.
LEMMA AnswersKept ==
  ASSUME IInv, Answers, NEW c \in Commands, Call(c) \/ Step(c) \/ Abort(c) \/ Deliver(c)
  PROVE  /\ Answers'
         /\ \A d \in Commands : result[d] # "none" => result'[d] = result[d]
  <1>1. pc[c] # "done" \/ Deliver(c)
    <2>1. CASE Call(c) \/ Step(c)
      BY <2>1, CallMoves, StepMoves DEF InsideLock
    <2>2. CASE Abort(c)
      BY <2>2 DEF Abort, Suspended, InsideLock
    <2>3. QED
      BY <2>1, <2>2
  <1>2. CASE Call(c) \/ Step(c)
    <2>1. \A r \in Endings : r # "none"
      BY DEF Endings, Finals
    <2>2. /\ \A d \in Commands \ {c} : pc'[d] = pc[d] /\ result'[d] = result[d]
          /\ \/ pc'[c] # "done" /\ result' = result
             \/ pc'[c] = "done" /\ result'[c] # "none"
      BY <1>2, <2>1, CallMoves, StepMoves DEF InsideLock, Endings
    <2>3. pc[c] # "done"
      BY <1>2, CallMoves, StepMoves DEF InsideLock
    <2>4. QED
      BY <2>2, <2>3 DEF Answers
  <1>3. CASE Abort(c)
    <2>1. pc[c] # "done"
      BY <1>3 DEF Abort, Suspended, InsideLock
    <2>2. QED
      BY <1>3, <2>1 DEF Abort, Answers, IInv, TypeOK
  <1>4. CASE Deliver(c)
    BY <1>4 DEF Deliver, Answers
  <1>5. QED
    BY <1>2, <1>3, <1>4

-----------------------------------------------------------------------------
(* Who had the lock, and when.                                             *)

\* A call is served at once only if nobody else is there.
LEMMA CallKeepsServed ==
  ASSUME IInv, OrderInv, NEW c \in Commands, Call(c)
  PROVE  ServedOnce' /\ ServedFirst'
  <1> USE DEF OrderInv
  <1>1. \A d \in Commands \ {c} : Served(d)' <=> Served(d)
    BY CallMoves DEF Served
  <1>2. \A d \in Commands : Served(d) => pc[d] # "new"
    BY DEF ServedOnce
  <1>3. CASE pc'[c] = "waiting" /\ UNCHANGED <<result, job>>
    <2>1. ~Served(c)'
      BY <1>3, CallMoves DEF Served, ServedOnce, InsideLock
    <2>2. \A d \in Commands \ {c} : Served(d) => CalledBefore(d, c)'
      BY <1>2, CallKeepsQueues
    <2>3. ServedOnce'
      BY <1>1, <1>3, <2>1, CallMoves DEF ServedOnce
    <2>4. ServedFirst'
      BY <1>1, <2>1, <2>2, CallMoves, CallKeepsQueues DEF ServedFirst
    <2>5. QED
      BY <2>3, <2>4
  <1>4. CASE holder = NoCommand /\ waiters = << >> /\ pc'[c] \in InsideLock \cup {"done"}
    <2>1. \A d \in Commands : pc[d] \notin Suspended
      <3>1. \A d \in Commands : pc[d] # "waiting"
        BY <1>4, EmptyQueue DEF Queues
      <3>2. \A d \in Commands : pc[d] \notin InsideLock
        BY <1>4, CommandAssumption DEF IInv, OneInside
      <3>3. QED
        BY <3>1, <3>2 DEF Suspended
    <2>2. pc'[c] \notin {"new", "waiting"}
      BY <1>4 DEF InsideLock
    <2>3. ServedOnce'
      BY <1>1, <2>2, CallMoves DEF ServedOnce
    <2>4. \A d, e \in Commands : Served(d)' /\ pc'[e] \in Suspended /\ e # d => e = c
      BY <2>1, CallMoves
    <2>5. ServedFirst'
      BY <1>1, <1>2, <2>4, CallKeepsQueues DEF ServedFirst
    <2>6. QED
      BY <2>3, <2>5
  <1>5. QED
    BY <1>3, <1>4, CallMoves

\* A step serves the first of the queue, who was called before the others there.
LEMMA StepKeepsServed ==
  ASSUME IInv, OrderInv, NEW c \in Commands, Step(c)
  PROVE  ServedOnce' /\ ServedFirst'
  <1> USE DEF OrderInv
  <1>1. \A d \in Commands \ {c} : (Served(d)' <=> Served(d)) /\ pc'[d] = pc[d]
    BY StepMoves DEF Served
  <1>2. /\ pc'[c] \notin {"new", "waiting"} /\ pc[c] \in Suspended
        /\ \A d, e : CalledBefore(d, e)' <=> CalledBefore(d, e)
    BY StepMoves DEF InsideLock, Suspended, CalledBefore
  <1>3. ServedOnce'
    BY <1>1, <1>2 DEF ServedOnce
  <1>4. \A d \in Commands \ {c} : pc[d] \in Suspended => CalledBefore(c, d)
    <2>1. CASE pc[c] \in InsideLock
      BY <2>1 DEF Served, ServedFirst
    <2>2. CASE /\ pc[c] = "waiting" /\ holder = NoCommand
               /\ waiters # << >> /\ Head(waiters) = c
      <3>1. \A d \in Commands : pc[d] \notin InsideLock
        BY <2>2, CommandAssumption DEF IInv, OneInside
      <3>2. \A d : InQueue(d, waiters) /\ d # c => Ahead(c, d, waiters)
        BY <2>2, ServeQueue DEF Queues
      <3>3. QED
        BY <3>1, <3>2 DEF Queues, Suspended
    <2>3. QED
      BY <2>1, <2>2, StepMoves
  <1>5. ServedFirst'
    BY <1>1, <1>2, <1>4 DEF ServedFirst
  <1>6. QED
    BY <1>3, <1>5

\* A cancelled call is served no more; a worker thread's command was served.
LEMMA OthersKeepServed ==
  ASSUME IInv, OrderInv, NEW c \in Commands, Abort(c) \/ Deliver(c)
  PROVE  ServedOnce' /\ ServedFirst'
  <1> USE DEF OrderInv
  <1>1. /\ \A d \in Commands : Served(d)' => Served(d)
        /\ \A d \in Commands : pc'[d] \in {pc[d], "done"}
        /\ \A d, e : CalledBefore(d, e)' <=> CalledBefore(d, e)
    <2>1. CASE Abort(c)
      BY <2>1 DEF Abort, Served, CalledBefore, IInv, TypeOK, NoJob, InsideLock
    <2>2. CASE Deliver(c)
      <3>1. Served(c)
        BY <2>2 DEF Deliver, Served
      <3>2. robot'.by \in {robot.by, c} /\ \A d \in Commands \ {c} : job'[d] = job[d]
        BY <2>2 DEF Deliver, IInv, TypeOK
      <3>3. UNCHANGED <<pc, result, calls>>
        BY <2>2 DEF Deliver
      <3>4. QED
        BY <3>1, <3>2, <3>3 DEF Served, CalledBefore
    <2>3. QED
      BY <2>1, <2>2
  <1>2. QED
    BY <1>1 DEF ServedOnce, ServedFirst, Suspended, InsideLock

\* The order is inductive, given the lock's invariant.
LEMMA OrderInvariance == Spec => [](IInv /\ OrderInv)
  <1>1. Init => OrderInv
    <2> SUFFICES ASSUME Init PROVE OrderInv
      OBVIOUS
    <2>1. Queues
      <3>1. /\ IsQueue(<< >>, Commands)
            /\ \A d : ~InQueue(d, << >>)
            /\ \A d, e : ~Ahead(d, e, << >>)
        BY EmptyQueue
      <3>2. QED
        BY <3>1 DEF Init, Queues
    <2>2. \A c \in Commands : ~Served(c)
      BY CommandAssumption DEF Init, Served, InsideLock, NoJob
    <2>3. Answers /\ ServedOnce /\ ServedFirst
      BY <2>2 DEF Init, Answers, ServedOnce, ServedFirst
    <2>4. QED
      BY <2>1, <2>3 DEF OrderInv
  <1>2. IInv /\ OrderInv /\ [Next]_vars => OrderInv'
    <2> SUFFICES ASSUME IInv, OrderInv, [Next]_vars PROVE OrderInv'
      OBVIOUS
    <2>1. ASSUME NEW c \in Commands, Call(c) \/ Step(c) PROVE OrderInv'
      BY <2>1, CallKeepsQueues, StepKeepsQueues, AnswersKept, CallKeepsServed, StepKeepsServed
         DEF OrderInv
    <2>2. ASSUME NEW c \in Commands, Abort(c) PROVE OrderInv'
      BY <2>2, AbortKeepsQueues, AnswersKept, OthersKeepServed DEF OrderInv
    <2>3. ASSUME NEW c \in Commands, Deliver(c) PROVE OrderInv'
      <3>1. Queues'
        BY <2>3 DEF Deliver, OrderInv, Queues, CalledBefore
      <3>2. QED
        BY <2>3, <3>1, AnswersKept, OthersKeepServed DEF OrderInv
    <2>4. CASE UNCHANGED vars
      BY <2>4 DEF vars, OrderInv, Queues, Answers, ServedOnce, ServedFirst, Served, CalledBefore
    <2>5. QED
      BY <2>1, <2>2, <2>3, <2>4 DEF Next
  <1>3. QED
    BY Invariance, <1>1, <1>2, PTL DEF Spec

\* Commands get the lock in the order of their calls: nobody who waits is
\* overtaken, whatever is queued, answered and cancelled in between.
THEOREM FirstCalledFirstServed == Spec => []ServedInOrder
  <1>1. OrderInv => ServedInOrder
    <2> SUFFICES ASSUME OrderInv, NEW c \in Commands, NEW d \in Commands,
                        pc[c] = "waiting", pc[d] \in InsideLock
                 PROVE  ~CalledBefore(c, d)
      BY DEF ServedInOrder
    <2>1. CalledBefore(d, c)
      BY DEF OrderInv, ServedFirst, Served, Suspended, InsideLock
    <2>2. QED
      BY <2>1, CalledOnce DEF OrderInv
  <1>2. QED
    BY OrderInvariance, <1>1, PTL

-----------------------------------------------------------------------------
(* The orders the robot got.                                               *)

\* An SDK call that is under way without its command having been cancelled is
\* that of the command which has the lock.
LEMMA DriverIsInside ==
  ASSUME IInv, NEW c \in Commands, job[c].reply = "pending", result[c] # "aborted"
  PROVE  holder = c /\ pc[c] \in InsideLock
  BY DEF IInv, SoleDriver, OneInside

\* The SDK accepts no order of an older command after one of a newer command,
\* except the leftover of a cancelled one.
THEOREM NewestCommandDrives == Spec => NewestDrives
  <1> DEFINE Later == (robot' # robot /\ robot.by \notin {NoCommand, robot'.by})
                        => CalledBefore(robot.by, robot'.by) \/ result[robot'.by] = "aborted"
  <1>1. IInv /\ OrderInv /\ [Next]_vars => [Later]_vars
    <2> SUFFICES ASSUME IInv, OrderInv, Next, robot' # robot,
                        robot.by \notin {NoCommand, robot'.by}, result[robot'.by] # "aborted"
                 PROVE  CalledBefore(robot.by, robot'.by)
      BY DEF vars
    <2>1. PICK c \in Commands : Deliver(c)
      BY CallMoves, StepMoves DEF Next, Abort, vars
    <2>2. robot'.by = c /\ job[c].reply = "pending"
      BY <2>1 DEF Deliver
    <2>3. pc[c] \in Suspended
      BY <2>2, DriverIsInside DEF Suspended
    <2>4. robot.by \in Commands
      BY DEF IInv, TypeOK
    <2>5. QED
      BY <2>2, <2>3, <2>4 DEF OrderInv, ServedFirst, Served
  <1>2. QED
    BY OrderInvariance, <1>1, PTL DEF Spec, NewestDrives

\* A command that was signalled inside its loop sends no further MOVE, unless it
\* has a second leg to go.
THEOREM SignalEndsMotion == Spec => InterruptEndsMotion
  <1> DEFINE Ends == cancelEvent = "set" => \A c \in Commands : SendsMove(c) => ahead[c] > 0
  <1>1. IInv /\ [Next]_vars => [Ends]_vars
    <2> SUFFICES ASSUME IInv, Next, cancelEvent = "set", NEW c \in Commands, SendsMove(c)
                 PROVE  ahead[c] > 0
      BY DEF vars
    <2>1. PICK d \in Commands : holder = d /\ pc[d] \in Loop /\ holder # NoCommand
      BY CommandAssumption DEF IInv, EventOfLoop, OneInside, InsideLock, Loop
    <2>2. ASSUME NEW e \in Commands, Call(e) PROVE FALSE
      <3>1. pc' = [pc EXCEPT ![e] = "waiting"]
        BY <2>1, <2>2 DEF Call, LockIsFree
      <3>2. QED
        BY <3>1 DEF SendsMove, IInv, TypeOK
    <2>3. ASSUME NEW e \in Commands, Abort(e) \/ Deliver(e) PROVE FALSE
      BY <2>3 DEF SendsMove, Abort, Deliver, IInv, TypeOK
    <2>4. ASSUME NEW e \in Commands, Step(e) PROVE ahead[c] > 0
      <3>1. c = e
        BY <2>4, StepMoves DEF SendsMove
      <3>2. c = d
        BY <2>1, <2>4, <3>1, StepMoves DEF IInv, OneInside
      <3>3. pc[c] = "sleeping"
        BY <2>1, <3>2 DEF SendsMove, Loop
      <3>4. Slept(c)
        BY <2>4, <3>1, <3>3 DEF Step, Granted, Resume, Ready, Moved, Ended
      <3>5. CASE EndLeg(c, "interrupted")
        BY <3>5 DEF EndLeg, Return, SendsMove, IInv, TypeOK
      <3>6. CASE FinishLeg(c)
        BY <3>6 DEF FinishLeg, Send, SendsMove, IInv, TypeOK
      <3>7. QED
        BY <3>4, <3>5, <3>6 DEF Slept, Interrupted
    <2>5. CASE UNCHANGED vars
      BY <2>5 DEF SendsMove, vars
    <2>6. QED
      BY <2>2, <2>3, <2>4, <2>5 DEF Next
  <1>2. QED
    BY Invariance, <1>1, PTL DEF Spec, InterruptEndsMotion

-----------------------------------------------------------------------------
(* The last order of each command, and what its answer says of it.         *)

\* What a command that is suspended at an await is a call of, and which option it
\* sent there if that is its last one.
Label(c, at, o) ==
  /\ at = "stopping" => kind[c] = "stop"
  /\ at \in {"rising", "standingUp"} => kind[c] = "up"
  /\ at \in {"unfolding", "lowering"} => kind[c] = "down"
  /\ at \in {"readying", "moving", "sleeping", "ending"} => kind[c] \in {"move", "target"}
  /\ at \in {"stopping", "standingUp", "lowering", "ending"} => o = LastOrder(c)

Labels == \A c \in Commands : Label(c, pc[c], job[c].opt)

\* The robot's last order is the leftover of a cancelled command.
LeftOver == robot.by # NoCommand /\ result[robot.by] = "aborted"

\* A command whose SDK call was accepted gave the last order ...
AcceptedIsLast ==
  \A c \in Commands :
    /\ pc[c] \in InsideLock /\ job[c].reply = "accepted"
         => robot = [opt |-> job[c].opt, by |-> c] \/ LeftOver
    /\ pc[c] = "sleeping" => robot.by = c \/ LeftOver

\* ... a refused one is noted ...
RefusedIsNoted ==
  \A c \in Commands : job[c].reply = "refused" \/ result[c] = "failed" => c \in refusals

\* ... and who succeeded has left his last order behind, until a later command
\* gives one.
LastOrderLasts ==
  /\ robot.by = NoCommand => robot.opt = "NONE"
  /\ robot.by # NoCommand /\ result[robot.by] \in {"sent", "completed"}
       => robot.opt = LastOrder(robot.by) \/ robot.by \in refusals

Drove ==
  \A c \in Commands :
    result[c] \in {"sent", "completed", "failed", "interrupted"}
      => \/ c \in refusals \/ LeftOver
         \/ robot.by = c
         \/ robot.by # NoCommand /\ CalledBefore(c, robot.by)

DriveInv == Labels /\ AcceptedIsLast /\ RefusedIsNoted /\ LastOrderLasts /\ Drove

\* The options that end each kind of command.
LEMMA LastOrders ==
  ASSUME NEW c
  PROVE  /\ kind[c] = "up" => LastOrder(c) = "STAND_UP"
         /\ kind[c] = "down" => LastOrder(c) = "STAND_DOWN"
         /\ kind[c] \in {"stop", "move", "target"} => LastOrder(c) = "STOP_MOVE"
  BY DEF LastOrder

\* Why a command may answer r now.
Earned(c, r) ==
  \/ r \in {"already", "nothing"}
  \/ /\ r = "sent" /\ job[c].reply = "accepted"
     /\ pc[c] \in {"stopping", "standingUp", "lowering"}
  \/ r = "failed" /\ job[c].reply = "refused"
  \/ r = "completed" /\ pc[c] = "ending" /\ Answered(c)
  \/ r = "interrupted" /\ pc[c] = "sleeping"

\* How the code of a command goes on to its next await.
Onwards(c) ==
  \/ \E o \in Options, at \in InsideLock \ {"sleeping"} : Send(c, o, at) /\ Label(c, at, o)
  \/ \E r \in Endings : Return(c, r) /\ Earned(c, r)
  \/ Rest(c) /\ job[c].reply = "accepted"

\* A leg begins, or ends at once.
LEMMA StartLegOnwards ==
  ASSUME NEW c \in Commands, NEW now, NEW then, kind[c] \in {"move", "target"},
         StartLeg(c, now, then)
  PROVE  Onwards(c)
  <1>1. Label(c, "moving", "MOVE") /\ Label(c, "ending", "STOP_MOVE")
    BY LastOrders DEF Label
  <1>2. /\ {"MOVE", "STOP_MOVE"} \subseteq Options
        /\ {"moving", "ending"} \subseteq InsideLock \ {"sleeping"}
    BY DEF Options, InsideLock
  <1>3. Send(c, "MOVE", "moving") \/ Send(c, "STOP_MOVE", "ending")
    BY DEF StartLeg, FinishLeg
  <1>4. QED
    BY <1>1, <1>2, <1>3 DEF Onwards

\* The robot stands and the motion begins.
LEMMA BeginMotionOnwards ==
  ASSUME NEW c \in Commands, NEW event, kind[c] \in {"move", "target"}, BeginMotion(c, event)
  PROVE  Onwards(c)
  <1>1. CASE Return(c, "nothing")
    BY <1>1 DEF Onwards, Earned, Endings, Finals
  <1>2. CASE StartLeg(c, ticks[c], ahead[c])
    BY <1>2, StartLegOnwards
  <1>3. QED
    BY <1>1, <1>2 DEF BeginMotion

\* A leg is over.
LEMMA EndLegOnwards ==
  ASSUME NEW c \in Commands, NEW r \in Endings, kind[c] \in {"move", "target"},
         EndLeg(c, r), Earned(c, r)
  PROVE  Onwards(c)
  <1>1. CASE StartLeg(c, ahead[c], 0)
    BY <1>1, StartLegOnwards
  <1>2. CASE Return(c, r)
    BY <1>2 DEF Onwards
  <1>3. QED
    BY <1>1, <1>2 DEF EndLeg

\* A command gets the lock.
LEMMA BeginOnwards ==
  ASSUME NEW c \in Commands, NEW event, Begin(c, event)
  PROVE  Onwards(c)
  <1> USE LastOrders DEF Options, InsideLock, Endings, Finals, Earned
  <1>1. ASSUME kind[c] \in {"move", "target"}, NEW mode, EnsureStanding(c, mode, event)
        PROVE  Onwards(c)
    <2>1. CASE BeginMotion(c, event)
      BY <1>1, <2>1, BeginMotionOnwards
    <2>2. CASE Send(c, IF mode = "STAND_UP" THEN "BALANCE_STAND" ELSE "RECOVERY_STAND",
                    "readying")
      BY <1>1, <2>2 DEF Onwards, Label
    <2>3. QED
      BY <1>1, <2>1, <2>2 DEF EnsureStanding
  <1>2. CASE kind[c] = "stop" /\ Send(c, "STOP_MOVE", "stopping")
    BY <1>2 DEF Onwards, Label
  <1>3. ASSUME kind[c] = "up", NEW mode, BeginUp(c, mode)
        PROVE  Onwards(c)
    BY <1>3 DEF BeginUp, Onwards, Label
  <1>4. ASSUME kind[c] = "down", NEW mode, BeginDown(c, mode)
        PROVE  Onwards(c)
    BY <1>4 DEF BeginDown, Onwards, Label
  <1>5. QED
    BY <1>1, <1>2, <1>3, <1>4 DEF Begin

\* Every step of a coroutine leads on that way.
LEMMA StepOnwards ==
  ASSUME Labels, NEW c \in Commands, Step(c)
  PROVE  Onwards(c)
  <1> USE DEF Labels, Label, Endings, Finals
  <1>1. CASE Granted(c)
    BY <1>1, BeginOnwards DEF Granted
  <1>2. CASE Resume(c)
    <2>1. CASE pc[c] = "rising" /\ Send(c, "STAND_UP", "standingUp")
      BY <2>1, LastOrders DEF Onwards, Options, InsideLock
    <2>2. CASE pc[c] = "unfolding" /\ Send(c, "STAND_DOWN", "lowering")
      BY <2>2, LastOrders DEF Onwards, Options, InsideLock
    <2>3. CASE /\ pc[c] \in {"stopping", "standingUp", "lowering"}
               /\ Return(c, IF job[c].reply = "accepted" THEN "sent" ELSE "failed")
      BY <1>2, <2>3 DEF Resume, Answered, Onwards, Earned
    <2>4. QED
      BY <1>2, <2>1, <2>2, <2>3 DEF Resume
  <1>3. CASE Ready(c)
    BY <1>3, BeginMotionOnwards DEF Ready
  <1>4. CASE Moved(c)
    BY <1>4 DEF Moved, Rest, Onwards, Earned
  <1>5. CASE Slept(c)
    <2>1. pc[c] = "sleeping" /\ kind[c] \in {"move", "target"}
      BY <1>5 DEF Slept
    <2>2. CASE EndLeg(c, "interrupted")
      BY <2>1, <2>2, EndLegOnwards DEF Earned
    <2>3. CASE FinishLeg(c) \/ Send(c, "MOVE", "moving")
      BY <2>1, <2>3, LastOrders DEF FinishLeg, Onwards, Options, InsideLock
    <2>4. QED
      BY <1>5, <2>2, <2>3 DEF Slept
  <1>6. CASE Ended(c)
    <2>1. pc[c] = "ending" /\ kind[c] \in {"move", "target"} /\ Answered(c)
      BY <1>6 DEF Ended
    <2>2. QED
      BY <1>6, <2>1, EndLegOnwards DEF Ended, Earned
  <1>7. QED
    BY <1>1, <1>2, <1>3, <1>4, <1>5, <1>6 DEF Step

-----------------------------------------------------------------------------
(* DriveInv is inductive.                                                  *)

\* The leftover of a cancelled command stays the robot's last order for as long
\* as no other is given: a cancellation is not taken back.
LEMMA LeftOverStays ==
  ASSUME TypeOK, UNCHANGED robot,
         \A d \in Commands : result[d] = "aborted" => result'[d] = "aborted"
  PROVE  LeftOver => LeftOver'
  BY DEF LeftOver, TypeOK

\* A command that goes on to its next await preserves DriveInv.
LEMMA OnwardsKeepsDrive ==
  ASSUME IInv, OrderInv, DriveInv, NEW c \in Commands, Onwards(c), pc[c] # "done",
         UNCHANGED <<kind, robot, refusals>>,
         \A d, e \in Commands : CalledBefore(d, e) => CalledBefore(d, e)'
  PROVE  DriveInv'
  <1> USE DEF IInv, OrderInv, DriveInv
  <1>1. result[c] = "none" /\ robot.by \in Commands \cup {NoCommand}
    BY DEF Answers, TypeOK
  <1>3. \A d : LastOrder(d)' = LastOrder(d)
    BY DEF LastOrder
  <1>4. \A d \in Commands \ {c} :
          pc'[d] = pc[d] /\ job'[d] = job[d] /\ result'[d] = result[d]
    BY DEF Onwards, Send, Return, Rest, TypeOK
  <1>5. LeftOver => LeftOver'
    BY <1>1, <1>4, LeftOverStays
  <1>6. \/ \E o \in Options, at \in InsideLock \ {"sleeping"} :
              /\ pc'[c] = at /\ job'[c].opt = o /\ job'[c].reply = "pending"
              /\ result'[c] = "none" /\ Label(c, at, o)
        \/ \E r \in Endings :
              /\ pc'[c] = "done" /\ job'[c].reply = "none"
              /\ result'[c] = r /\ Earned(c, r)
        \/ /\ pc[c] = "moving" /\ pc'[c] = "sleeping" /\ job'[c].reply = "none"
           /\ result'[c] = "none" /\ job[c].reply = "accepted"
    BY <1>1 DEF Onwards, Send, Return, Rest, NoJob, TypeOK
  <1>7. \A d \in Commands \ {c} : Label(d, pc[d], job[d].opt)'
    BY <1>3, <1>4 DEF Labels, Label
  <1>8. Label(c, pc[c], job[c].opt)'
    BY <1>3, <1>6 DEF Labels, Label, InsideLock
  <1>9. Labels'
    BY <1>7, <1>8 DEF Labels
  <1>10. AcceptedIsLast'
    BY <1>4, <1>5, <1>6 DEF AcceptedIsLast, InsideLock
  <1>11. RefusedIsNoted'
    BY <1>4, <1>6 DEF RefusedIsNoted, Earned
  <1>12. ASSUME pc'[c] = "done", Earned(c, result'[c]), result'[c] \in {"sent", "completed"}
         PROVE  \/ robot.opt = LastOrder(c) /\ robot.by = c
                \/ c \in refusals \/ LeftOver
    <2>1. pc[c] \in {"stopping", "standingUp", "lowering", "ending"}
          /\ job[c].reply \in {"accepted", "refused"}
      BY <1>12 DEF Earned, Answered
    <2>2. job[c].opt = LastOrder(c) /\ pc[c] \in InsideLock
      BY <2>1 DEF Labels, Label, InsideLock
    <2>3. CASE job[c].reply = "accepted"
      BY <2>2, <2>3 DEF AcceptedIsLast
    <2>4. CASE job[c].reply = "refused"
      BY <2>4 DEF RefusedIsNoted
    <2>5. QED
      BY <2>1, <2>3, <2>4
  <1>13. robot.by = c => ~LeftOver
    BY <1>1 DEF LeftOver
  <1>14. LastOrderLasts'
    <2>1. CASE robot.by # c
      BY <1>1, <1>3, <1>4, <2>1 DEF LastOrderLasts
    <2>2. CASE robot.by = c
      BY <1>3, <1>6, <1>12, <1>13, <2>2 DEF LastOrderLasts
    <2>3. QED
      BY <2>1, <2>2
  <1>15. ASSUME result'[c] \in {"sent", "completed", "failed", "interrupted"}
         PROVE  c \in refusals \/ LeftOver' \/ robot.by = c
    <2>1. pc'[c] = "done" /\ Earned(c, result'[c])
      BY <1>6, <1>15
    <2>2. CASE result'[c] \in {"sent", "completed"}
      BY <1>5, <1>12, <2>1, <2>2
    <2>3. CASE result'[c] = "failed"
      BY <2>1, <2>3 DEF Earned, RefusedIsNoted
    <2>4. CASE result'[c] = "interrupted"
      BY <1>5, <2>1, <2>4 DEF Earned, AcceptedIsLast
    <2>5. QED
      BY <1>15, <2>2, <2>3, <2>4
  <1>16. ASSUME NEW d \in Commands \ {c},
                result'[d] \in {"sent", "completed", "failed", "interrupted"}
         PROVE  \/ d \in refusals \/ LeftOver'
                \/ robot.by = d
                \/ robot.by # NoCommand /\ CalledBefore(d, robot.by)'
    BY <1>1, <1>4, <1>5, <1>16 DEF Drove
  <1>17. Drove'
    BY <1>15, <1>16 DEF Drove
  <1>18. QED
    BY <1>9, <1>10, <1>11, <1>14, <1>17

\* A call preserves DriveInv, whether it has the lock at once or waits.
LEMMA CallKeepsDrive ==
  ASSUME IInv, OrderInv, DriveInv, NEW c \in Commands, Call(c)
  PROVE  DriveInv'
  <1>1. \A d, e \in Commands : CalledBefore(d, e) => CalledBefore(d, e)'
    BY CallKeepsQueues DEF OrderInv
  <1>2. UNCHANGED <<kind, robot, refusals>> /\ pc[c] = "new"
    BY CallMoves
  <1>3. CASE Begin(c, Signalled)
    BY <1>1, <1>2, <1>3, BeginOnwards, OnwardsKeepsDrive
  <1>4. CASE /\ pc' = [pc EXCEPT ![c] = "waiting"] /\ UNCHANGED <<result, job>>
    <2> USE DEF DriveInv, IInv
    <2>1. Labels'
      BY <1>2, <1>4 DEF Labels, Label, LastOrder, TypeOK
    <2>2. LeftOver' <=> LeftOver
      BY <1>2, <1>4 DEF LeftOver
    <2>3. AcceptedIsLast'
      BY <1>2, <1>4, <2>2 DEF AcceptedIsLast, TypeOK, InsideLock
    <2>4. RefusedIsNoted' /\ LastOrderLasts'
      BY <1>2, <1>4 DEF RefusedIsNoted, LastOrderLasts, LastOrder
    <2>5. Drove'
      BY <1>1, <1>2, <1>4, <2>2 DEF Drove, TypeOK
    <2>6. QED
      BY <2>1, <2>3, <2>4, <2>5
  <1>5. QED
    BY <1>3, <1>4 DEF Call

\* A cancelled call preserves DriveInv: its answer claims nothing, and what it
\* had sent is a leftover from now on.
LEMMA AbortKeepsDrive ==
  ASSUME IInv, OrderInv, DriveInv, NEW c \in Commands, Abort(c)
  PROVE  DriveInv'
  <1> USE DEF IInv, OrderInv, DriveInv
  <1>1. /\ \A d \in Commands \ {c} :
             pc'[d] = pc[d] /\ job'[d] = job[d] /\ result'[d] = result[d]
        /\ pc'[c] = "done" /\ result'[c] = "aborted"
        /\ job'[c].reply \in {"none", "pending"}
        /\ UNCHANGED <<kind, calls, robot, refusals>>
    BY DEF Abort, TypeOK, NoJob
  <1>2. \A d, e : CalledBefore(d, e)' <=> CalledBefore(d, e)
    BY <1>1 DEF CalledBefore
  <1>3. LeftOver => LeftOver'
    BY <1>1, LeftOverStays
  <1>4. Labels'
    BY <1>1 DEF Labels, Label, LastOrder
  <1>5. AcceptedIsLast'
    BY <1>1, <1>3 DEF AcceptedIsLast, InsideLock
  <1>6. RefusedIsNoted'
    BY <1>1 DEF RefusedIsNoted
  <1>7. robot.by \in Commands \cup {NoCommand}
    BY DEF TypeOK
  <1>8. LastOrderLasts'
    BY <1>1, <1>7 DEF LastOrderLasts, LastOrder
  <1>9. Drove'
    BY <1>1, <1>2, <1>3 DEF Drove
  <1>10. QED
    BY <1>4, <1>5, <1>6, <1>8, <1>9

\* A worker thread preserves DriveInv: the order it gives is a leftover, or that
\* of the command that has the lock, which comes after all that were answered.
LEMMA DeliverKeepsDrive ==
  ASSUME IInv, OrderInv, DriveInv, NEW c \in Commands, Deliver(c)
  PROVE  DriveInv'
  <1> USE DEF IInv, OrderInv, DriveInv
  <1>1. job[c].reply = "pending" /\ UNCHANGED <<pc, kind, result, calls>>
    BY DEF Deliver
  <1>2. \A d \in Commands \ {c} : job'[d] = job[d]
    BY DEF Deliver, TypeOK
  <1>3. job'[c].opt = job[c].opt
    BY DEF Deliver, TypeOK, Jobs
  <1>4. \A d, e : CalledBefore(d, e)' <=> CalledBefore(d, e)
    BY <1>1 DEF CalledBefore
  <1>5. Labels'
    BY <1>1, <1>2, <1>3 DEF Labels, Label, LastOrder
  <1>6. CASE /\ robot' = [opt |-> job[c].opt, by |-> c] /\ UNCHANGED refusals
             /\ job' = [job EXCEPT ![c].reply = "accepted"]
    <2>1. robot'.by = c /\ c # NoCommand
      BY <1>6, CommandAssumption
    <2>2. CASE result[c] = "aborted"
      <3>1. LeftOver'
        BY <1>1, <2>1, <2>2 DEF LeftOver
      <3>2. RefusedIsNoted'
        BY <1>1, <1>2, <1>6 DEF RefusedIsNoted, TypeOK, Jobs
      <3>3. LastOrderLasts'
        BY <1>1, <2>1, <2>2 DEF LastOrderLasts
      <3>4. QED
        BY <1>5, <3>1, <3>2, <3>3 DEF AcceptedIsLast, Drove
    <2>3. CASE result[c] # "aborted"
      <3>1. holder = c /\ pc[c] \in InsideLock /\ result[c] = "none"
        <4>1. holder = c /\ pc[c] \in InsideLock
          BY <1>1, <2>3, DriverIsInside
        <4>2. QED
          BY <4>1 DEF Answers, InsideLock
      <3>2. \A d \in Commands \ {c} : pc[d] \notin InsideLock
        BY <3>1 DEF OneInside
      <3>3. AcceptedIsLast'
        BY <1>1, <1>3, <1>6, <2>1, <3>2 DEF AcceptedIsLast, InsideLock
      <3>4. RefusedIsNoted'
        BY <1>1, <1>2, <1>6 DEF RefusedIsNoted, TypeOK, Jobs
      <3>5. LastOrderLasts'
        BY <1>1, <2>1, <3>1 DEF LastOrderLasts
      <3>6. \A d \in Commands : result[d] \notin {"none", "aborted"} => CalledBefore(d, c)
        BY <3>1 DEF ServedFirst, Served, Suspended
      <3>7. Drove'
        BY <1>1, <1>4, <2>1, <3>1, <3>6 DEF Drove
      <3>8. QED
        BY <1>5, <3>3, <3>4, <3>5, <3>7
    <2>4. QED
      BY <2>2, <2>3
  <1>7. CASE UNCHANGED robot /\ job'[c].reply \in {"pending", "refused"}
             /\ refusals \subseteq refusals'
             /\ (job'[c].reply = "refused" => c \in refusals')
    <2>1. LeftOver' <=> LeftOver
      BY <1>1, <1>7 DEF LeftOver
    <2>2. AcceptedIsLast'
      BY <1>1, <1>2, <1>7, <2>1 DEF AcceptedIsLast
    <2>3. RefusedIsNoted'
      BY <1>1, <1>2, <1>7 DEF RefusedIsNoted
    <2>4. LastOrderLasts' /\ Drove'
      BY <1>1, <1>4, <1>7, <2>1 DEF LastOrderLasts, LastOrder, Drove
    <2>5. QED
      BY <1>5, <2>2, <2>3, <2>4
  <1>8. job' = [job EXCEPT ![c].tries = @ - 1] => job'[c].reply = "pending"
    BY <1>1 DEF TypeOK, Jobs
  <1>9. job' = [job EXCEPT ![c].reply = "refused"] => job'[c].reply = "refused"
    BY DEF TypeOK, Jobs
  <1>10. QED
    BY <1>6, <1>7, <1>8, <1>9 DEF Deliver

\* The whole invariant is inductive.
LEMMA DriveInvariance == Spec => [](IInv /\ SInv /\ OrderInv /\ DriveInv)
  <1>1. Init => DriveInv
    <2> SUFFICES ASSUME Init PROVE DriveInv
      OBVIOUS
    <2>1. \A c \in Commands : /\ pc[c] = "new" /\ result[c] = "none"
                              /\ job[c].reply = "none"
      BY DEF Init, NoJob
    <2>2. robot.by = NoCommand /\ robot.opt = "NONE"
      BY DEF Init
    <2>3. QED
      BY <2>1, <2>2 DEF DriveInv, Labels, Label, AcceptedIsLast, RefusedIsNoted,
                        LastOrderLasts, Drove, InsideLock
  <1>2. IInv /\ OrderInv /\ DriveInv /\ [Next]_vars => DriveInv'
    <2> SUFFICES ASSUME IInv, OrderInv, DriveInv, [Next]_vars PROVE DriveInv'
      OBVIOUS
    <2>1. ASSUME NEW c \in Commands, Step(c) PROVE DriveInv'
      <3>1. Onwards(c)
        BY <2>1, StepOnwards DEF DriveInv
      <3>2. UNCHANGED <<kind, calls, robot, refusals>> /\ pc[c] # "done"
        BY <2>1, StepMoves DEF InsideLock
      <3>3. \A d, e \in Commands : CalledBefore(d, e) => CalledBefore(d, e)'
        BY <3>2 DEF CalledBefore
      <3>4. QED
        BY <3>1, <3>2, <3>3, OnwardsKeepsDrive
    <2>2. CASE UNCHANGED vars
      BY <2>2 DEF vars, DriveInv, Labels, Label, AcceptedIsLast, RefusedIsNoted,
                  LastOrderLasts, Drove, LeftOver, LastOrder, CalledBefore
    <2>3. QED
      BY <2>1, <2>2, CallKeepsDrive, AbortKeepsDrive, DeliverKeepsDrive DEF Next
  <1>3. QED
    BY SuccessorInvariance, OrderInvariance, <1>1, <1>2, PTL DEF Spec

\* The last command of the history was called after every other one.
LEMMA LastIsNewest ==
  ASSUME Queues, calls # << >>
  PROVE  /\ Last(calls) \in Commands
         /\ \A d : ~CalledBefore(Last(calls), d)
  <1>1. calls \in Seq(Commands) /\ Len(calls) \in 1 .. Len(calls)
    BY LenProperties, EmptySeq DEF Queues, IsQueue
  <1>2. \A i, j \in 1 .. Len(calls) : calls[i] = calls[j] => i = j
    BY <1>1, QueuePlaces DEF Queues, IsQueue
  <1>3. Last(calls) = calls[Len(calls)]
    BY DEF Last
  <1>4. calls[Len(calls)] \in Commands
    BY <1>1, ElementOfSeq
  <1>5. ASSUME NEW d, CalledBefore(Last(calls), d) PROVE FALSE
    <2>1. PICK i, j \in 1 .. Len(calls) : i < j /\ calls[i] = Last(calls)
      BY <1>5 DEF CalledBefore
    <2>2. i = Len(calls)
      BY <1>1, <1>2, <1>3, <2>1
    <2>3. QED
      BY <1>1, <2>1, <2>2
  <1>6. QED
    BY <1>3, <1>4, <1>5

\* The newest command's answer is true for as long as it is the newest: the
\* robot's last order is the one it reports, unless an SDK call of its own was
\* refused or a cancelled command's leftover came after it.
THEOREM AnswersComeTrue == Spec => []AnswerHolds
  <1>1. IInv /\ OrderInv /\ DriveInv => AnswerHolds
    <2> SUFFICES ASSUME IInv, OrderInv, DriveInv, calls # << >>,
                        result[Last(calls)] \in {"sent", "completed"}
                 PROVE  \/ robot = [opt |-> LastOrder(Last(calls)), by |-> Last(calls)]
                        \/ Last(calls) \in refusals \/ LeftOver
      BY DEF AnswerHolds, LeftOver
    <2> DEFINE c == Last(calls)
    <2>1. c \in Commands /\ ~CalledBefore(c, robot.by)
      BY LastIsNewest DEF OrderInv
    <2>2. c \in refusals \/ LeftOver \/ robot.by = c
      BY <2>1 DEF DriveInv, Drove
    <2>3. ASSUME robot.by = c, c \notin refusals
          PROVE  robot = [opt |-> LastOrder(c), by |-> c]
      <3>1. robot.opt = LastOrder(c)
        BY <2>1, <2>3, CommandAssumption DEF DriveInv, LastOrderLasts
      <3>2. QED
        BY <2>3, <3>1 DEF IInv, TypeOK
    <2>4. QED
      BY <2>2, <2>3
  <1>2. QED
    BY DriveInvariance, <1>1, PTL

\* When all is quiet, the robot is left with MOVE as its last order only if the
\* mover, or a command called after it, had an SDK call refused, was cancelled
\* or answered without sending anything.
THEOREM MotionEnds == Spec => []MotionIsEnded
  <1>1. IInv /\ SInv /\ OrderInv /\ DriveInv => MotionIsEnded
    <2> DEFINE Excused(d) == result[d] \in {"already", "nothing", "aborted"} \/ d \in refusals
               b == robot.by
    <2> SUFFICES ASSUME IInv, SInv, OrderInv, DriveInv, robot.opt = "MOVE",
                        \A c \in Commands : pc[c] \in {"new", "done"}
                 PROVE  \E d \in Commands : (d = b \/ CalledBefore(b, d)) /\ Excused(d)
      BY DEF MotionIsEnded
    <2> USE DEF IInv, OrderInv, DriveInv
    <2>1. b \in Commands
      BY DEF LastOrderLasts, TypeOK
    <2>2. \A d \in Commands : pc[d] # "new" => result[d] # "none"
      BY DEF Answers
    <2>3. pc[b] # "new"
      BY <2>1 DEF ServedOnce, Served
    <2>4. \A d \in Commands :
            result[d] \notin {"none", "sent", "completed", "failed", "interrupted"}
              => Excused(d)
      BY DEF TypeOK, Results
    <2>5. CASE result[b] \in {"sent", "completed"}
      <3>1. LastOrder(b) # "MOVE"
        BY DEF LastOrder
      <3>2. QED
        BY <2>1, <2>5, <3>1, CommandAssumption DEF LastOrderLasts
    <2>6. CASE result[b] = "failed"
      BY <2>1, <2>6 DEF RefusedIsNoted
    <2>7. CASE result[b] = "interrupted"
      <3>1. PICK d \in Commands : CalledBefore(b, d)
        BY <2>1, <2>7 DEF SInv, InterruptHasSuccessor
      <3>2. InQueue(d, calls)
        BY <3>1 DEF CalledBefore, InQueue
      <3>3. result[d] # "none"
        BY <2>2, <3>2 DEF Queues
      <3>4. ~LeftOver /\ b # d /\ ~CalledBefore(d, b)
        BY <2>7, <3>1, CalledOnce DEF LeftOver
      <3>5. result[d] \in {"sent", "completed", "failed", "interrupted"} => d \in refusals
        BY <3>4 DEF Drove
      <3>6. QED
        BY <2>4, <3>1, <3>3, <3>5
    <2>8. QED
      BY <2>1, <2>2, <2>3, <2>4, <2>5, <2>6, <2>7
  <1>2. QED
    BY DriveInvariance, <1>1, PTL

=============================================================================
