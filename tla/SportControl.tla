------------------------------ MODULE SportControl ------------------------------
(***************************************************************************)
(* The sport command path of the server: the tools of mcps/sport.py, the   *)
(* one SportController they share and the worker threads that carry each   *)
(* SDK call (src/src/usecases/sport_controller.py).                        *)
(*                                                                         *)
(* Every tool call is a coroutine of one asyncio event loop, so a step of  *)
(* this module is what a coroutine does between two awaits.  A coroutine   *)
(* is suspended either on the controller's lock, or on asyncio.to_thread   *)
(* with an SDK call under way, or on asyncio.sleep between two MOVEs.  The *)
(* worker thread's call to the SDK is a step of its own (Deliver): other   *)
(* coroutines run before it, and between its return and the moment its     *)
(* caller resumes.                                                         *)
(*                                                                         *)
(* A command is one tool call; each element of Commands is called at most  *)
(* once.  Time is abstracted to ticks: a leg of motion has a budget of     *)
(* ticks and each iteration of the loop uses up at least one of them.      *)
(***************************************************************************)
EXTENDS Integers, Sequences, FiniteSets, SequencesExt

CONSTANTS
  Commands,     \* the tool calls that may arrive
  NoCommand,    \* "no command": the lock is free, nobody drove the robot
  Kinds,        \* the tools in use: a subset of AllKinds
  Modes,        \* the modes the state service may report: a subset of AllModes
  Replies,      \* what an attempt at an SDK call may give
  RetryCount,   \* SportPolicy.retry_count
  MaxTicks,     \* bound: the longest leg of motion, in ticks
  MaxAborts     \* bound: how many calls may be cancelled by their client

\* "move" stands for the six single-leg tools: move_forward, move_backward,
\* turn_left, turn_right, step_left and step_right.
AllKinds == {"stop", "up", "down", "move", "target"}

\* SportModeEnum as far as the controller tells its values apart.  UNKNOWN is
\* Python's None, OTHER every value the code never names.
AllModes == {"UNKNOWN", "STANDING", "WALKING_POS", "STAND_UP", "STAND_DOWN",
             "DAMPING", "OTHER"}

\* The members of SportOption that the controller sends.
Options == {"MOVE", "STOP_MOVE", "STAND_UP", "STAND_DOWN", "BALANCE_STAND",
            "RECOVERY_STAND"}

ASSUME CommandAssumption == NoCommand \notin Commands /\ IsFiniteSet(Commands)
ASSUME KindAssumption == Kinds \subseteq AllKinds
ASSUME ModeAssumption == Modes \subseteq AllModes
ASSUME ReplyAssumption == Replies \subseteq {"accepted", "refused"}
ASSUME BoundAssumption == RetryCount \in Nat /\ MaxTicks \in Nat /\ MaxAborts \in Nat

VARIABLES
  pc,           \* where the coroutine of each command is suspended
  kind,         \* which tool the command is a call of
  ticks,        \* ticks left in the current leg of motion
  ahead,        \* ticks of the leg still to come (move_to_target_position), or 0
  job,          \* the SDK call a worker thread runs for the command
  holder,       \* who owns the controller's lock
  waiters,      \* the lock's queue
  cancelEvent,  \* _cancel_event: None, an event, or an event that was set
  result,       \* what the command answered
  calls,        \* history: the commands in the order they were called
  robot,        \* history: the last option the SDK accepted, and who sent it
  refusals      \* history: the commands one of whose SDK calls was refused

vars == <<pc, kind, ticks, ahead, job, holder, waiters, cancelEvent, result,
          calls, robot, refusals>>

\* The awaits a command that owns the lock can be suspended at.
InsideLock == {"stopping", "rising", "standingUp", "unfolding", "lowering",
               "readying", "moving", "sleeping", "ending"}
Loop == {"moving", "sleeping"}
Suspended == InsideLock \cup {"waiting"}

Results == {"none", "sent", "failed", "already", "completed", "interrupted",
            "nothing", "aborted"}

NoJob == [opt |-> "NONE", tries |-> 0, reply |-> "none"]
Attempts == IF RetryCount > 1 THEN RetryCount ELSE 1
Jobs == [opt : Options \cup {"NONE"}, tries : 0 .. Attempts,
         reply : {"none", "pending", "accepted", "refused"}]

Answered(c) == job[c].reply \in {"accepted", "refused"}

\* The legs of motion a tool may be asked for, after clamping: the one to do
\* now and the one to do then.  A single-leg tool runs its loop even for a
\* distance of zero.
MovePlans == [now : 0 .. MaxTicks, then : {0}]

\* move_to_target_position leaves out a turn or a walk of zero.
TargetPlans == {p \in [now : 0 .. MaxTicks, then : 0 .. MaxTicks] :
                  p.now = 0 => p.then = 0}

Plans(k) == IF k = "move" THEN MovePlans
            ELSE IF k = "target" THEN TargetPlans
            ELSE [now : {0}, then : {0}]

\* kind, ticks and ahead start as what the clients are going to ask for.
Init ==
  /\ pc = [c \in Commands |-> "new"]
  /\ kind \in [Commands -> Kinds]
  /\ ticks \in [Commands -> 0 .. MaxTicks]
  /\ ahead \in [Commands -> 0 .. MaxTicks]
  /\ \A c \in Commands : [now |-> ticks[c], then |-> ahead[c]] \in Plans(kind[c])
  /\ job = [c \in Commands |-> NoJob]
  /\ holder = NoCommand
  /\ waiters = << >>
  /\ cancelEvent = "none"
  /\ result = [c \in Commands |-> "none"]
  /\ calls = << >>
  /\ robot = [opt |-> "NONE", by |-> NoCommand]
  /\ refusals = {}

-----------------------------------------------------------------------------
(* What a coroutine does up to its next await.                             *)

\* _send_async: hand the option to a worker thread and await it at label at.
Send(c, o, at) ==
  /\ job' = [job EXCEPT ![c] = [opt |-> o, tries |-> Attempts, reply |-> "pending"]]
  /\ pc' = [pc EXCEPT ![c] = at]
  /\ holder' = c
  /\ UNCHANGED result

Return_LeakLock(c, r) ==      \* mutant: the lock is not given back
  /\ job' = [job EXCEPT ![c] = NoJob]
  /\ pc' = [pc EXCEPT ![c] = "done"]
  /\ result' = [result EXCEPT ![c] = r]
  /\ UNCHANGED holder

\* Return from the tool: leaving "async with self._lock" frees the lock.
Return(c, r) ==
  /\ job' = [job EXCEPT ![c] = NoJob]
  /\ pc' = [pc EXCEPT ![c] = "done"]
  /\ result' = [result EXCEPT ![c] = r]
  /\ holder' = NoCommand

\* _cancel_current_command: set the event, if there is one.
Signalled == IF cancelEvent = "none" THEN "none" ELSE "set"

FinishLeg_NoStop(c) ==        \* mutant: the loop ends without a STOP_MOVE
  cancelEvent' = "none" /\ Return(c, "completed")

\* The time of a leg is up: the event goes and a STOP_MOVE ends the motion.
FinishLeg(c) == cancelEvent' = "none" /\ Send(c, "STOP_MOVE", "ending")

Interrupted_EventExists == cancelEvent # "none"     \* mutant: no is_set()
Interrupted_Never == FALSE                          \* mutant: no check

\* The loop looks at its event.
Interrupted == cancelEvent = "set"

TimeLeft_Frozen(c) == 0 .. ticks[c]   \* mutant: start_time is reset in the loop

\* The ticks that may be left after a MOVE and a sleep: at least one is gone.
TimeLeft(c) == 0 .. ticks[c] - 1

\* _run_move_loop up to its first await: a fresh event and a first MOVE, or,
\* when the duration is zero, the final STOP_MOVE with the event gone again.
StartLeg(c, now, then) ==
  /\ ticks' = [ticks EXCEPT ![c] = now]
  /\ ahead' = [ahead EXCEPT ![c] = then]
  /\ \/ now > 0 /\ cancelEvent' = "clear" /\ Send(c, "MOVE", "moving")
     \/ now = 0 /\ FinishLeg(c)

\* The robot stands: start moving, unless there is nowhere to go.  An event
\* left over from another command, if there were one, is in event.
BeginMotion(c, event) ==
  IF kind[c] = "target" /\ ticks[c] = 0
  THEN cancelEvent' = event /\ Return(c, "nothing") /\ UNCHANGED <<ticks, ahead>>
  ELSE StartLeg(c, ticks[c], ahead[c])

EndLeg_StaleEvent(c, r) ==    \* mutant: no "finally", the event stays
  IF ahead[c] > 0 THEN StartLeg(c, ahead[c], 0)
  ELSE UNCHANGED cancelEvent /\ Return(c, r) /\ UNCHANGED <<ticks, ahead>>

\* A leg is over and counts as a success, its event gone: go on to the second
\* leg if there is one, even when the first was interrupted.
EndLeg(c, r) ==
  IF ahead[c] > 0 THEN StartLeg(c, ahead[c], 0)
  ELSE cancelEvent' = "none" /\ Return(c, r) /\ UNCHANGED <<ticks, ahead>>

\* _ensure_standing_async, called under the lock by every tool that moves.
EnsureStanding(c, mode, event) ==
  \/ mode \in {"STANDING", "WALKING_POS"} /\ BeginMotion(c, event)
  \/ /\ mode \notin {"STANDING", "WALKING_POS"}
     /\ Send(c, IF mode = "STAND_UP" THEN "BALANCE_STAND" ELSE "RECOVERY_STAND",
             "readying")
     /\ cancelEvent' = event /\ UNCHANGED <<ticks, ahead>>

BeginUp_OnlyRecovery(c, mode) ==   \* mutant: STAND_UP itself is never sent
  \/ mode \in {"STANDING", "STAND_UP"} /\ Return(c, "already")
  \/ mode \notin {"STANDING", "STAND_UP"} /\ Send(c, "RECOVERY_STAND", "standingUp")

\* stand_up under the lock, up to its first await.
BeginUp(c, mode) ==
  \/ mode \in {"STANDING", "STAND_UP"} /\ Return(c, "already")
  \/ mode \notin {"STANDING", "STAND_UP"} /\ Send(c, "RECOVERY_STAND", "rising")

\* stand_down under the lock, up to its first await: an unknown mode goes
\* straight to STAND_DOWN.
BeginDown(c, mode) ==
  \/ mode = "STAND_DOWN" /\ Return(c, "already")
  \/ mode \in {"UNKNOWN", "STAND_UP", "DAMPING"} /\ Send(c, "STAND_DOWN", "lowering")
  \/ /\ mode \notin {"UNKNOWN", "STAND_UP", "DAMPING", "STAND_DOWN"}
     /\ Send(c, "STAND_UP", "unfolding")

\* What command c does once it has the lock.  _get_mode reads whatever the
\* state service has cached at that moment.
Begin(c, event) ==
  \/ kind[c] \in {"move", "target"} /\ \E mode \in Modes : EnsureStanding(c, mode, event)
  \/ /\ \/ kind[c] = "stop" /\ Send(c, "STOP_MOVE", "stopping")
        \/ kind[c] = "up" /\ \E mode \in Modes : BeginUp(c, mode)
        \/ kind[c] = "down" /\ \E mode \in Modes : BeginDown(c, mode)
     /\ cancelEvent' = event
     /\ UNCHANGED <<ticks, ahead>>

-----------------------------------------------------------------------------
(* The steps of the event loop.                                            *)

LockIsFree_Barging == holder = NoCommand    \* mutant: overtakes the waiters

\* asyncio.Lock is fair: acquire() succeeds at once only if nobody waits.
LockIsFree == holder = NoCommand /\ waiters = << >>

\* A tool is called.  It first signals the command that is running; then it
\* takes a free lock without yielding, or joins the lock's queue.
Call(c) ==
  /\ pc[c] = "new"
  /\ calls' = Append(calls, c)
  /\ \/ /\ LockIsFree
        /\ Begin(c, Signalled)
        /\ UNCHANGED waiters
     \/ /\ ~LockIsFree
        /\ cancelEvent' = Signalled
        /\ waiters' = Append(waiters, c)
        /\ pc' = [pc EXCEPT ![c] = "waiting"]
        /\ UNCHANGED <<ticks, ahead, job, holder, result>>
  /\ UNCHANGED <<kind, robot, refusals>>

Granted_NoWait(c) ==          \* mutant: a waiter runs while the lock is taken
  /\ pc[c] = "waiting"
  /\ waiters # << >> /\ Head(waiters) = c
  /\ waiters' = Tail(waiters)
  /\ Begin(c, cancelEvent)
  /\ UNCHANGED <<kind, calls, robot, refusals>>

\* The lock is free and the first waiter runs.
Granted(c) ==
  /\ pc[c] = "waiting" /\ holder = NoCommand
  /\ waiters # << >> /\ Head(waiters) = c
  /\ waiters' = Tail(waiters)
  /\ Begin(c, cancelEvent)
  /\ UNCHANGED <<kind, calls, robot, refusals>>

\* stop_move, stand_up and stand_down resume from an SDK call.  Only the last
\* call of each decides what it answers.
Resume(c) ==
  /\ Answered(c)
  /\ \/ pc[c] = "rising" /\ Send(c, "STAND_UP", "standingUp")
     \/ pc[c] = "unfolding" /\ Send(c, "STAND_DOWN", "lowering")
     \/ /\ pc[c] \in {"stopping", "standingUp", "lowering"}
        /\ Return(c, IF job[c].reply = "accepted" THEN "sent" ELSE "failed")
  /\ UNCHANGED <<kind, ticks, ahead, waiters, cancelEvent, calls, robot, refusals>>

\* A tool that moves resumes from _ensure_standing_async, whatever it gave.
Ready(c) ==
  /\ pc[c] = "readying" /\ Answered(c)
  /\ BeginMotion(c, cancelEvent)
  /\ UNCHANGED <<kind, waiters, calls, robot, refusals>>

\* The loop resumes from MOVE: sleep, or give up without a STOP_MOVE.
Moved(c) ==
  /\ pc[c] = "moving" /\ Answered(c)
  /\ \/ /\ job[c].reply = "accepted"
        /\ job' = [job EXCEPT ![c] = NoJob]
        /\ pc' = [pc EXCEPT ![c] = "sleeping"]
        /\ UNCHANGED <<holder, cancelEvent, result>>
     \/ /\ job[c].reply = "refused"
        /\ cancelEvent' = "none"
        /\ Return(c, "failed")
  /\ UNCHANGED <<kind, ticks, ahead, waiters, calls, robot, refusals>>

\* The loop resumes from its sleep, in which at least a tick went by: the time
\* is up, or the event was set, or it sends the next MOVE.
Slept(c) ==
  /\ pc[c] = "sleeping"
  /\ \E left \in TimeLeft(c) :
       \/ left = 0 /\ FinishLeg(c) /\ ticks' = [ticks EXCEPT ![c] = 0] /\ UNCHANGED ahead
       \/ left > 0 /\ Interrupted /\ EndLeg(c, "interrupted")
       \/ /\ left > 0 /\ ~Interrupted
          /\ ticks' = [ticks EXCEPT ![c] = left]
          /\ Send(c, "MOVE", "moving")
          /\ UNCHANGED <<ahead, cancelEvent>>
  /\ UNCHANGED <<kind, waiters, calls, robot, refusals>>

\* The leg's final STOP_MOVE is over; what it gave is not looked at.
Ended(c) ==
  /\ pc[c] = "ending" /\ Answered(c)
  /\ EndLeg(c, "completed")
  /\ UNCHANGED <<kind, waiters, calls, robot, refusals>>

\* The client cancels a call: CancelledError at the await the command is
\* suspended at.  The finally block drops the loop's event and the lock is
\* freed, or the queue left.  The worker thread cannot be interrupted: its SDK
\* call stays under way, unless no thread had picked it up yet.
Abort(c) ==
  /\ pc[c] \in Suspended
  /\ Cardinality({d \in Commands : result[d] = "aborted"}) < MaxAborts
  /\ pc' = [pc EXCEPT ![c] = "done"]
  /\ result' = [result EXCEPT ![c] = "aborted"]
  /\ \/ /\ pc[c] = "waiting"
        /\ \E i \in 1 .. Len(waiters) :
             waiters[i] = c /\ waiters' = RemoveAt(waiters, i)
     \/ pc[c] # "waiting" /\ UNCHANGED waiters
  /\ holder' = IF holder = c THEN NoCommand ELSE holder
  /\ cancelEvent' = IF pc[c] \in Loop THEN "none" ELSE cancelEvent
  /\ \/ job' = [job EXCEPT ![c] = NoJob]
     \/ job[c].reply = "pending" /\ UNCHANGED job
  /\ UNCHANGED <<kind, ticks, ahead, calls, robot, refusals>>

-----------------------------------------------------------------------------
(* The worker threads.                                                     *)

Deliver_Unbounded(c) ==       \* mutant: the retries are never used up
  /\ job[c].reply = "pending"
  /\ \E reply \in Replies :
       \/ /\ reply = "accepted"
          /\ robot' = [opt |-> job[c].opt, by |-> c]
          /\ job' = [job EXCEPT ![c].reply = "accepted"]
       \/ /\ reply = "refused"
          /\ job' = [job EXCEPT ![c].tries = @ - 1]
          /\ UNCHANGED robot
  /\ UNCHANGED <<pc, kind, ticks, ahead, holder, waiters, cancelEvent, result,
                 calls, refusals>>

\* _send, in a worker thread: one attempt at the SDK call, the last one if it
\* is accepted or none is left.
Deliver(c) ==
  /\ job[c].reply = "pending"
  /\ \E reply \in Replies :
       \/ /\ reply = "accepted"
          /\ robot' = [opt |-> job[c].opt, by |-> c]
          /\ job' = [job EXCEPT ![c].reply = "accepted"]
          /\ UNCHANGED refusals
       \/ /\ reply = "refused" /\ job[c].tries > 1
          /\ job' = [job EXCEPT ![c].tries = @ - 1]
          /\ UNCHANGED <<robot, refusals>>
       \/ /\ reply = "refused" /\ job[c].tries = 1
          /\ job' = [job EXCEPT ![c].reply = "refused"]
          /\ refusals' = refusals \cup {c}
          /\ UNCHANGED robot
  /\ UNCHANGED <<pc, kind, ticks, ahead, holder, waiters, cancelEvent, result, calls>>

\* Every command was called and answered, and no thread is at work.
Finished == \A c \in Commands : pc[c] = "done" /\ job[c].reply # "pending"

\* The coroutine of command c takes a step.
Step(c) == Granted(c) \/ Resume(c) \/ Ready(c) \/ Moved(c) \/ Slept(c) \/ Ended(c)

Next == (\E c \in Commands : Call(c) \/ Step(c) \/ Abort(c) \/ Deliver(c))
        \/ (Finished /\ UNCHANGED vars)

Spec == Init /\ [][Next]_vars

\* The event loop runs every coroutine that is ready, and an SDK call returns
\* (the SDK client has a timeout of ten seconds).  Nobody has to call a tool.
Fairness == \A c \in Commands : WF_vars(Step(c)) /\ WF_vars(Deliver(c))

FairSpec == Spec /\ Fairness

-----------------------------------------------------------------------------
(* What the command path promises.                                         *)

CalledBefore(c, d) ==
  \E i, j \in 1 .. Len(calls) : i < j /\ calls[i] = c /\ calls[j] = d

\* The state variables have the types the comments above give them.
TypeOK ==
  /\ pc \in [Commands -> Suspended \cup {"new", "done"}]
  /\ kind \in [Commands -> AllKinds]
  /\ ticks \in [Commands -> 0 .. MaxTicks]
  /\ ahead \in [Commands -> 0 .. MaxTicks]
  /\ job \in [Commands -> Jobs]
  /\ holder \in Commands \cup {NoCommand}
  /\ waiters \in Seq(Commands)
  /\ cancelEvent \in {"none", "clear", "set"}
  /\ result \in [Commands -> Results]
  /\ calls \in Seq(Commands)
  /\ robot \in [opt : Options \cup {"NONE"}, by : Commands \cup {NoCommand}]
  /\ refusals \subseteq Commands

\* Mutual exclusion: at any time at most one command is past the lock, and it
\* is the one that holds it, however calls are queued, answered and cancelled
\* (async with self._lock in every tool).
OneInside == \A c \in Commands : pc[c] \in InsideLock <=> holder = c

\* An SDK call under way was sent by the command that holds the lock, or is
\* what a cancelled command left behind in its worker thread.
SoleDriver ==
  \A c \in Commands : job[c].reply = "pending" => holder = c \/ result[c] = "aborted"

\* The controller's one event exists exactly while a command is inside its
\* move loop: the loop never reads is_set() of None, and a command never finds
\* the event of another one.
EventOfLoop == cancelEvent # "none" <=> \E c \in Commands : pc[c] \in Loop

\* Commands get the lock in the order they were called: none overtakes one
\* that still waits.
ServedInOrder ==
  \A c, d \in Commands :
    pc[c] = "waiting" /\ pc[d] \in InsideLock => ~CalledBefore(c, d)

\* A move that answers "interrupted by new command" was interrupted by one: a
\* stop meant for an earlier command never reaches it.
InterruptHasSuccessor ==
  \A c \in Commands : result[c] = "interrupted" => \E d \in Commands : CalledBefore(c, d)

\* When all is quiet, the robot is left with MOVE as its last order only if
\* the mover, or a command called after it, had an SDK call refused, was
\* cancelled by its client, or answered without sending anything.  In every
\* other case whoever ends or interrupts a move also ends the motion.
MotionIsEnded ==
  (robot.opt = "MOVE" /\ \A c \in Commands : /\ pc[c] \in {"new", "done"}
                                             /\ job[c].reply # "pending")
  => \E d \in Commands :
       /\ d = robot.by \/ CalledBefore(robot.by, d)
       /\ result[d] \in {"already", "nothing", "aborted"} \/ d \in refusals

\* The last order a command gives before it answers "sent" or "completed".
LastOrder(c) == CASE kind[c] = "up" -> "STAND_UP"
                  [] kind[c] = "down" -> "STAND_DOWN"
                  [] OTHER -> "STOP_MOVE"

\* The newest command's answer is true for as long as it is the newest: the
\* robot's last order is the one it reports, unless an SDK call of its own was
\* refused (a completed move ignores that) or a cancelled command's leftover
\* SDK call came after it.
AnswerHolds ==
  (calls # << >> /\ result[Last(calls)] \in {"sent", "completed"})
  => \/ robot = [opt |-> LastOrder(Last(calls)), by |-> Last(calls)]
     \/ Last(calls) \in refusals
     \/ robot.by # NoCommand /\ result[robot.by] = "aborted"

\* The SDK never accepts an order of an older command after one of a newer
\* command, except the leftover of a cancelled one.
NewestDrives ==
  [][(robot' # robot /\ robot.by \notin {NoCommand, robot'.by})
     => CalledBefore(robot.by, robot'.by) \/ result[robot'.by] = "aborted"]_vars

SendsMove(c) == pc[c] # "moving" /\ pc'[c] = "moving"

\* A command that was signalled inside its loop sends no further MOVE, unless it
\* is move_to_target_position in its first leg: it goes on with the second one.
InterruptEndsMotion ==
  [][cancelEvent = "set" => \A c \in Commands : SendsMove(c) => ahead[c] > 0]_vars

\* A command sends no further MOVE once a newer command was called.
NewCommandInterrupts ==
  [][\A c, d \in Commands : CalledBefore(c, d) => ~SendsMove(c)]_vars

\* Every tool call is answered: the lock is always passed on, every move ends.
EveryCallAnswered == \A c \in Commands : pc[c] # "new" ~> pc[c] = "done"

=============================================================================
