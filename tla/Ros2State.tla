----------------------------- MODULE Ros2State -----------------------------
(* The ROS 2 state service of the middle layer                              *)
(* (impl/state/ros2_state_service.py): a subscriber process converts the    *)
(* messages of two topics and puts them into a bounded queue, from which it *)
(* takes the oldest when there is no room; a reader thread of the server    *)
(* moves them to the latest state, which the state tool answers with.  The  *)
(* lifespan and the watcher start, stop and restart both.                   *)
(*                                                                          *)
(* The messages are numbered in the order the robot sent them.  One slot    *)
(* holds the latest state of both topics: what holds of the one the queue   *)
(* let through holds of each.  The throttle of the low state only makes     *)
(* messages fewer.                                                          *)
EXTENDS Lifespan

CONSTANTS
  QueueSize,    \* queue_size of the service
  MaxStamp,     \* bound: how many messages the robot sends
  MaxCrashes    \* bound: how often the process dies or cannot be started

ASSUME QueueAssumption == QueueSize \in Nat \ {0}
ASSUME StampAssumption == MaxStamp \in Nat /\ MaxCrashes \in Nat

VARIABLES
  initialized,  \* _initialized
  process,      \* _ros2_process: a slot, or 0
  running,      \* the slots whose process is alive
  told,         \* the slots whose process has had its stop event set
  queue,        \* _state_queue, <<>> when it is None
  reader,       \* _reader_thread: a slot, or 0
  readerStop,   \* _reader_stop_event
  reading,      \* [slot -> where its reader thread is, with the message it took]
  latestState,  \* _latest_sport_state and _latest_low_state
  stamp,        \* the robot has sent this many messages
  crashes

rosVars == <<initialized, process, running, told, queue, reader, readerStop,
             reading, latestState, stamp, crashes>>

Places == 1..(MaxCrashes + 1)      \* processes and readers there is room for

RosTypeOK ==
  /\ initialized \in BOOLEAN /\ readerStop \in BOOLEAN
  /\ process \in Places \cup {0} /\ reader \in Places \cup {0}
  /\ running \subseteq Places /\ told \subseteq Places
  /\ queue \in Seq(1..MaxStamp) /\ Len(queue) <= QueueSize
  /\ reading \in [Places -> [at : {"dead", "get", "store", "stuck"}, took : 0..MaxStamp]]
  /\ latestState \in 0..MaxStamp /\ stamp \in 0..MaxStamp
  /\ crashes \in 0..MaxCrashes

NotReading == [at |-> "dead", took |-> 0]

RosInit ==
  /\ initialized = FALSE /\ readerStop = FALSE
  /\ process = 0 /\ reader = 0
  /\ running = {} /\ told = {}
  /\ queue = <<>>
  /\ reading = [r \in Places |-> NotReading]
  /\ latestState = 0 /\ stamp = 0 /\ crashes = 0

ReaderLives(r) == r # 0 /\ reading[r].at # "dead"

RosHealthy == initialized /\ process \in running /\ ReaderLives(reader)

-----------------------------------------------------------------------------
(* start(): the queue and the process, the reader thread, the registry.  A  *)
(* start that fails calls stop(), which returns at once, since the service  *)
(* is not initialized: what it had started is left.                         *)
rosLife == <<phase, watcher, health, proven, tries, overrun>>

StartUp(a) ==
  /\ op[a] = "start"
  /\ At(a, IF initialized THEN "idle" ELSE "spawn")
  /\ UNCHANGED <<rosLife, listed, rosVars>>

Spawn(a) ==
  /\ op[a] = "spawn"
  /\ \E p \in Places \ running :
       /\ \A q \in Places \ running : p <= q
       /\ process' = p
       /\ running' = running \cup {p}
       /\ told' = told \ {p}
  /\ queue' = <<>>
  /\ At(a, "read")
  /\ UNCHANGED <<rosLife, listed, initialized, reader, readerStop, reading,
                 latestState, stamp, crashes>>

StartReader(a) ==
  /\ op[a] = "read"
  /\ readerStop' = FALSE
  /\ \E r \in Places :
       /\ ~ReaderLives(r) /\ \A u \in Places : ~ReaderLives(u) => r <= u
       /\ reader' = r
       /\ reading' = [reading EXCEPT ![r] = [at |-> "get", took |-> 0]]
  /\ initialized' = TRUE
  /\ listed' = "up"
  /\ At(a, "idle")
  /\ UNCHANGED <<rosLife, process, running, told, queue, latestState, stamp, crashes>>

StartFails(a) ==
  /\ op[a] \in {"spawn", "read"} /\ crashes < MaxCrashes
  /\ crashes' = crashes + 1
  /\ listed' = "down"
  /\ At(a, "idle")
  /\ UNCHANGED <<rosLife, initialized, process, running, told, queue, reader,
                 readerStop, reading, latestState, stamp>>

(* stop(): the reader is given 2 s, the process is told, terminated or      *)
(* killed, the queue is dropped.  A reader that was told ends within 0.1 s, *)
(* unless it is stuck or another start() has cleared the event.             *)
TellReader(a) ==
  /\ op[a] = "stop"
  /\ IF initialized THEN At(a, "join") /\ readerStop' = TRUE
                    ELSE At(a, AfterStop(a)) /\ UNCHANGED readerStop
  /\ UNCHANGED <<rosLife, listed, initialized, process, running, told, queue,
                 reader, reading, latestState, stamp, crashes>>

\* mutant: the reader is told, and not waited for
JoinReader_NotWaited(a) ==
  /\ op[a] = "join"
  /\ reader' = 0
  /\ At(a, "end")
  /\ UNCHANGED <<rosLife, listed, initialized, process, running, told, queue,
                 readerStop, reading, latestState, stamp, crashes>>

JoinReader(a) ==
  /\ op[a] = "join"
  /\ reader # 0 /\ readerStop => reading[reader].at \in {"dead", "stuck"}
  /\ reader' = 0
  /\ At(a, "end")
  /\ UNCHANGED <<rosLife, listed, initialized, process, running, told, queue,
                 readerStop, reading, latestState, stamp, crashes>>

TellProcess(a) ==
  /\ op[a] = "end"
  /\ told' = told \cup ({process} \ {0})
  /\ At(a, "reap")
  /\ UNCHANGED <<rosLife, listed, initialized, process, running, queue, reader,
                 readerStop, reading, latestState, stamp, crashes>>

Reap(a) ==
  /\ op[a] = "reap"
  /\ running' = running \ {process}
  /\ process' = 0
  /\ queue' = <<>>
  /\ initialized' = FALSE
  /\ At(a, AfterStop(a))
  /\ UNCHANGED <<rosLife, listed, told, reader, readerStop, reading,
                 latestState, stamp, crashes>>

RosService(a) ==
  \/ StartUp(a) \/ Spawn(a) \/ StartReader(a) \/ StartFails(a)
  \/ TellReader(a) \/ JoinReader(a) \/ TellProcess(a) \/ Reap(a)

-----------------------------------------------------------------------------
(* The subscriber process p.  Only the process started last has the queue   *)
(* the reader sees.  When the queue is full the oldest message is taken     *)
(* out; when that fails, the new one is lost.                               *)
RobotSends ==
  /\ stamp < MaxStamp
  /\ stamp' = stamp + 1
  /\ \/ UNCHANGED queue
     \/ /\ process \in running \ told
        /\ queue' = Append(IF Len(queue) < QueueSize THEN queue ELSE Tail(queue), stamp')
  /\ UNCHANGED <<lifeVars, initialized, process, running, told, reader,
                 readerStop, reading, latestState, crashes>>

\* The process ends as it was told, or dies; a reader whose message was cut
\* off never returns from the queue.
ProcessEnds(p) ==
  /\ p \in running
  /\ running' = running \ {p}
  /\ \/ p \in told /\ UNCHANGED <<reading, crashes>>
     \/ /\ crashes < MaxCrashes
        /\ crashes' = crashes + 1
        /\ \/ UNCHANGED reading
           \/ /\ p = process /\ reader # 0 /\ reading[reader].at = "get"
              /\ reading' = [reading EXCEPT ![reader].at = "stuck"]
  /\ UNCHANGED <<lifeVars, initialized, process, told, queue, reader,
                 readerStop, latestState, stamp>>

(* The reader thread r. *)
Get(r) ==
  /\ reading[r].at = "get"
  /\ IF readerStop
     THEN /\ reading' = [reading EXCEPT ![r] = NotReading]
          /\ UNCHANGED queue
     ELSE /\ queue # <<>>
          /\ reading' = [reading EXCEPT ![r] = [at |-> "store", took |-> Head(queue)]]
          /\ queue' = Tail(queue)
  /\ UNCHANGED <<lifeVars, initialized, process, running, told, reader,
                 readerStop, latestState, stamp, crashes>>

Store(r) ==
  /\ reading[r].at = "store"
  /\ latestState' = reading[r].took
  /\ reading' = [reading EXCEPT ![r] = [at |-> "get", took |-> 0]]
  /\ UNCHANGED <<lifeVars, initialized, process, running, told, queue, reader,
                 readerStop, stamp, crashes>>

RosWatch == (Poll(RosHealthy) \/ LifeNext) /\ UNCHANGED rosVars

RosNext ==
  \/ RosWatch
  \/ \E a \in Actors : RosService(a)
  \/ RobotSends
  \/ \E p \in Places : ProcessEnds(p)
  \/ \E r \in Places : Get(r) \/ Store(r)

=============================================================================
