------------------------------- MODULE Websocket -------------------------------
(***************************************************************************)
(* One websocket task: reconnecting_websocket_connection and, while a      *)
(* connection is up, the loops that single_websocket_connection polls in   *)
(* one select!: the read loop, the write loop and the pong check.  Time    *)
(* passes in whole seconds, and only when no loop has something to do.     *)
(* What the connection carries is left to PairRouter.                      *)
(***************************************************************************)
EXTENDS Integers, Sequences

CONSTANTS
  Interval,   \* the period of pong_check_interval
  Timeout,    \* the age of the last pong above which the check fails
  Delay,      \* the sleep before another attempt
  QueueSize,  \* capacity of the channel to the write loop
  Rtt,        \* a healthy peer's pong arrives within Rtt of the ping
  MaxAge,     \* bound: the age of the last pong is not followed further
  MaxMissed,  \* bound: ticks of the interval that can be overdue
  Burst       \* bound: what the peer and the pairs do within one second

ASSUME TimesAssumption ==
  /\ Interval \in Nat \ {0} /\ Timeout \in Nat /\ Delay \in Nat /\ Rtt \in Nat /\ MaxAge \in Nat
  /\ Rtt < Interval /\ Interval < Timeout /\ Timeout + Interval < MaxAge
ASSUME SizesAssumption == QueueSize \in Nat \ {0} /\ MaxMissed \in Nat /\ Burst \in Nat

VARIABLES
  phase,      \* where the websocket task stands
  told,       \* the stop sender was fired or dropped
  peer,       \* what the other end does
  queue,      \* the channel to the write loop
  reader,     \* the read loop reads, or waits to queue a pong or to store a pong's time
  checker,    \* the pong check waits for a tick, or to queue its ping, holding the read lock
  wait,       \* time to the next tick of the interval, <= 0 when it is due
  age,        \* time since last_pong
  ping,       \* time since the oldest ping the peer has not answered, -1 if there is none
  sleep,      \* time left before another attempt
  events      \* what the peer and the pairs have done within this second

connVars == <<peer, queue, reader, checker, wait, age, ping>>
vars     == <<phase, told, sleep, events, connVars>>

\* "hung" is the read loop after the end of a closed stream: read.next() returns None
\* at once, for ever, and the loop never yields to the other branches.
Phases == {"connecting", "up", "hung", "backoff", "stopped"}

\* A healthy peer answers pings in time, a late one when it likes, a silent one never;
\* a jammed one takes no bytes either; a closing one has sent a Close frame.
Peers == {"healthy", "late", "silent", "jammed", "closing"}

Up      == phase = "up"

\* Faulty variant: the channel never refuses a message.
HasRoomAlways == TRUE

HasRoom == Len(queue) < QueueSize

Event == events < Burst /\ events' = events + 1

Init ==
  /\ phase = "connecting" /\ told = FALSE /\ sleep = 0 /\ events = 0
  /\ peer = "healthy" /\ queue = <<>> /\ reader = "reading" /\ checker = "ticking"
  /\ wait = 0 /\ age = 0 /\ ping = -1
--------------------------------------------------------------------------------
(* reconnecting_websocket_connection *)

\* connect_async succeeds; last_pong is now and the interval's first tick is due.
Connect ==
  /\ phase = "connecting"
  /\ phase' = "up"
  /\ peer' \in {"healthy", "late", "silent"}
  /\ queue' = <<>> /\ reader' = "reading" /\ checker' = "ticking"
  /\ wait' = 0 /\ age' = 0 /\ ping' = -1
  /\ UNCHANGED <<told, sleep, events>>

\* ConnectionError, ReadClosed and WriteClosed: another attempt after the sleep.
FailSlowly == phase' = "backoff" /\ sleep' = Delay /\ UNCHANGED <<told, events, connVars>>

\* PongError: another attempt at once.
FailAtOnce == phase' = "connecting" /\ UNCHANGED <<told, sleep, events, connVars>>

ConnectFails == phase = "connecting" /\ FailSlowly

Retry ==
  /\ phase = "backoff" /\ sleep = 0
  /\ phase' = "connecting"
  /\ UNCHANGED <<told, sleep, events, connVars>>

\* stop_public, or the exchange is dropped.
FireInterrupt == ~told /\ told' = TRUE /\ UNCHANGED <<phase, sleep, events, connVars>>

\* The outer select! polls the stop receiver whenever the task is polled, which after
\* the end of a closed stream never happens again.
Listens == phase \in {"connecting", "up", "backoff"}

Interrupted ==
  /\ told /\ Listens
  /\ phase' = "stopped"
  /\ UNCHANGED <<told, sleep, events, connVars>>
--------------------------------------------------------------------------------
(* The read loop. *)

PongReady == Up /\ reader = "reading" /\ peer \in {"healthy", "late", "jammed"} /\ ping >= 0

\* Faulty variant: the pong is only logged.
PongOnlyLogged ==
  /\ PongReady
  /\ ping' = -1
  /\ UNCHANGED <<phase, told, sleep, events, peer, queue, reader, checker, wait, age>>

\* Pong: its time is taken and written to last_pong, which waits while the check holds
\* the read lock.  Nothing reads last_pong in between, so age is that of the new time.
PongArrives ==
  /\ PongReady
  /\ age' = 0 /\ ping' = -1
  /\ reader' = IF checker = "sending" THEN "storing" ELSE "reading"
  /\ UNCHANGED <<phase, told, sleep, events, peer, queue, checker, wait>>

StorePong ==
  /\ Up /\ reader = "storing" /\ checker = "ticking"
  /\ reader' = "reading"
  /\ UNCHANGED <<phase, told, sleep, events, peer, queue, checker, wait, age, ping>>

\* Ping: the loop queues a pong, waiting for room.
PingArrives ==
  /\ Up /\ reader = "reading" /\ peer # "closing" /\ Event
  /\ reader' = "replying"
  /\ UNCHANGED <<phase, told, sleep, peer, queue, checker, wait, age, ping>>

QueuePong ==
  /\ Up /\ reader = "replying" /\ HasRoom
  /\ reader' = "reading"
  /\ queue' = Append(queue, "other")
  /\ UNCHANGED <<phase, told, sleep, events, peer, checker, wait, age, ping>>

\* Close: a warning is logged and the loop goes on.
CloseArrives ==
  /\ Up /\ reader = "reading" /\ peer # "closing"
  /\ peer' = "closing"
  /\ UNCHANGED <<phase, told, sleep, events, queue, reader, checker, wait, age, ping>>

\* The peer drops the connection after the Close frames: read.next() returns None.
StreamEnds ==
  /\ Up /\ reader = "reading" /\ peer = "closing"
  /\ phase' = "hung"
  /\ UNCHANGED <<told, sleep, events, connVars>>

\* The connection breaks without a Close frame: ReadClosed.
ReadFails == Up /\ reader = "reading" /\ peer # "closing" /\ FailSlowly
--------------------------------------------------------------------------------
(* The write loop, and pairs_to_broadcast that queues the subscription. *)

QueueSubscription ==
  /\ Up /\ HasRoom /\ Event
  /\ queue' = Append(queue, "other")
  /\ UNCHANGED <<phase, told, sleep, peer, reader, checker, wait, age, ping>>

WriteMessage ==
  /\ Up /\ queue # <<>> /\ peer \notin {"jammed", "closing"}
  /\ queue' = Tail(queue)
  /\ ping' = IF Head(queue) = "ping" /\ ping < 0 THEN 0 ELSE ping
  /\ UNCHANGED <<phase, told, sleep, events, peer, reader, checker, wait, age>>

\* Writing after a Close frame, or on a broken connection: WriteClosed.
WriteFails == Up /\ queue # <<>> /\ FailSlowly
--------------------------------------------------------------------------------
(* pong_check_interval_task *)

\* The lock is fair: a pong that waits to be stored goes first.
TickDue == Up /\ checker = "ticking" /\ reader # "storing" /\ wait <= 0

\* Faulty variant: the pong is taken for fresh whatever its age.
FreshAlways == TRUE

\* At an age of Timeout to the second the elapsed time is above or below it.
Fresh == age <= Timeout

\* The pong is fresh: a ping is queued, or waited with until there is room.
CheckPasses ==
  /\ TickDue /\ Fresh
  /\ wait' = wait + Interval
  /\ IF HasRoom THEN queue' = Append(queue, "ping") /\ UNCHANGED checker
                ELSE checker' = "sending" /\ UNCHANGED queue
  /\ UNCHANGED <<phase, told, sleep, events, peer, reader, age, ping>>

QueuePing ==
  /\ Up /\ checker = "sending" /\ HasRoom
  /\ checker' = "ticking"
  /\ queue' = Append(queue, "ping")
  /\ UNCHANGED <<phase, told, sleep, events, peer, reader, wait, age, ping>>

CheckFails == TickDue /\ age >= Timeout /\ FailAtOnce
--------------------------------------------------------------------------------
(* The other end and time. *)

\* A peer gets worse, and a jammed one may take bytes again.
PeerChanges ==
  /\ Up /\ peer # "closing" /\ Event
  /\ peer' \in {"late", "silent", "jammed"} \ {peer}
  /\ UNCHANGED <<phase, told, sleep, queue, reader, checker, wait, age, ping>>

\* Something the task does, or a healthy peer is bound to, before a second passes.
Due ==
  \/ TickDue
  \/ Up /\ HasRoom /\ (checker = "sending" \/ reader = "replying")
  \/ Up /\ reader = "storing" /\ checker = "ticking"
  \/ Up /\ queue # <<>> /\ peer # "jammed"
  \/ Up /\ peer = "healthy" /\ ping >= Rtt
  \/ phase = "backoff" /\ sleep = 0

Older(t, by) == IF t < by THEN t + 1 ELSE t

Tick ==
  /\ ~Due /\ phase # "stopped"
  /\ events' = 0
  /\ sleep' = IF sleep > 0 THEN sleep - 1 ELSE 0
  /\ IF Up
     THEN /\ age' = Older(age, MaxAge)
          /\ wait' = IF wait > -(MaxMissed * Interval) THEN wait - 1 ELSE wait
          /\ ping' = IF ping >= 0 THEN Older(ping, MaxAge) ELSE ping
     ELSE UNCHANGED <<age, wait, ping>>
  /\ UNCHANGED <<phase, told, peer, queue, reader, checker>>
--------------------------------------------------------------------------------
TaskStep ==
  \/ Retry \/ QueuePong \/ StorePong \/ WriteMessage \/ (peer = "closing" /\ WriteFails)
  \/ CheckPasses \/ QueuePing \/ CheckFails

Next ==
  \/ Connect \/ ConnectFails \/ FireInterrupt \/ Interrupted
  \/ PongArrives \/ PingArrives \/ CloseArrives \/ StreamEnds \/ ReadFails
  \/ QueueSubscription \/ WriteFails \/ PeerChanges
  \/ TaskStep \/ Tick

Spec == Init /\ [][Next]_vars

\* The runtime polls the task when something is due, and time goes on.  Nothing is
\* assumed of the peer or the network.
Fairness == SF_vars(TaskStep) /\ WF_vars(Interrupted) /\ SF_vars(Tick)

FairSpec == Spec /\ Fairness
--------------------------------------------------------------------------------
(* Properties. *)

TypeOK ==
  /\ phase \in Phases /\ told \in BOOLEAN /\ peer \in Peers
  /\ queue \in Seq({"ping", "other"}) /\ Len(queue) <= QueueSize
  /\ reader \in {"reading", "replying", "storing"} /\ checker \in {"ticking", "sending"}
  /\ wait \in Int /\ wait <= Interval
  /\ age \in 0..MaxAge /\ ping \in (-1)..MaxAge /\ sleep \in 0..Delay
  /\ events \in 0..Burst

\* While a connection is up its last pong is never older than Timeout + Interval, unless
\* a check that is bound to fail is due.  The check cannot stay due while nothing moves
\* unless the peer takes no bytes: the read loop, which waits for room in the queue and
\* for the lock on last_pong, and the check, which waits for room with the lock in its
\* hand, do not block each other (pong_check_interval_task, single_websocket_connection).
SilenceBounded ==
  Up /\ age > Timeout + Interval => wait <= 0 /\ (Due \/ peer = "jammed")

\* No check fails on a peer that has answered every ping within Rtt so far, whatever
\* pings and subscriptions pass through the same queue.
HealthyKept == TickDue /\ peer = "healthy" => age < Timeout

\* A connection whose peer has gone silent without closing it is given up.
SilentPeerDropped == Up /\ peer = "silent" ~> ~Up \/ peer # "silent"

\* After a Close frame the connection is given up and another one attempted (public.rs:
\* "We probably don't need to do anything as the socket will get closed anyway").
CloseReconnects == Up /\ peer = "closing" ~> phase \in {"connecting", "backoff", "stopped"}
================================================================================
