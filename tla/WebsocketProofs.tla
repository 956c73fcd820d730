---------------------------- MODULE WebsocketProofs ----------------------------
(***************************************************************************)
(* Proofs about one websocket task, for every timing, queue and bound that *)
(* the assumptions of Websocket allow.                                     *)
(***************************************************************************)
EXTENDS Websocket, TLAPS

\* The last pong, aged until the next tick of the interval, stays within the bound:
\* SilenceBounded itself is not inductive, as it says nothing of the time to go.
SilenceBudget == Up /\ wait > 0 => age + wait <= Timeout + Interval

\* A ping on its way to the write loop.
HasPing(q) == \E i \in 1..Len(q) : q[i] = "ping"
PingQueued == checker = "sending" \/ HasPing(queue)

\* With a peer that answers in time, a ping is queued and written in the second of its
\* tick, and the pong is back before the next one: at the tick the age is Interval at most.
HealthyBudget ==
  Up /\ peer = "healthy" =>
    /\ wait >= 0
    /\ PingQueued => wait = Interval /\ age <= Interval
    /\ ping >= 0 => ping + wait = Interval /\ ping <= Rtt /\ age <= Interval + ping
    /\ ~PingQueued /\ ping < 0 => age + wait <= Interval

IInv == TypeOK /\ SilenceBudget /\ HealthyBudget


--------------------------------------------------------------------------------
\* The types of the channel to the write loop, whatever is queued or written.
LEMMA QueueTypes ==
  ASSUME NEW q \in Seq({"ping", "other"}), NEW m \in {"ping", "other"}
  PROVE  /\ Append(q, m) \in Seq({"ping", "other"}) /\ Len(Append(q, m)) = Len(q) + 1
         /\ Len(q) \in Nat
         /\ q # <<>> => Tail(q) \in Seq({"ping", "other"}) /\ Len(Tail(q)) = Len(q) - 1
  OBVIOUS

\* Whether a ping is queued, before and after a message is queued or written.
LEMMA QueuePings ==
  ASSUME NEW q \in Seq({"ping", "other"})
  PROVE  /\ HasPing(Append(q, "other")) <=> HasPing(q)
         /\ HasPing(Append(q, "ping"))
         /\ q # <<>> => (HasPing(q) <=> Head(q) = "ping" \/ HasPing(Tail(q)))
         /\ ~HasPing(<<>>)
<1>1. HasPing(Append(q, "other")) <=> HasPing(q)
  BY DEF HasPing
<1>2. ASSUME q # <<>> PROVE HasPing(q) => Head(q) = "ping" \/ HasPing(Tail(q))
  <2> SUFFICES ASSUME NEW i \in 1..Len(q), q[i] = "ping", i # 1 PROVE HasPing(Tail(q))
    BY <1>2 DEF HasPing
  <2>1. i - 1 \in 1..Len(Tail(q)) /\ Tail(q)[i - 1] = q[i] BY <1>2
  <2> QED BY <2>1 DEF HasPing
<1>3. ASSUME q # <<>>, HasPing(Tail(q)) PROVE HasPing(q)
  <2>1. PICK i \in 1..Len(Tail(q)) : Tail(q)[i] = "ping" BY <1>3 DEF HasPing
  <2>2. i + 1 \in 1..Len(q) /\ q[i + 1] = Tail(q)[i] BY <1>3
  <2> QED BY <2>1, <2>2 DEF HasPing
<1>4. ASSUME q # <<>>, Head(q) = "ping" PROVE HasPing(q)
  BY <1>4 DEF HasPing
<1>5. ~HasPing(<<>>)
  BY DEF HasPing
<1>6. HasPing(Append(q, "ping"))
  <2>1. Len(q) + 1 \in 1..Len(Append(q, "ping")) /\ Append(q, "ping")[Len(q) + 1] = "ping"
    OBVIOUS
  <2> QED BY <2>1 DEF HasPing
<1> QED BY <1>1, <1>2, <1>3, <1>4, <1>5, <1>6

\* The constants are numbers.
LEMMA Numbers ==
  /\ Interval \in Nat /\ Interval > 0 /\ Timeout \in Nat /\ Delay \in Nat /\ Rtt \in Nat /\ Rtt < Interval /\ Interval < Timeout
  /\ MaxAge \in Nat /\ Timeout + Interval < MaxAge
  /\ QueueSize \in Nat /\ QueueSize > 0 /\ MaxMissed \in Nat /\ Burst \in Nat
  BY TimesAssumption, SizesAssumption

--------------------------------------------------------------------------------
\* No step of the task, the peer or the clock breaks the types.
LEMMA TypeStep == ASSUME TypeOK, [Next]_vars PROVE TypeOK'
<1> USE Numbers DEF TypeOK, Phases, Peers
<1>1. CASE Connect BY <1>1 DEF Connect
<1>2. CASE ConnectFails BY <1>2 DEF ConnectFails, FailSlowly, connVars
<1>3. CASE FireInterrupt BY <1>3 DEF FireInterrupt, connVars
<1>4. CASE Interrupted BY <1>4 DEF Interrupted, connVars
<1>5. CASE PongArrives BY <1>5 DEF PongArrives
<1>6. CASE PingArrives BY <1>6 DEF PingArrives, Event
<1>7. CASE CloseArrives BY <1>7 DEF CloseArrives
<1>8. CASE StreamEnds BY <1>8 DEF StreamEnds, connVars
<1>9. CASE ReadFails BY <1>9 DEF ReadFails, FailSlowly, connVars
<1>10. CASE QueueSubscription BY <1>10, QueueTypes DEF QueueSubscription, Event, HasRoom
<1>11. CASE WriteFails BY <1>11 DEF WriteFails, FailSlowly, connVars
<1>12. CASE PeerChanges BY <1>12 DEF PeerChanges, Event
<1>13. CASE Retry BY <1>13 DEF Retry, connVars
<1>14. CASE QueuePong BY <1>14, QueueTypes DEF QueuePong, HasRoom
<1>15. CASE StorePong BY <1>15 DEF StorePong
<1>16. CASE WriteMessage BY <1>16, QueueTypes DEF WriteMessage
<1>17. CASE CheckPasses BY <1>17, QueueTypes DEF CheckPasses, TickDue, HasRoom
<1>18. CASE QueuePing BY <1>18, QueueTypes DEF QueuePing, HasRoom
<1>19. CASE CheckFails BY <1>19 DEF CheckFails, FailAtOnce, connVars
<1>20. CASE Tick BY <1>20 DEF Tick, Older
<1>21. CASE UNCHANGED vars BY <1>21 DEF vars, connVars
<1> QED
  BY <1>1, <1>2, <1>3, <1>4, <1>5, <1>6, <1>7, <1>8, <1>9, <1>10, <1>11, <1>12, <1>13,
     <1>14, <1>15, <1>16, <1>17, <1>18, <1>19, <1>20, <1>21 DEF Next, TaskStep

\* Only a check that passes lengthens the wait, and it passes on a pong of Timeout at
\* most; a second that passes is taken from the wait and added to the age.
LEMMA BudgetStep == ASSUME TypeOK, SilenceBudget, [Next]_vars PROVE SilenceBudget'
<1> USE Numbers DEF TypeOK, SilenceBudget, Up
<1>1. CASE Connect BY <1>1 DEF Connect
<1>2. CASE PongArrives BY <1>2 DEF PongArrives
<1>3. CASE CheckPasses BY <1>3 DEF CheckPasses, TickDue, Fresh
<1>4. CASE Tick BY <1>4 DEF Tick, Older
<1>5. CASE \/ ConnectFails \/ FireInterrupt \/ Interrupted \/ StreamEnds \/ ReadFails
           \/ WriteFails \/ Retry \/ CheckFails \/ UNCHANGED vars
  BY <1>5 DEF ConnectFails, FireInterrupt, Interrupted, StreamEnds, ReadFails, WriteFails,
              Retry, CheckFails, FailSlowly, FailAtOnce, connVars, vars
<1>6. CASE \/ PingArrives \/ CloseArrives \/ QueueSubscription \/ PeerChanges \/ QueuePong
           \/ StorePong \/ WriteMessage \/ QueuePing
  BY <1>6 DEF PingArrives, CloseArrives, QueueSubscription, PeerChanges, QueuePong,
              StorePong, WriteMessage, QueuePing
<1> QED BY <1>1, <1>2, <1>3, <1>4, <1>5, <1>6 DEF Next, TaskStep

\* With a healthy peer a second passes only with nothing queued and the next tick ahead,
\* and a ping has Rtt < Interval seconds to be answered before that tick.
LEMMA HealthyStep == ASSUME TypeOK, HealthyBudget, [Next]_vars PROVE HealthyBudget'
<1> USE Numbers DEF TypeOK, HealthyBudget, PingQueued, Up
<1>1. CASE Connect BY <1>1, QueuePings DEF Connect
<1>2. CASE PongArrives BY <1>2 DEF PongArrives, PongReady
<1>3. CASE CheckPasses
  <2>1. ASSUME peer = "healthy" PROVE wait = 0 /\ ~HasPing(queue) /\ ping < 0 /\ age <= Interval
    BY <1>3, <2>1 DEF CheckPasses, TickDue
  <2>2. PingQueued'
    <3>1. queue' = Append(queue, "ping") \/ checker' = "sending" BY <1>3 DEF CheckPasses
    <3>2. HasPing(Append(queue, "ping")) BY QueuePings
    <3> QED BY <3>1, <3>2
  <2> QED BY <1>3, <2>1, <2>2 DEF CheckPasses
<1>4. CASE Tick
  <2>1. ASSUME Up, peer = "healthy"
        PROVE  queue = <<>> /\ checker = "ticking" /\ wait > 0 /\ (ping >= 0 => ping < Rtt)
    BY <1>4, <2>1 DEF Tick, Due, TickDue, HasRoom
  <2>2. ASSUME Up, peer = "healthy" PROVE ~PingQueued /\ ~PingQueued'
    BY <1>4, <2>1, <2>2, QueuePings DEF Tick
  <2>3. wait' = wait \/ wait' = wait - 1
    BY <1>4 DEF Tick
  <2>4. MaxMissed * Interval >= 0
    OBVIOUS
  <2>5. ASSUME Up, peer = "healthy" PROVE wait' = wait - 1
    BY <1>4, <2>1, <2>4, <2>5 DEF Tick
  <2> QED BY <1>4, <2>1, <2>2, <2>5 DEF Tick, Older
<1>5. CASE \/ ConnectFails \/ FireInterrupt \/ Interrupted \/ StreamEnds \/ ReadFails
           \/ WriteFails \/ Retry \/ CheckFails \/ UNCHANGED vars
  BY <1>5 DEF ConnectFails, FireInterrupt, Interrupted, StreamEnds, ReadFails, WriteFails,
              Retry, CheckFails, FailSlowly, FailAtOnce, connVars, vars
<1>6. CASE PingArrives \/ CloseArrives \/ PeerChanges \/ StorePong
  BY <1>6 DEF PingArrives, CloseArrives, PeerChanges, StorePong
<1>7. CASE QueueSubscription \/ QueuePong
  <2>1. HasPing(queue') <=> HasPing(queue)
    <3>1. queue' = Append(queue, "other") BY <1>7 DEF QueueSubscription, QueuePong
    <3>2. HasPing(Append(queue, "other")) <=> HasPing(queue) BY QueuePings
    <3> QED BY <3>1, <3>2
  <2>2. UNCHANGED <<phase, peer, checker, wait, age, ping>>
    BY <1>7 DEF QueueSubscription, QueuePong
  <2> QED BY <2>1, <2>2
<1>8. CASE WriteMessage
  BY <1>8, QueuePings DEF WriteMessage
<1>9. CASE QueuePing
  <2>1. HasPing(queue')
    <3>1. queue' = Append(queue, "ping") BY <1>9 DEF QueuePing
    <3>2. HasPing(Append(queue, "ping")) BY QueuePings
    <3> QED BY <3>1, <3>2
  <2> QED BY <1>9, <2>1 DEF QueuePing
<1> QED
  BY <1>1, <1>2, <1>3, <1>4, <1>5, <1>6, <1>7, <1>8, <1>9 DEF Next, TaskStep

--------------------------------------------------------------------------------
\* The task, its loops and the clock keep their types, and the last pong keeps within
\* the time that the next check allows it.
THEOREM Invariant == Spec => []IInv
<1>1. Init => IInv
  <2> SUFFICES ASSUME Init PROVE TypeOK /\ SilenceBudget /\ HealthyBudget BY DEF IInv
  <2> USE DEF Init
  <2>1. phase \in Phases /\ told \in BOOLEAN /\ peer \in Peers BY DEF Phases, Peers
  <2>2. queue \in Seq({"ping", "other"}) /\ Len(queue) <= QueueSize BY Numbers
  <2>3. wait <= Interval /\ age \in 0..MaxAge /\ ping \in (-1)..MaxAge /\ sleep \in 0..Delay
        /\ events \in 0..Burst
    BY Numbers
  <2>4. SilenceBudget /\ HealthyBudget BY DEF SilenceBudget, HealthyBudget, Up
  <2> QED BY <2>1, <2>2, <2>3, <2>4 DEF TypeOK
<1>2. IInv /\ [Next]_vars => IInv'
  BY TypeStep, BudgetStep, HealthyStep DEF IInv
<1> QED BY <1>1, <1>2, PTL DEF Spec

\* Type correctness.
THEOREM TypeCorrect == Spec => []TypeOK
BY Invariant, PTL DEF IInv

\* A check that is overdue with nothing to be done waits for room in the queue, and only
\* a peer that takes no bytes keeps the queue full.
LEMMA OverdueIsJammed ==
  ASSUME TypeOK, Up, wait <= 0, ~Due PROVE peer = "jammed"
<1>1. checker = "sending"
  BY DEF Due, TickDue, TypeOK
<1>2. queue # <<>>
  BY <1>1, Numbers DEF Due, HasRoom
<1> QED BY <1>2 DEF Due

\* pong_check_interval_task bounds the silence on a connection by Timeout + Interval,
\* unless a check is overdue, and no check stays so but for a peer that takes no bytes.
THEOREM SilenceIsBounded == Spec => []SilenceBounded
<1>1. IInv => SilenceBounded
  <2> SUFFICES ASSUME IInv, Up, age > Timeout + Interval PROVE wait <= 0 /\ (Due \/ peer = "jammed")
    BY DEF SilenceBounded
  <2>1. wait <= 0
    BY Numbers DEF IInv, TypeOK, SilenceBudget
  <2> QED BY <2>1, OverdueIsJammed DEF IInv
<1> QED BY <1>1, Invariant, PTL

\* No check fails on a peer that answers every ping within Rtt.
THEOREM HealthyIsKept == Spec => []HealthyKept
<1>1. IInv => HealthyKept
  BY Numbers DEF IInv, TypeOK, HealthyBudget, HealthyKept, TickDue
<1> QED BY <1>1, Invariant, PTL
================================================================================
