--------------------------- MODULE PriceSocketProofs ---------------------------
(***************************************************************************)
(* Proofs about PriceSocket, for any clients, prices, ring capacity and    *)
(* number of messages.  SocketInv is inductive relative to TypeOK; the     *)
(* safety properties follow from it, and so does the refinement of         *)
(* PriceFeed.                                                              *)
(***************************************************************************)
EXTENDS PriceSocket, TLAPS

\* Facts about the ring: a lagging receiver is moved forward, to a message that is
\* retained (tokio's broadcast, as used by keep_latest_value and the client tasks).
LEMMA LagMovesForward ==
  ASSUME NEW n \in Nat \ {0}, NEW sent \in Nat, Lagged(n, sent)
  PROVE  /\ Oldest(sent) \in Nat
         /\ n < Oldest(sent)
         /\ Oldest(sent) <= sent
         /\ Missed(n, sent) \in Nat
         /\ Missed(n, sent) = Oldest(sent) - n
BY CapacityAssumption DEF Lagged, Oldest, Missed

\* A received message was sent.
LEMMA ReceivedWasSent ==
  ASSUME NEW n \in Nat \ {0}, NEW sent \in Nat, Received(n, sent)
  PROVE  n <= sent
BY CapacityAssumption DEF Received, Oldest
--------------------------------------------------------------------------------
LEMMA InitTyped == Init => TypeOK
BY DEF Init, TypeOK, Phases

LEMMA StepTyped == TypeOK /\ [Next]_vars => TypeOK'
<1> SUFFICES ASSUME TypeOK, [Next]_vars PROVE TypeOK'
  OBVIOUS
<1> USE DEF TypeOK
<1>0. Sent \in Nat
  BY DEF Sent
<1>1. ASSUME NEW p \in Prices, ReceivePrice(p) PROVE TypeOK'
  <2>1. last_value' \in Prices \cup {Zero} /\ offered' \in Prices \cup {NoPrice}
    BY <1>1 DEF ReceivePrice, BroadcastPrice
  <2>2. log' \in Seq(Prices)
    <3>1. log \in Seq(Prices) /\ (log' = log \/ log' = Append(log, p))
      BY <1>1 DEF ReceivePrice, BroadcastPrice
    <3> QED BY ONLY <3>1, <1>1
  <2>3. UNCHANGED <<serverVars, watchVars, clientVars>>
    BY <1>1 DEF ReceivePrice
  <2> QED BY <2>1, <2>2, <2>3 DEF serverVars, watchVars, clientVars
<1>2. CASE SocketStep
  <2>1. CASE Bind
    BY <2>1 DEF Bind, Phases, feedVars, clientVars
  <2>2. CASE BindFails
    BY <2>2 DEF BindFails, Phases, feedVars, watchVars, clientVars
  <2>3. CASE RemoveFails
    BY <2>3 DEF RemoveFails, Phases, feedVars, watchVars, clientVars
  <2>4. CASE RetryBind
    BY <2>4 DEF RetryBind, Phases, feedVars, watchVars, clientVars
  <2>5. CASE Stop
    BY <2>5 DEF Stop, Phases, feedVars, watchVars, clientVars
  <2>6. CASE KeepLatestValue /\ KeepMessage
    BY <2>6 DEF KeepLatestValue, KeepMessage, serverVars, feedVars, clientVars
  <2>7. CASE KeepLatestValue /\ KeeperLags
    BY <1>0, <2>7, LagMovesForward
    DEF KeepLatestValue, KeeperLags, AfterLag, serverVars, feedVars, clientVars
  <2> QED BY <1>2, <2>1, <2>2, <2>3, <2>4, <2>5, <2>6, <2>7 DEF SocketStep, KeepLatestValue
<1>3. ASSUME NEW c \in Clients, ClientStep(c) PROVE TypeOK'
  <2>1. CASE HandleSingleConnection(c)
    BY <1>0, <2>1 DEF HandleSingleConnection, FirstMessage, Subscribed, serverVars, feedVars, watchVars
  <2>2. CASE RecvMessage(c)
    BY <2>2 DEF RecvMessage, serverVars, feedVars, watchVars
  <2>3. CASE RecvLagged(c)
    <3>1. Oldest(Sent) \in Nat \ {0} /\ Missed(next[c], Sent) \in Nat
      BY <1>0, <2>3, LagMovesForward DEF RecvLagged
    <3> QED BY <2>3, <3>1 DEF RecvLagged, AfterLag, serverVars, feedVars, watchVars
  <2>4. CASE RecvClosed(c)
    BY <2>4 DEF RecvClosed, serverVars, feedVars, watchVars
  <2>5. CASE WriteFails(c)
    BY <2>5 DEF WriteFails, serverVars, feedVars, watchVars
  <2>6. CASE Disconnect(c)
    BY <2>6 DEF Disconnect, serverVars, feedVars, watchVars
  <2>7. CASE WriteMessage(c)
    BY <2>7 DEF WriteMessage, serverVars, feedVars, watchVars
  <2> QED BY <1>3, <2>1, <2>2, <2>3, <2>4, <2>5, <2>6, <2>7 DEF ClientStep, ServeStep
<1>4. CASE UNCHANGED vars
  BY <1>4 DEF vars, serverVars, feedVars, watchVars, clientVars
<1> QED BY <1>1, <1>2, <1>3, <1>4 DEF Next

\* Every variable of the bridge and client tasks keeps its type.
THEOREM TypeCorrect == Spec => []TypeOK
<1>1. Init => TypeOK
  BY InitTyped
<1>2. TypeOK /\ [Next]_vars => TypeOK'
  BY StepTyped
<1> QED BY <1>1, <1>2, PTL DEF Spec
--------------------------------------------------------------------------------
\* Only the price loop grows the log, by one price it does not repeat.
LEMMA LogGrows ==
  ASSUME TypeOK, NEW p \in Prices, ReceivePrice(p)
  PROVE  /\ Sent \in Nat
         /\ \/ log' = log /\ last_value' = last_value /\ SamePrice(p, last_value)
            \/ /\ log' = Append(log, p) /\ last_value' = p /\ ~SamePrice(p, last_value)
               /\ Sent' = Sent + 1
         /\ Sent' \in {Sent, Sent + 1}
         /\ offered' = p
         /\ UNCHANGED <<socket, keeper, current, task, online, next, hold>>
         /\ UNCHANGED <<seen, joined, delivered, lost>>
<1>1. log \in Seq(Prices)
  BY DEF TypeOK
<1>2. Sent \in Nat /\ (log' = Append(log, p) => Sent' = Sent + 1) /\ (log' = log => Sent' = Sent)
  BY ONLY <1>1 DEF Sent
<1>3. UNCHANGED <<serverVars, watchVars, clientVars>>
  BY DEF ReceivePrice
<1> QED BY <1>2, <1>3 DEF ReceivePrice, BroadcastPrice, serverVars, watchVars, clientVars

LEMMA FeedInvStep == TypeOK /\ FeedInv /\ [Next]_vars => FeedInv'
<1> SUFFICES ASSUME TypeOK, FeedInv, [Next]_vars PROVE FeedInv'
  OBVIOUS
<1>1. ASSUME NEW p \in Prices, ReceivePrice(p) PROVE FeedInv'
  <2> USE DEF FeedInv
  <2>1. CASE log' = log /\ last_value' = last_value /\ SamePrice(p, last_value)
    BY <1>1, <2>1, LogGrows DEF SamePrice, Sent
  <2>2. CASE /\ log' = Append(log, p) /\ last_value' = p /\ ~SamePrice(p, last_value)
             /\ Sent' = Sent + 1
    <3>1. log \in Seq(Prices) /\ Sent \in Nat
      BY <1>1, LogGrows DEF TypeOK
    <3>2. log' # <<>> /\ log'[Sent'] = p /\ \A i \in 1..Sent : log'[i] = log[i]
      BY <2>2, <3>1 DEF Sent
    <3>3. ASSUME NEW i \in 2..Sent' PROVE ~SamePrice(log'[i], log'[i - 1])
      <4>1. CASE i = Sent'
        <5>1. i - 1 = Sent /\ Sent \in 1..Sent
          BY <2>2, <3>1, <3>3, <4>1
        <5>2. log # <<>>
          BY <3>1, <5>1 DEF Sent
        <5>3. log'[i - 1] = last_value
          BY <3>2, <5>1, <5>2
        <5> QED BY <2>2, <3>2, <4>1, <5>3
      <4>2. CASE i # Sent'
        <5>1. i \in 2..Sent /\ i \in 1..Sent /\ i - 1 \in 1..Sent
          BY <2>2, <3>1, <3>3, <4>2
        <5>2. ~SamePrice(log[i], log[i - 1])
          BY <5>1
        <5> QED BY <3>2, <5>1, <5>2 DEF SamePrice
      <4> QED BY <4>1, <4>2
    <3> QED BY <1>1, <2>2, <3>2, <3>3, LogGrows DEF SamePrice
  <2> QED BY <1>1, <2>1, <2>2, LogGrows
<1>2. CASE UNCHANGED feedVars
  BY <1>2 DEF FeedInv, feedVars, Sent, SamePrice
<1>3. CASE SocketStep
  BY <1>2, <1>3 DEF SocketStep, Bind, BindFails, RemoveFails, RetryBind, Stop, KeepLatestValue
<1>4. ASSUME NEW c \in Clients, ClientStep(c) PROVE FeedInv'
  BY <1>2, <1>4 DEF ClientStep, ServeStep, HandleSingleConnection, RecvMessage, RecvLagged,
                    RecvClosed, WriteMessage, WriteFails, Disconnect
<1> QED BY <1>1, <1>2, <1>3, <1>4 DEF Next, vars
--------------------------------------------------------------------------------
LEMMA WatchInvStep == TypeOK /\ WatchInv /\ [Next]_vars => WatchInv'
<1> SUFFICES ASSUME TypeOK, WatchInv, [Next]_vars PROVE WatchInv'
  OBVIOUS
<1> USE DEF WatchInv
<1>0. Sent \in Nat /\ keeper \in Nat \ {0} /\ current \in Nat
  BY DEF TypeOK, Sent
<1>1. ASSUME NEW p \in Prices, ReceivePrice(p) PROVE WatchInv'
  BY <1>0, <1>1, LogGrows
<1>2. ASSUME UNCHANGED feedVars PROVE UNCHANGED Sent
  BY <1>2 DEF feedVars, Sent
<1>3. CASE SocketStep
  <2>0. UNCHANGED Sent
    BY <1>2, <1>3 DEF SocketStep, Bind, BindFails, RemoveFails, RetryBind, Stop, KeepLatestValue
  <2>1. CASE Bind
    BY <1>0, <2>0, <2>1 DEF Bind
  <2>2. CASE BindFails
    BY <1>0, <2>0, <2>2 DEF BindFails, watchVars
  <2>3. CASE RemoveFails
    BY <1>0, <2>0, <2>3 DEF RemoveFails, watchVars
  <2>4. CASE RetryBind
    BY <1>0, <2>0, <2>4 DEF RetryBind, watchVars
  <2>5. CASE Stop
    BY <1>0, <2>0, <2>5 DEF Stop, watchVars
  <2>6. CASE KeepLatestValue /\ KeepMessage
    BY <1>0, <2>0, <2>6, ReceivedWasSent DEF KeepLatestValue, KeepMessage, serverVars
  <2>7. CASE KeepLatestValue /\ KeeperLags
    BY <1>0, <2>0, <2>7, LagMovesForward DEF KeepLatestValue, KeeperLags, AfterLag, serverVars
  <2> QED BY <1>3, <2>1, <2>2, <2>3, <2>4, <2>5, <2>6, <2>7 DEF SocketStep, KeepLatestValue
<1>4. CASE UNCHANGED <<serverVars, feedVars, watchVars>>
  BY <1>2, <1>4 DEF serverVars, watchVars
<1>5. ASSUME NEW c \in Clients, ClientStep(c) PROVE WatchInv'
  BY <1>4, <1>5 DEF ClientStep, ServeStep, HandleSingleConnection, RecvMessage, RecvLagged,
                    RecvClosed, WriteMessage, WriteFails, Disconnect
<1> QED BY <1>1, <1>3, <1>4, <1>5 DEF Next, vars
--------------------------------------------------------------------------------
\* The part of NoSilentLoss that is about one client.
Accounted(c) ==
  task[c] = "serving" =>
    LET writing == IF hold[c] >= joined[c] THEN 1 ELSE 0
    IN  delivered[c] + writing + lost[c] = next[c] - joined[c]

Served(c) == ClientInv(c) /\ Accounted(c)

\* A client keeps its invariant while nothing of it changes and the log grows.
LEMMA ServedStable ==
  ASSUME TypeOK, NEW c \in Clients, Served(c),
         Sent' \in {Sent, Sent + 1},
         task'[c] = task[c], next'[c] = next[c], hold'[c] = hold[c], seen'[c] = seen[c],
         joined'[c] = joined[c], delivered'[c] = delivered[c], lost'[c] = lost[c]
  PROVE  Served(c)'
<1>1. Sent \in Nat /\ next[c] \in Nat /\ seen[c] \in Nat
  BY DEF TypeOK, Sent
<1>2. ClientInv(c)'
  BY <1>1 DEF Served, ClientInv
<1>3. Accounted(c)'
  BY DEF Served, Accounted
<1> QED BY <1>2, <1>3 DEF Served

LEMMA ServedStep ==
  ASSUME TypeOK, WatchInv, NEW c \in Clients, Served(c), ClientStep(c)
  PROVE  Served(c)'
<1> USE DEF Served, ClientInv, Accounted
<1>1. /\ Sent \in Nat /\ current \in Nat /\ current < Sent + 1
      /\ next[c] \in Nat \ {0} /\ joined[c] \in Nat \ {0}
      /\ hold[c] \in Nat /\ seen[c] \in Nat /\ delivered[c] \in Nat /\ lost[c] \in Nat
      /\ task \in [Clients -> {"none", "serving", "done"}] /\ next \in [Clients -> Nat \ {0}]
      /\ hold \in [Clients -> Nat] /\ seen \in [Clients -> Nat]
      /\ joined \in [Clients -> Nat \ {0}]
      /\ delivered \in [Clients -> Nat] /\ lost \in [Clients -> Nat]
  BY DEF TypeOK, Sent, WatchInv
<1>2. Sent' = Sent
  BY DEF ClientStep, ServeStep, HandleSingleConnection, RecvMessage, RecvLagged,
         RecvClosed, WriteMessage, WriteFails, Disconnect, feedVars, Sent
<1>3. CASE HandleSingleConnection(c)
  BY <1>1, <1>2, <1>3 DEF HandleSingleConnection, FirstMessage, Subscribed
<1>4. CASE RecvMessage(c)
  <2>1. /\ hold'[c] = next[c] /\ next'[c] = next[c] + 1
        /\ task[c] = "serving" /\ hold[c] = 0 /\ task'[c] = task[c]
        /\ seen'[c] = seen[c] /\ joined'[c] = joined[c]
        /\ delivered'[c] = delivered[c] /\ lost'[c] = lost[c]
    BY <1>1, <1>4 DEF RecvMessage, InRecv
  <2>2. next[c] <= Sent
    BY <1>1, <1>4, ReceivedWasSent DEF RecvMessage
  <2>3. ClientInv(c)'
    BY <1>1, <1>2, <2>1, <2>2
  <2>4. Accounted(c)'
    BY <1>1, <2>1
  <2> QED BY <2>3, <2>4
<1>5. CASE RecvLagged(c)
  <2>1. /\ next'[c] = Oldest(Sent) /\ lost'[c] = lost[c] + Missed(next[c], Sent)
        /\ task[c] = "serving" /\ hold[c] = 0
        /\ task'[c] = task[c] /\ hold'[c] = hold[c] /\ seen'[c] = seen[c]
        /\ joined'[c] = joined[c] /\ delivered'[c] = delivered[c]
    BY <1>1, <1>5 DEF RecvLagged, AfterLag, InRecv
  <2>2. /\ Oldest(Sent) \in Nat /\ next[c] < Oldest(Sent) /\ Oldest(Sent) <= Sent
        /\ Missed(next[c], Sent) = Oldest(Sent) - next[c]
    BY <1>1, <1>5, LagMovesForward DEF RecvLagged
  <2>3. ClientInv(c)'
    BY <1>1, <1>2, <2>1, <2>2
  <2>4. Accounted(c)'
    BY <1>1, <2>1, <2>2
  <2> QED BY <2>3, <2>4
<1>6. CASE RecvClosed(c)
  <2>1. task'[c] = "done" /\ seen'[c] = seen[c]
    BY <1>1, <1>6 DEF RecvClosed
  <2> QED BY <1>1, <1>2, <2>1
<1>7. CASE WriteMessage(c)
  <2>1. /\ task'[c] = "serving" /\ task[c] = "serving" /\ next'[c] = next[c]
        /\ joined'[c] = joined[c] /\ lost'[c] = lost[c]
        /\ hold[c] # 0 /\ hold'[c] = 0 /\ seen'[c] = hold[c]
    BY <1>1, <1>7 DEF WriteMessage
  <2>2. delivered'[c] = IF hold[c] < joined[c] THEN delivered[c] ELSE delivered[c] + 1
    BY <1>1, <1>7 DEF WriteMessage
  <2>3. /\ joined[c] <= next[c] /\ hold[c] < next[c] /\ next[c] <= Sent + 1
        /\ joined[c] < next[c] => hold[c] = next[c] - 1
    BY <2>1
  <2>4. ClientInv(c)'
    <3>1. seen'[c] <= Sent' /\ seen'[c] < next'[c] /\ hold'[c] < next'[c]
      BY <1>1, <1>2, <2>1, <2>3
    <3> QED BY <1>1, <1>2, <2>1, <2>3, <3>1
  <2>5. Accounted(c)'
    BY <1>1, <2>1, <2>2
  <2> QED BY <2>4, <2>5
<1>8. CASE WriteFails(c)
  <2>1. task'[c] = "done" /\ seen'[c] = seen[c]
    BY <1>1, <1>8 DEF WriteFails
  <2> QED BY <1>1, <1>2, <2>1
<1>9. CASE Disconnect(c)
  BY <1>1, <1>2, <1>9 DEF Disconnect
<1> QED BY <1>3, <1>4, <1>5, <1>6, <1>7, <1>8, <1>9 DEF ClientStep, ServeStep

\* The step of one client disturbs no other client.
LEMMA OthersUnmoved ==
  ASSUME TypeOK, NEW c \in Clients, ClientStep(c), NEW d \in Clients, d # c
  PROVE  /\ task'[d] = task[d] /\ next'[d] = next[d] /\ hold'[d] = hold[d]
         /\ seen'[d] = seen[d] /\ joined'[d] = joined[d]
         /\ delivered'[d] = delivered[d] /\ lost'[d] = lost[d]
         /\ UNCHANGED Sent
<1>1. UNCHANGED Sent
  BY DEF ClientStep, ServeStep, HandleSingleConnection, RecvMessage, RecvLagged,
         RecvClosed, WriteMessage, WriteFails, Disconnect, feedVars, Sent
<1>2. CASE HandleSingleConnection(c)
  BY <1>1, <1>2 DEF HandleSingleConnection, TypeOK
<1>3. CASE RecvMessage(c)
  BY <1>1, <1>3 DEF RecvMessage, TypeOK
<1>4. CASE RecvLagged(c)
  BY <1>1, <1>4 DEF RecvLagged, TypeOK
<1>5. CASE RecvClosed(c)
  BY <1>1, <1>5 DEF RecvClosed, TypeOK
<1>6. CASE WriteMessage(c)
  BY <1>1, <1>6 DEF WriteMessage, TypeOK
<1>7. CASE WriteFails(c)
  BY <1>1, <1>7 DEF WriteFails, TypeOK
<1>8. CASE Disconnect(c)
  BY <1>1, <1>8 DEF Disconnect, TypeOK
<1> QED BY <1>2, <1>3, <1>4, <1>5, <1>6, <1>7, <1>8 DEF ClientStep, ServeStep

LEMMA AllServedStep ==
  ASSUME TypeOK, WatchInv, \A c \in Clients : Served(c), [Next]_vars
  PROVE  (\A c \in Clients : Served(c))'
<1> SUFFICES ASSUME NEW d \in Clients PROVE Served(d)'
  OBVIOUS
<1>1. ASSUME NEW p \in Prices, ReceivePrice(p) PROVE Served(d)'
  BY <1>1, LogGrows, ServedStable
<1>2. CASE UNCHANGED <<feedVars, clientVars>>
  <2>1. Sent' = Sent
    BY <1>2 DEF feedVars, Sent
  <2> QED BY <1>2, <2>1, ServedStable DEF clientVars
<1>3. CASE SocketStep
  BY <1>2, <1>3 DEF SocketStep, Bind, BindFails, RemoveFails, RetryBind, Stop, KeepLatestValue
<1>4. ASSUME NEW c \in Clients, ClientStep(c) PROVE Served(d)'
  <2>1. CASE c = d
    BY <1>4, <2>1, ServedStep
  <2>2. CASE c # d
    BY <1>4, <2>2, OthersUnmoved, ServedStable
  <2> QED BY <2>1, <2>2
<1> QED BY <1>1, <1>2, <1>3, <1>4 DEF Next, vars
--------------------------------------------------------------------------------
LEMMA SocketInvParts ==
  SocketInv <=> WatchInv /\ FeedInv /\ \A c \in Clients : Served(c)
BY DEF SocketInv, NoSilentLoss, Served, Accounted

LEMMA InitInv == Init => SocketInv
BY DEF Init, SocketInv, WatchInv, FeedInv, NoSilentLoss, ClientInv, Sent

\* The inductive invariant: where the watch, the price loop and every client task
\* stand relative to the messages broadcast.
THEOREM Invariant == Spec => [](TypeOK /\ SocketInv)
<1>1. Init => TypeOK /\ SocketInv
  BY InitTyped, InitInv
<1>2. (TypeOK /\ SocketInv) /\ [Next]_vars => (TypeOK /\ SocketInv)'
  <2> SUFFICES ASSUME TypeOK, SocketInv, [Next]_vars PROVE TypeOK' /\ SocketInv'
    OBVIOUS
  <2>1. TypeOK' /\ WatchInv' /\ FeedInv' /\ (\A c \in Clients : Served(c))'
    BY StepTyped, WatchInvStep, FeedInvStep, AllServedStep, SocketInvParts
  <2> QED BY <2>1 DEF SocketInv, NoSilentLoss, Served, Accounted
<1> QED BY <1>1, <1>2, PTL DEF Spec
--------------------------------------------------------------------------------
\* Every message sent after a client was subscribed is written, being written, still
\* to come, or counted as lagged (handle_connection_messages).
THEOREM NothingLostSilently == Spec => []NoSilentLoss
<1>1. SocketInv => NoSilentLoss
  BY DEF SocketInv
<1> QED BY <1>1, Invariant, PTL

\* Greeting and broadcast never show a client a message twice or out of order
\* (handle_single_connection).
THEOREM ClientsSeeNewer == Spec => []OnlyNewer
<1>1. SocketInv => OnlyNewer
  BY DEF SocketInv, ClientInv, OnlyNewer
<1> QED BY <1>1, Invariant, PTL

\* A client task that waits for more has sent the newest price, once it has received
\* one, however often it lagged (handle_connection_messages).
THEOREM WaitingClientIsCurrent == Spec => []CaughtUpIsLatest
<1>1. TypeOK /\ SocketInv => CaughtUpIsLatest
  <2> SUFFICES ASSUME TypeOK, SocketInv, NEW c \in Clients,
                      InRecv(c), Drained(next[c], Sent), next[c] > joined[c]
               PROVE  seen[c] = Sent
    BY DEF CaughtUpIsLatest
  <2>1. Sent \in Nat /\ next[c] \in Nat /\ joined[c] \in Nat /\ seen[c] \in Nat
    BY DEF TypeOK, Sent
  <2>2. next[c] <= Sent + 1 /\ (seen[c] = next[c] - 1 \/ next[c] <= Sent)
    BY <2>1 DEF SocketInv, ClientInv, InRecv
  <2> QED BY <2>1, <2>2 DEF Drained
<1> QED BY <1>1, Invariant, PTL

\* The greeting kept for new clients is a message that was broadcast, and the last
\* one whenever keep_latest_value has nothing left to receive.
THEOREM GreetingIsBroadcast == Spec => []WatchFollowsKeeper
<1>1. TypeOK /\ SocketInv => WatchFollowsKeeper
  <2> SUFFICES ASSUME TypeOK, SocketInv PROVE WatchFollowsKeeper
    OBVIOUS
  <2>1. Sent \in Nat /\ keeper \in Nat /\ current \in Nat
    BY DEF TypeOK, Sent
  <2> QED BY <2>1 DEF SocketInv, WatchInv, WatchFollowsKeeper, Drained
<1> QED BY <1>1, Invariant, PTL

\* From the first broadcast on, the last message is the price taken last and no price is
\* repeated; before it nothing but (0, 0) was dropped last (bridge).
THEOREM PriceLoopLossless == Spec => []BroadcastIsLossless
<1>1. SocketInv => BroadcastIsLossless
  BY DEF SocketInv, FeedInv, BroadcastIsLossless
<1> QED BY <1>1, Invariant, PTL
--------------------------------------------------------------------------------
\* The bridge task and its client tasks implement the price feed: a broadcast is a
\* Publish, a completed write is a Show, every other step is a stutter.
THEOREM ImplementsFeed == Spec => FeedSpec
<1>1. Init => Feed!Init
  BY DEF Init, Feed!Init, Sent
<1>2. TypeOK /\ SocketInv /\ [Next]_vars => [Feed!Next]_(Feed!vars)
  <2> SUFFICES ASSUME TypeOK, SocketInv, [Next]_vars PROVE [Feed!Next]_(Feed!vars)
    OBVIOUS
  <2> USE DEF Feed!vars
  <2>1. ASSUME NEW p \in Prices, ReceivePrice(p) PROVE [Feed!Next]_(Feed!vars)
    BY <2>1, LogGrows DEF Feed!Next, Feed!Publish
  <2>2. CASE UNCHANGED <<feedVars, seen>>
    BY <2>2 DEF feedVars, Sent
  <2>3. CASE SocketStep
    BY <2>2, <2>3 DEF SocketStep, Bind, BindFails, RemoveFails, RetryBind, Stop,
                      KeepLatestValue, clientVars
  <2>4. ASSUME NEW c \in Clients, WriteMessage(c) PROVE Feed!Show(c)
    <3>1. Sent' = Sent
      BY <2>4 DEF WriteMessage, feedVars, Sent
    <3>2. hold[c] \in (seen[c] + 1)..Sent
      <4>1. /\ Sent \in Nat /\ hold[c] \in Nat /\ seen[c] \in Nat /\ next[c] \in Nat
        BY DEF TypeOK, Sent
      <4>2. seen[c] < hold[c] /\ hold[c] < next[c] /\ next[c] <= Sent + 1
        BY <2>4 DEF SocketInv, ClientInv, WriteMessage
      <4> QED BY <4>1, <4>2
    <3> QED BY <2>4, <3>1, <3>2 DEF WriteMessage, Feed!Show
  <2>5. ASSUME NEW c \in Clients, ClientStep(c) PROVE [Feed!Next]_(Feed!vars)
    <3>1. CASE WriteMessage(c)
      BY <2>4, <3>1 DEF Feed!Next
    <3>2. CASE ~WriteMessage(c)
      BY <2>2, <2>5, <3>2 DEF ClientStep, ServeStep, HandleSingleConnection, RecvMessage,
                              RecvLagged, RecvClosed, WriteFails, Disconnect
    <3> QED BY <3>1, <3>2
  <2> QED BY <2>1, <2>2, <2>3, <2>5 DEF Next, vars, clientVars
<1> QED BY <1>1, <1>2, Invariant, PTL DEF Spec, FeedSpec, Feed!Spec
================================================================================
