----------------------------- MODULE ControlProofs -----------------------------
(***************************************************************************)
(* What the control socket promises its clients, and the agreement of the  *)
(* manager and the exchange, for any clients, pairs, symbols and sizes.    *)
(***************************************************************************)
EXTENDS Control, BinanceExchangeProofs

\* The definitions that name what an action leaves alone.
LEMMA TasksStep ==
  ASSUME NEW c \in Clients, ServerStep(c)
  PROVE  UNCHANGED <<exchangeVars, client, written, price_sockets, taken>>
BY DEF ServerStep, Accept, ReadCommand, ReadFails, QueuePair, tasksRest

LEMMA ClientsStep ==
  ASSUME NEW c \in Clients, ClientStep(c)
  PROVE  UNCHANGED <<exchangeVars, server, read, pending, queue, price_sockets, taken>>
BY DEF ClientStep, ClientConnects, WriteFrame, ClientCloses, clientsRest

\* The exchange and the price sockets change in TakePair only.
LEMMA OthersLeaveSockets ==
  ASSUME [Next]_vars PROVE TakePair \/ UNCHANGED <<exchangeVars, price_sockets>>
<1>1. CASE UNCHANGED vars BY <1>1 DEF vars, controlVars
<1>2. ASSUME NEW c \in Clients, ClientStep(c) PROVE UNCHANGED <<exchangeVars, price_sockets>>
  BY <1>2, ClientsStep
<1>3. ASSUME NEW c \in Clients, ServerStep(c) PROVE UNCHANGED <<exchangeVars, price_sockets>>
  BY <1>3, TasksStep
<1> QED BY <1>1, <1>2, <1>3 DEF Next

--------------------------------------------------------------------------------
(* Types *)

\* What TypeOK says of the control socket.
ControlTypeOK ==
  /\ client \in [Clients -> {"away", "open", "closed"}]
  /\ written \in [Clients -> Seq(Commands)]
  /\ server \in [Clients -> {"none", "reading", "gone"}]
  /\ read \in [Clients -> Nat] /\ pending \in [Clients -> Nat] /\ taken \in [Clients -> Nat]
  /\ \A c \in Clients :
       Len(written[c]) <= MaxFrames /\ read[c] <= Len(written[c]) /\ pending[c] \in {0, read[c]}
  /\ queue \in Seq([conn : Clients, n : Nat \ {0}]) /\ Len(queue) <= PairsSize
  /\ \A i \in 1..Len(queue) : queue[i].n <= read[queue[i].conn]

LEMMA ElementOf == ASSUME NEW E, NEW q \in Seq(E), NEW i \in 1..Len(q) PROVE q[i] \in E
OBVIOUS

\* What lies behind the head of a sequence, and before its new end.
LEMMA HeadAndTail ==
  ASSUME NEW E, NEW q \in Seq(E), q # <<>>
  PROVE  /\ Len(q) \in Nat \ {0} /\ Head(q) = q[1] /\ q[1] \in E
         /\ Tail(q) \in Seq(E) /\ Len(Tail(q)) = Len(q) - 1
         /\ \A i \in 1..Len(q) - 1 : Tail(q)[i] = q[i + 1]
OBVIOUS

LEMMA AtTheEnd ==
  ASSUME NEW E, NEW q \in Seq(E), NEW e \in E
  PROVE  /\ Append(q, e) \in Seq(E) /\ Len(Append(q, e)) = Len(q) + 1
         /\ Append(q, e)[Len(q) + 1] = e
         /\ \A i \in 1..Len(q) : Append(q, e)[i] = q[i]
OBVIOUS

\* Where the elements of the queue come from.
LEMMA QueueElements ==
  ASSUME ControlTypeOK, NEW i \in 1..Len(queue)
  PROVE  /\ queue[i].conn \in Clients /\ queue[i].n \in Nat \ {0}
         /\ queue[i].n <= read[queue[i].conn] /\ read[queue[i].conn] \in Nat
<1>1. queue \in Seq([conn : Clients, n : Nat \ {0}])
  BY DEF ControlTypeOK
<1>2. queue[i] \in [conn : Clients, n : Nat \ {0}]
  BY <1>1, ElementOf, Zenon
<1> QED BY <1>2 DEF ControlTypeOK

\* A frame that is written stays.
LEMMA FramesStay ==
  ASSUME ControlTypeOK, NEW c \in Clients, NEW cmd \in Commands, WriteFrame(c, cmd)
  PROVE  /\ written' \in [Clients -> Seq(Commands)]
         /\ \A d \in Clients :
              /\ Len(written[d]) <= Len(written'[d]) /\ Len(written'[d]) <= MaxFrames
              /\ \A i \in 1..Len(written[d]) : written'[d][i] = written[d][i]
BY MaxFramesAssumption DEF ControlTypeOK, WriteFrame

\* The command of a queued frame names a pair of Pairs.
LEMMA QueuedPair ==
  ASSUME ControlTypeOK, queue # <<>>
  PROVE  Command(Head(queue)) \in Commands /\ Command(Head(queue)).pair \in Pairs
<1>1. Head(queue) = queue[1] /\ queue[1] \in [conn : Clients, n : Nat \ {0}] /\ Len(queue) \in Nat \ {0}
  BY HeadAndTail, Zenon DEF ControlTypeOK
<1>2. queue[1].n \in 1..Len(written[queue[1].conn])
  BY <1>1 DEF ControlTypeOK
<1>3. Command(Head(queue)) \in Commands
  BY <1>1, <1>2 DEF Command, ControlTypeOK
<1> QED BY <1>3, CommandsAssumption

LEMMA ReadTyped ==
  ASSUME ControlTypeOK, NEW c \in Clients, ReadCommand(c) \/ ReadFails(c) \/ Accept(c)
  PROVE  ControlTypeOK'
<1> USE DEF ControlTypeOK, tasksRest
<1>1. CASE ReadCommand(c)
  <2>1. read' \in [Clients -> Nat] /\ pending' \in [Clients -> Nat]
    BY <1>1 DEF ReadCommand
  <2>2. \A d \in Clients :
          read[d] <= read'[d] /\ read'[d] <= Len(written[d]) /\ pending'[d] \in {0, read'[d]}
    BY <1>1 DEF ReadCommand, Unread
  <2>4. ASSUME NEW i \in 1..Len(queue) PROVE queue[i].n <= read'[queue[i].conn]
    <3> HIDE DEF ControlTypeOK
    <3>1. /\ queue[i].conn \in Clients /\ queue[i].n \in Nat
          /\ queue[i].n <= read[queue[i].conn] /\ read[queue[i].conn] \in Nat
      BY QueueElements
    <3>2. read'[queue[i].conn] \in Nat /\ read[queue[i].conn] <= read'[queue[i].conn]
      BY <3>1, <2>1, <2>2
    <3> QED BY <3>1, <3>2
  <2>5. UNCHANGED <<client, written, server, queue, taken>>
    BY <1>1 DEF ReadCommand
  <2> QED BY <2>1, <2>2, <2>4, <2>5
<1>2. CASE ReadFails(c) BY <1>2 DEF ReadFails
<1>3. CASE Accept(c) BY <1>3 DEF Accept
<1> QED BY <1>1, <1>2, <1>3

LEMMA QueueTyped ==
  ASSUME ControlTypeOK, NEW c \in Clients, QueuePair(c) PROVE ControlTypeOK'
<1> DEFINE E == [conn : Clients, n : Nat \ {0}]
           e == [conn |-> c, n |-> pending[c]]
<1>1. queue \in Seq(E) /\ e \in E /\ queue' = Append(queue, e) /\ Len(queue) + 1 <= PairsSize
  BY PairsSizeAssumption DEF ControlTypeOK, QueuePair
<1>2. e.conn = c /\ e.n = pending[c]
  OBVIOUS
<1> HIDE DEF E, e
<1>3. /\ queue' \in Seq(E) /\ Len(queue') = Len(queue) + 1 /\ Len(queue) \in Nat
      /\ queue'[Len(queue) + 1] = e /\ \A i \in 1..Len(queue) : queue'[i] = queue[i]
  BY <1>1, AtTheEnd
<1>4. UNCHANGED <<client, written, server, read, taken>>
  BY DEF QueuePair, tasksRest
<1>5. pending' \in [Clients -> Nat] /\ \A d \in Clients : pending'[d] \in {0, read[d]}
  BY DEF ControlTypeOK, QueuePair
<1>6. ASSUME NEW i \in 1..Len(queue') PROVE queue'[i].n <= read[queue'[i].conn]
  <2>1. CASE i \in 1..Len(queue)
    BY <2>1, <1>3, QueueElements
  <2>2. CASE i = Len(queue) + 1
    <3>1. pending[c] = read[c] /\ read[c] \in Nat
      BY DEF ControlTypeOK, QueuePair
    <3> QED BY <2>2, <3>1, <1>2, <1>3
  <2> QED BY <2>1, <2>2, <1>3
<1> QED BY <1>1, <1>3, <1>4, <1>5, <1>6 DEF ControlTypeOK, E

\* The rest of the queue when the manager has taken its head.
LEMMA QueueRest ==
  ASSUME ControlTypeOK, TakePair
  PROVE  /\ Len(queue) \in Nat \ {0} /\ Head(queue) = queue[1]
         /\ queue' \in Seq([conn : Clients, n : Nat \ {0}]) /\ Len(queue') = Len(queue) - 1
         /\ \A i \in 1..Len(queue') : queue'[i] = queue[i + 1]
         /\ UNCHANGED <<client, written, server, read, pending>>
         /\ taken' = [taken EXCEPT ![queue[1].conn] = queue[1].n]
<1> DEFINE E == [conn : Clients, n : Nat \ {0}]
<1>1. queue \in Seq(E) /\ queue # <<>> /\ queue' = Tail(queue)
  BY DEF ControlTypeOK, TakePair
<1> HIDE DEF E
<1>2. /\ Len(queue) \in Nat \ {0} /\ Head(queue) = queue[1]
      /\ queue' \in Seq(E) /\ Len(queue') = Len(queue) - 1
      /\ \A i \in 1..Len(queue) - 1 : queue'[i] = queue[i + 1]
  BY <1>1, HeadAndTail
<1>3. UNCHANGED <<client, written, server, read, pending>>
      /\ taken' = [taken EXCEPT ![queue[1].conn] = queue[1].n]
  BY <1>2 DEF TakePair
<1> QED BY <1>2, <1>3 DEF E

LEMMA TakeTyped == ASSUME ControlTypeOK, TakePair PROVE ControlTypeOK'
<1>1. queue[1].conn \in Clients /\ queue[1].n \in Nat
  BY QueueRest, QueueElements
<1>2. taken' \in [Clients -> Nat]
  BY <1>1, QueueRest DEF ControlTypeOK
<1>3. ASSUME NEW i \in 1..Len(queue') PROVE queue'[i].n <= read[queue'[i].conn]
  <2>1. i + 1 \in 1..Len(queue) /\ queue'[i] = queue[i + 1]
    BY QueueRest
  <2> QED BY <2>1, QueueElements
<1>4. Len(queue') <= PairsSize
  BY QueueRest, PairsSizeAssumption DEF ControlTypeOK
<1> QED BY <1>2, <1>3, <1>4, QueueRest DEF ControlTypeOK

LEMMA ClientTyped ==
  ASSUME ControlTypeOK, NEW c \in Clients, ClientStep(c) PROVE ControlTypeOK'
<1>1. CASE ClientConnects(c) \/ ClientCloses(c)
  BY <1>1 DEF ClientConnects, ClientCloses, clientsRest, ControlTypeOK
<1>2. ASSUME NEW cmd \in Commands, WriteFrame(c, cmd) PROVE ControlTypeOK'
  <2>1. client' \in [Clients -> {"away", "open", "closed"}]
    BY <1>2 DEF WriteFrame, ControlTypeOK
  <2>2. UNCHANGED <<server, read, pending, queue, taken>>
    BY <1>2 DEF WriteFrame, clientsRest
  <2>3. ASSUME NEW d \in Clients PROVE Len(written'[d]) <= MaxFrames /\ read[d] <= Len(written'[d])
    <3>1. /\ Len(written[d]) \in Nat /\ Len(written'[d]) \in Nat /\ read[d] \in Nat
          /\ read[d] <= Len(written[d])
      BY <1>2, FramesStay DEF ControlTypeOK
    <3>2. Len(written[d]) <= Len(written'[d]) /\ Len(written'[d]) <= MaxFrames
      BY <1>2, FramesStay
    <3> QED BY <3>1, <3>2
  <2>4. written' \in [Clients -> Seq(Commands)]
    BY <1>2, FramesStay
  <2> QED BY <2>1, <2>2, <2>3, <2>4 DEF ControlTypeOK
<1> QED BY <1>1, <1>2 DEF ClientStep

LEMMA TypeStep == ASSUME TypeOK, [Next]_vars PROVE TypeOK'
<1>1. ControlTypeOK /\ ExchangeTypeOK /\ price_sockets \subseteq Pairs
  BY DEF TypeOK, ControlTypeOK
<1>2. ControlTypeOK'
  <2>1. CASE UNCHANGED vars
    BY <2>1, <1>1 DEF vars, controlVars, ControlTypeOK
  <2>2. ASSUME NEW c \in Clients, ServerStep(c) PROVE ControlTypeOK'
    BY <2>2, <1>1, ReadTyped, QueueTyped DEF ServerStep
  <2> QED BY <2>1, <2>2, <1>1, ClientTyped, TakeTyped DEF Next
<1>3. ExchangeTypeOK' /\ price_sockets' \subseteq Pairs
  <2>1. CASE UNCHANGED <<exchangeVars, price_sockets>>
    BY <2>1, <1>1 DEF ExchangeTypeOK, Registered, exchangeVars
  <2>2. CASE TakePair
    <3> DEFINE p == Command(Head(queue)).pair
    <3>1. p \in Pairs /\ (UNCHANGED <<exchangeVars, price_sockets>> \/ AddSocket(p))
      BY <2>2, <1>1, QueuedPair DEF TakePair
    <3> QED BY <3>1, <2>1, <1>1, AddPairTyped DEF AddSocket
  <2> QED BY <2>1, <2>2, OthersLeaveSockets
<1> QED BY <1>2, <1>3 DEF TypeOK, ControlTypeOK

\* The state stays well typed, the channel within its capacity, and no frame is queued
\* that has not been read.
THEOREM TypeCorrect == Spec => []TypeOK
<1>1. Init => TypeOK
  BY MaxVersionAssumption, MaxFramesAssumption, PairsSizeAssumption
  DEF Init, ExchangeInit, NoEntries, TypeOK, ExchangeTypeOK, Registered
<1>2. TypeOK /\ [Next]_vars => TypeOK'
  BY TypeStep
<1> QED BY <1>1, <1>2, PTL DEF Spec

--------------------------------------------------------------------------------
(* Delivery *)

NamesPair(cmd) == Promise!NamesPair(cmd)

\* What the task of c has read is whole, and each pair in it is taken, queued or the one
\* the task waits to queue.
ReadIsKept ==
  \A c \in Clients :
    /\ taken[c] <= read[c]
    /\ \A n \in 1..read[c] :
         /\ ~Broken(written[c][n])
         /\ taken[c] < n /\ NamesPair(written[c][n]) =>
              n = pending[c] \/ \E i \in 1..Len(queue) : queue[i].conn = c /\ queue[i].n = n
    /\ pending[c] # 0 => taken[c] < pending[c] /\ NamesPair(written[c][pending[c]])

\* The frames of one connection are queued in order, after those taken and before the one
\* its task waits to queue.
QueueInOrder ==
  \A i \in 1..Len(queue) :
    LET c == queue[i].conn IN
    /\ taken[c] < queue[i].n /\ NamesPair(written[c][queue[i].n])
    /\ pending[c] # 0 => queue[i].n < pending[c]
    /\ \A j \in 1..i - 1 : queue[j].conn = c => queue[j].n < queue[i].n

DeliveryInv == ControlTypeOK /\ ReadIsKept /\ QueueInOrder

LEMMA ClientKeepsOrder ==
  ASSUME DeliveryInv, NEW c \in Clients, ClientStep(c)
  PROVE  DeliveryInv' /\ (Promise!Write(c) \/ UNCHANGED <<written, taken>>)
<1>1. UNCHANGED <<read, pending, queue, taken>>
  BY ClientsStep
<1>2. ASSUME NEW d \in Clients, NEW n \in 1..read[d] PROVE written'[d][n] = written[d][n]
  <2>1. n \in 1..Len(written[d])
    BY DEF DeliveryInv, ControlTypeOK
  <2>2. CASE ClientConnects(c) \/ ClientCloses(c)
    BY <2>2 DEF ClientConnects, ClientCloses
  <2>3. ASSUME NEW cmd \in Commands, WriteFrame(c, cmd) PROVE written'[d][n] = written[d][n]
    BY <2>1, <2>3, FramesStay DEF DeliveryInv
  <2> QED BY <2>2, <2>3 DEF ClientStep
<1>3. ControlTypeOK'
  BY ClientTyped DEF DeliveryInv
<1>4. ReadIsKept'
  <2> SUFFICES ASSUME NEW d \in Clients
               PROVE  /\ \A n \in 1..read[d] :
                           /\ ~Broken(written'[d][n])
                           /\ taken[d] < n /\ NamesPair(written'[d][n]) =>
                                n = pending[d] \/ \E i \in 1..Len(queue) : queue[i].conn = d /\ queue[i].n = n
                      /\ pending[d] # 0 => NamesPair(written'[d][pending[d]])
    BY <1>1 DEF ReadIsKept, DeliveryInv
  <2>1. pending[d] # 0 => pending[d] \in 1..read[d]
    BY DEF DeliveryInv, ControlTypeOK
  <2> QED BY <1>2, <2>1 DEF ReadIsKept, DeliveryInv
<1>5. QueueInOrder'
  <2>1. ASSUME NEW i \in 1..Len(queue)
        PROVE  written'[queue[i].conn][queue[i].n] = written[queue[i].conn][queue[i].n]
    BY <1>2, QueueElements DEF DeliveryInv
  <2> QED BY <1>1, <2>1 DEF QueueInOrder, DeliveryInv
<1>6. Promise!Write(c) \/ UNCHANGED <<written, taken>>
  BY <1>1 DEF ClientStep, ClientConnects, ClientCloses, WriteFrame, Promise!Write
<1> QED BY <1>3, <1>4, <1>5, <1>6 DEF DeliveryInv

LEMMA ReadKeepsOrder ==
  ASSUME DeliveryInv, NEW c \in Clients, ReadCommand(c) \/ ReadFails(c) \/ Accept(c)
  PROVE  DeliveryInv'
<1>1. UNCHANGED <<written, queue, taken>>
  BY DEF ReadCommand, ReadFails, Accept, tasksRest
<1>2. ControlTypeOK'
  BY ReadTyped DEF DeliveryInv
<1>3. CASE UNCHANGED <<read, pending>>
  BY <1>1, <1>2, <1>3 DEF DeliveryInv, ReadIsKept, QueueInOrder
<1>4. CASE ReadCommand(c)
  <2>1. /\ read[c] \in Nat /\ taken[c] \in Nat /\ taken[c] <= read[c]
        /\ read' = [read EXCEPT ![c] = read[c] + 1] /\ read \in [Clients -> Nat]
        /\ pending[c] = 0 /\ pending \in [Clients -> Nat]
        /\ read[c] + 1 \in 1..Len(written[c])
    BY <1>4 DEF DeliveryInv, ControlTypeOK, ReadIsKept, ReadCommand, Reading, Unread
  <2>2. /\ written[c][read[c] + 1] \in Commands
        /\ ~Broken(written[c][read[c] + 1])
        /\ pending' = [pending EXCEPT ![c] =
                         IF written[c][read[c] + 1].kind = "key" THEN 0 ELSE read[c] + 1]
    BY <1>4, <2>1 DEF ReadCommand, NextFrame, DeliveryInv, ControlTypeOK
  <2>3. NamesPair(written[c][read[c] + 1]) <=> written[c][read[c] + 1].kind # "key"
    BY <2>2, CommandsAssumption DEF NamesPair, Promise!NamesPair, Broken, Kinds
  <2>4. ReadIsKept'
    <3> SUFFICES ASSUME NEW d \in Clients
                 PROVE  /\ taken[d] <= read'[d]
                        /\ \A n \in 1..read'[d] :
                             /\ ~Broken(written[d][n])
                             /\ taken[d] < n /\ NamesPair(written[d][n]) =>
                                  n = pending'[d] \/ \E i \in 1..Len(queue) : queue[i].conn = d /\ queue[i].n = n
                        /\ pending'[d] # 0 => taken[d] < pending'[d] /\ NamesPair(written[d][pending'[d]])
      BY <1>1 DEF ReadIsKept
    <3>1. CASE d # c
      BY <3>1, <2>1, <2>2 DEF DeliveryInv, ReadIsKept
    <3>2. CASE d = c
      <4>1. read'[c] = read[c] + 1 /\ 1..read'[c] = 1..read[c] \cup {read[c] + 1}
        BY <2>1
      <4>2. pending'[c] = IF NamesPair(written[c][read[c] + 1]) THEN read[c] + 1 ELSE 0
        BY <2>1, <2>2, <2>3
      <4>3. ASSUME NEW n \in 1..read[c]
            PROVE  /\ ~Broken(written[c][n])
                   /\ taken[c] < n /\ NamesPair(written[c][n]) =>
                        \E i \in 1..Len(queue) : queue[i].conn = c /\ queue[i].n = n
        <5>1. n # pending[c]
          BY <2>1
        <5> QED BY <5>1 DEF DeliveryInv, ReadIsKept
      <4>4. taken[c] <= read'[c] /\ (pending'[c] # 0 => taken[c] < pending'[c] /\ NamesPair(written[c][pending'[c]]))
        BY <2>1, <4>1, <4>2
      <4>5. ASSUME NEW n \in 1..read'[c]
            PROVE  /\ ~Broken(written[c][n])
                   /\ taken[c] < n /\ NamesPair(written[c][n]) =>
                        n = pending'[c] \/ \E i \in 1..Len(queue) : queue[i].conn = c /\ queue[i].n = n
        <5>1. CASE n = read[c] + 1
          BY <5>1, <2>2, <4>2
        <5>2. CASE n \in 1..read[c]
          BY <5>2, <4>3, Zenon
        <5> QED BY <5>1, <5>2, <4>1
      <4> QED BY <3>2, <4>4, <4>5
    <3> QED BY <3>1, <3>2
  <2>5. QueueInOrder'
    <3>1. ASSUME NEW i \in 1..Len(queue), pending'[queue[i].conn] # 0 PROVE queue[i].n < pending'[queue[i].conn]
      <4>1. /\ queue[i].conn \in Clients /\ queue[i].n \in Nat
            /\ queue[i].n <= read[queue[i].conn]
        BY QueueElements DEF DeliveryInv
      <4>2. CASE queue[i].conn = c
        BY <3>1, <4>1, <4>2, <2>1, <2>2
      <4>3. CASE queue[i].conn # c
        BY <3>1, <4>1, <4>3, <2>2 DEF DeliveryInv, QueueInOrder
      <4> QED BY <4>2, <4>3
    <3> QED BY <1>1, <3>1 DEF DeliveryInv, QueueInOrder
  <2> QED BY <1>2, <2>4, <2>5 DEF DeliveryInv
<1> QED BY <1>3, <1>4 DEF ReadFails, Accept

LEMMA QueueKeepsOrder ==
  ASSUME DeliveryInv, NEW c \in Clients, QueuePair(c) PROVE DeliveryInv'
<1> DEFINE E == [conn : Clients, n : Nat \ {0}]
           e == [conn |-> c, n |-> pending[c]]
           last == Len(queue) + 1
<1>1. ControlTypeOK'
  BY QueueTyped DEF DeliveryInv
<1>2. /\ UNCHANGED <<written, read, taken>>
      /\ pending[c] # 0 /\ pending \in [Clients -> Nat] /\ pending' = [pending EXCEPT ![c] = 0]
      /\ taken[c] < pending[c] /\ NamesPair(written[c][pending[c]])
  BY DEF QueuePair, tasksRest, DeliveryInv, ControlTypeOK, ReadIsKept
<1>3. queue \in Seq(E) /\ e \in E /\ queue' = Append(queue, e) /\ e.conn = c /\ e.n = pending[c]
  BY DEF DeliveryInv, ControlTypeOK, QueuePair
<1> HIDE DEF E, e
<1>4. /\ Len(queue') = last /\ Len(queue) \in Nat
      /\ queue'[last] = e /\ \A i \in 1..Len(queue) : queue'[i] = queue[i]
  BY <1>3, AtTheEnd
<1>5. ReadIsKept'
  <2> SUFFICES ASSUME NEW d \in Clients, NEW n \in 1..read[d], taken[d] < n, NamesPair(written[d][n])
               PROVE  n = pending'[d] \/ \E i \in 1..Len(queue') : queue'[i].conn = d /\ queue'[i].n = n
    BY <1>2 DEF ReadIsKept, DeliveryInv
  <2>1. CASE \E i \in 1..Len(queue) : queue[i].conn = d /\ queue[i].n = n
    BY <2>1, <1>4
  <2>2. CASE n = pending[d] /\ d = c
    BY <2>2, <1>3, <1>4
  <2>3. CASE n = pending[d] /\ d # c
    BY <2>3, <1>2
  <2> QED BY <2>1, <2>2, <2>3 DEF ReadIsKept, DeliveryInv
<1>6. QueueInOrder'
  <2> SUFFICES ASSUME NEW i \in 1..Len(queue')
               PROVE  /\ taken[queue'[i].conn] < queue'[i].n
                      /\ NamesPair(written[queue'[i].conn][queue'[i].n])
                      /\ pending'[queue'[i].conn] # 0 => queue'[i].n < pending'[queue'[i].conn]
                      /\ \A j \in 1..i - 1 : queue'[j].conn = queue'[i].conn => queue'[j].n < queue'[i].n
    BY <1>2 DEF QueueInOrder
  <2>1. CASE i \in 1..Len(queue)
    <3>1. queue'[i] = queue[i] /\ \A j \in 1..i - 1 : queue'[j] = queue[j]
      BY <2>1, <1>4
    <3>2. queue[i].conn \in Clients
      BY <2>1, QueueElements DEF DeliveryInv
    <3>3. pending'[queue[i].conn] # 0 => pending'[queue[i].conn] = pending[queue[i].conn]
      BY <3>2, <1>2
    <3> QED BY <2>1, <3>1, <3>3 DEF DeliveryInv, QueueInOrder
  <2>2. CASE i = last
    <3>1. queue'[i] = e /\ pending'[c] = 0
      BY <2>2, <1>2, <1>4
    <3>2. \A j \in 1..i - 1 : j \in 1..Len(queue) /\ queue'[j] = queue[j]
      BY <2>2, <1>4
    <3>3. \A j \in 1..Len(queue) : queue[j].conn = c => queue[j].n < pending[c]
      BY <1>2 DEF DeliveryInv, QueueInOrder
    <3> QED BY <3>1, <3>2, <3>3, <1>2, <1>3
  <2> QED BY <2>1, <2>2, <1>4
<1> QED BY <1>1, <1>5, <1>6 DEF DeliveryInv

\* The manager takes the next pair of the connection: what lies between is no pair, as it
\* would be queued before, and not broken, as it was read.
LEMMA TakeKeepsOrder ==
  ASSUME DeliveryInv, TakePair
  PROVE  DeliveryInv' /\ \E c \in Clients : Promise!Take(c)
<1> DEFINE c == queue[1].conn
           m == queue[1].n
<1>1. ControlTypeOK'
  BY TakeTyped DEF DeliveryInv
<1>2. /\ Len(queue) \in Nat \ {0} /\ Len(queue') = Len(queue) - 1
      /\ \A i \in 1..Len(queue') : i + 1 \in 1..Len(queue) /\ queue'[i] = queue[i + 1]
      /\ UNCHANGED <<written, read, pending>>
      /\ taken' = [taken EXCEPT ![c] = m]
  BY QueueRest DEF DeliveryInv
<1>3. /\ c \in Clients /\ m \in Nat \ {0} /\ m <= read[c] /\ read[c] \in Nat
      /\ taken[c] < m /\ NamesPair(written[c][m])
      /\ taken \in [Clients -> Nat] /\ read[c] <= Len(written[c]) /\ Len(written[c]) \in Nat
      /\ pending[c] \in Nat
  <2>1. 1 \in 1..Len(queue)
    BY <1>2
  <2>2. c \in Clients /\ m \in Nat \ {0} /\ m <= read[c] /\ read[c] \in Nat
    BY <2>1, QueueElements DEF DeliveryInv
  <2>3. taken[c] < m /\ NamesPair(written[c][m])
    BY <2>1 DEF DeliveryInv, QueueInOrder
  <2> QED BY <2>2, <2>3 DEF DeliveryInv, ControlTypeOK
<1>4. \A i \in 2..Len(queue) : queue[i].conn = c => m < queue[i].n
  BY <1>2 DEF DeliveryInv, QueueInOrder
<1>5. pending[c] # 0 => m < pending[c]
  BY <1>2 DEF DeliveryInv, QueueInOrder
<1> HIDE DEF c, m
<1>6. ReadIsKept'
  <2> SUFFICES ASSUME NEW d \in Clients
               PROVE  /\ taken'[d] <= read[d]
                      /\ \A n \in 1..read[d] : taken'[d] < n /\ NamesPair(written[d][n]) =>
                           n = pending[d] \/ \E i \in 1..Len(queue') : queue'[i].conn = d /\ queue'[i].n = n
                      /\ pending[d] # 0 => taken'[d] < pending[d]
    BY <1>2 DEF ReadIsKept, DeliveryInv
  <2>1. taken[d] <= taken'[d] /\ taken'[d] <= read[d] /\ (d = c => taken'[d] = m) /\ taken'[d] \in Nat
    <3>1. taken'[d] = IF d = c THEN m ELSE taken[d]
      BY <1>2, <1>3
    <3>2. taken[d] \in Nat /\ read[d] \in Nat /\ taken[d] <= read[d]
      BY DEF DeliveryInv, ReadIsKept, ControlTypeOK
    <3> QED BY <3>1, <3>2, <1>3
  <2>2. pending[d] # 0 => taken'[d] < pending[d]
    BY <1>2, <1>3, <1>5, <2>1 DEF DeliveryInv, ReadIsKept
  <2>3. ASSUME NEW n \in 1..read[d], taken'[d] < n, NamesPair(written[d][n]), n # pending[d]
        PROVE  \E i \in 1..Len(queue') : queue'[i].conn = d /\ queue'[i].n = n
    <3>1. taken[d] < n
      BY <2>1, <2>3 DEF DeliveryInv, ControlTypeOK
    <3>2. PICK j \in 1..Len(queue) : queue[j].conn = d /\ queue[j].n = n
      BY <2>3, <3>1 DEF DeliveryInv, ReadIsKept
    <3>3. j # 1
      BY <3>2, <2>1, <2>3, <1>3 DEF c, m
    <3>4. j - 1 \in 1..Len(queue') /\ queue'[j - 1] = queue[j]
      BY <3>2, <3>3, <1>2
    <3> QED BY <3>2, <3>4
  <2> QED BY <2>1, <2>2, <2>3
<1>7. QueueInOrder'
  <2> SUFFICES ASSUME NEW i \in 1..Len(queue')
               PROVE  /\ taken'[queue'[i].conn] < queue'[i].n
                      /\ \A j \in 1..i - 1 : queue'[j].conn = queue'[i].conn => queue'[j].n < queue'[i].n
                      /\ NamesPair(written[queue'[i].conn][queue'[i].n])
                      /\ pending[queue'[i].conn] # 0 => queue'[i].n < pending[queue'[i].conn]
    BY <1>2 DEF QueueInOrder
  <2>1. i + 1 \in 2..Len(queue) /\ i + 1 \in 1..Len(queue) /\ queue'[i] = queue[i + 1]
    BY <1>2
  <2>2. queue[i + 1].conn \in Clients /\ taken[queue[i + 1].conn] < queue[i + 1].n
    BY <2>1, QueueElements DEF DeliveryInv, QueueInOrder
  <2>3. taken'[queue[i + 1].conn] < queue[i + 1].n
    BY <2>1, <2>2, <1>2, <1>3, <1>4
  <2>4. ASSUME NEW j \in 1..i - 1, queue'[j].conn = queue'[i].conn PROVE queue'[j].n < queue'[i].n
    <3>1. j + 1 \in 1..(i + 1) - 1 /\ queue'[j] = queue[j + 1]
      BY <1>2
    <3> QED BY <2>1, <2>4, <3>1 DEF DeliveryInv, QueueInOrder
  <2> QED BY <2>1, <2>3, <2>4 DEF DeliveryInv, QueueInOrder
<1>8. Promise!Take(c)
  <2>1. ASSUME NEW i \in taken[c] + 1 .. m - 1 PROVE written[c][i].kind = "key"
    <3>1. i \in 1..read[c] /\ taken[c] < i /\ i < m
      <4>1. taken[c] \in Nat
        BY <1>3
      <4> QED BY <4>1, <1>3
    <3>2. ~NamesPair(written[c][i])
      <4>1. i # pending[c]
        BY <3>1, <1>3, <1>5
      <4>2. \A j \in 1..Len(queue) : ~(queue[j].conn = c /\ queue[j].n = i)
        BY <3>1, <1>2, <1>3, <1>4 DEF c, m
      <4> QED BY <3>1, <4>1, <4>2, <1>3 DEF DeliveryInv, ReadIsKept
    <3>3. ~Broken(written[c][i]) /\ written[c][i] \in Commands
      BY <3>1, <1>3 DEF DeliveryInv, ReadIsKept, ControlTypeOK
    <3> QED BY <3>2, <3>3, CommandsAssumption DEF NamesPair, Promise!NamesPair, Broken, Kinds
  <2>2. m \in taken[c] + 1 .. Len(written[c])
    BY <1>3
  <2> QED BY <1>2, <1>3, <2>1, <2>2 DEF Promise!Take, NamesPair
<1> QED BY <1>1, <1>3, <1>6, <1>7, <1>8 DEF DeliveryInv

\* The control socket implements Delivery: each pair written on a connection reaches the
\* manager once and in order, up to the first broken frame.
THEOREM ImplementsDelivery == Spec => DeliverySpec
<1>1. Init => DeliveryInv /\ Promise!Init
  BY MaxFramesAssumption, PairsSizeAssumption
  DEF Init, DeliveryInv, ControlTypeOK, ReadIsKept, QueueInOrder, Promise!Init
<1>2. ASSUME DeliveryInv, [Next]_vars
      PROVE  DeliveryInv' /\ [\E c \in Clients : Promise!Write(c) \/ Promise!Take(c)]_<<written, taken>>
  <2>1. CASE UNCHANGED vars
    BY <1>2, <2>1 DEF vars, controlVars, DeliveryInv, ControlTypeOK, ReadIsKept, QueueInOrder
  <2>2. ASSUME NEW c \in Clients, ServerStep(c) PROVE DeliveryInv' /\ UNCHANGED <<written, taken>>
    BY <1>2, <2>2, TasksStep, ReadKeepsOrder, QueueKeepsOrder DEF ServerStep
  <2> QED BY <1>2, <2>1, <2>2, ClientKeepsOrder, TakeKeepsOrder DEF Next
<1> QED BY <1>1, <1>2, PTL DEF Spec, DeliverySpec, Promise!Spec

LEMMA DeliveryStep ==
  ASSUME DeliveryInv, [Next]_vars PROVE DeliveryInv'
<1>1. CASE UNCHANGED vars
  BY <1>1 DEF vars, controlVars, DeliveryInv, ControlTypeOK, ReadIsKept, QueueInOrder
<1>2. ASSUME NEW c \in Clients, ServerStep(c) PROVE DeliveryInv'
  BY <1>2, ReadKeepsOrder, QueueKeepsOrder DEF ServerStep
<1> QED BY <1>1, <1>2, ClientKeepsOrder, TakeKeepsOrder DEF Next
--------------------------------------------------------------------------------
(* What becomes of a command *)

\* The price sockets are those of the commands the manager took.
SocketsAsked ==
  \A p \in Pairs : p \in price_sockets <=> \E c \in Clients : \E n \in 1..taken[c] : Asks(c, n, p)

\* What the manager took of a connection is written and stays so.
LEMMA TakenStays ==
  ASSUME DeliveryInv, [Next]_vars, NEW c \in Clients, NEW n \in 1..taken[c]
  PROVE  written'[c][n] = written[c][n]
<1>1. taken[c] \in Nat /\ taken[c] <= read[c] /\ read[c] \in Nat /\ read[c] <= Len(written[c]) /\ Len(written[c]) \in Nat
  BY DEF DeliveryInv, ControlTypeOK, ReadIsKept
<1>2. n \in 1..Len(written[c])
  BY <1>1
<1>3. CASE UNCHANGED written
  BY <1>3
<1>4. ASSUME NEW d \in Clients, NEW cmd \in Commands, WriteFrame(d, cmd) PROVE written'[c][n] = written[c][n]
  BY <1>2, <1>4, FramesStay DEF DeliveryInv
<1>5. UNCHANGED written \/ \E d \in Clients, cmd \in Commands : WriteFrame(d, cmd)
  BY TasksStep DEF Next, vars, controlVars, ClientStep, ClientConnects, ClientCloses, TakePair
<1> QED BY <1>3, <1>4, <1>5

\* The manager takes a command, and what it passes over names no pair.
LEMMA TakeKeepsAsked ==
  ASSUME DeliveryInv, SocketsAsked, TakePair
  PROVE  SocketsAsked'
<1>1. PICK c \in Clients : Promise!Take(c)
  BY TakeKeepsOrder
<1>2. PICK m \in taken[c] + 1 .. Len(written[c]) :
        /\ Promise!NamesPair(written[c][m])
        /\ \A i \in taken[c] + 1 .. m - 1 : written[c][i].kind = "key"
        /\ taken' = [taken EXCEPT ![c] = m]
  BY <1>1 DEF Promise!Take
<1>3. /\ UNCHANGED written /\ taken \in [Clients -> Nat] /\ m \in Nat \ {0} /\ taken[c] < m
      /\ Len(queue) \in Nat \ {0} /\ Head(queue) = queue[1]
      /\ taken' = [taken EXCEPT ![queue[1].conn] = queue[1].n]
      /\ queue[1].conn \in Clients /\ queue[1].n \in Nat /\ taken[queue[1].conn] < queue[1].n
  <2>1. taken \in [Clients -> Nat] /\ ControlTypeOK
    BY DEF DeliveryInv, ControlTypeOK
  <2>2. Len(written[c]) \in Nat
    BY DEF DeliveryInv, ControlTypeOK
  <2>3. Len(queue) \in Nat \ {0} /\ Head(queue) = queue[1] /\ UNCHANGED written
        /\ taken' = [taken EXCEPT ![queue[1].conn] = queue[1].n]
    BY <2>1, QueueRest
  <2>4. queue[1].conn \in Clients /\ queue[1].n \in Nat /\ taken[queue[1].conn] < queue[1].n
    BY <2>1, <2>3, QueueElements DEF DeliveryInv, QueueInOrder
  <2> QED BY <2>1, <2>2, <2>3, <2>4
<1>4. queue[1].conn = c /\ queue[1].n = m
  <2>1. taken'[queue[1].conn] = queue[1].n /\ taken'[c] = m
    BY <1>2, <1>3
  <2>2. queue[1].conn = c
    BY <2>1, <1>2, <1>3
  <2> QED BY <2>1, <2>2
<1>5. price_sockets' = price_sockets \cup {written[c][m].pair}
  BY <1>3, <1>4 DEF TakePair, Command, AddSocket
<1>6. \A d \in Clients, n \in Nat : n \in 1..taken'[d] <=> n \in 1..taken[d] \/ (d = c /\ n \in taken[c] + 1 .. m)
  BY <1>2, <1>3
<1>7. \A n \in taken[c] + 1 .. m, p \in Pairs : Asks(c, n, p) <=> n = m /\ p = written[c][m].pair
  <2>1. \A n \in taken[c] + 1 .. m : n = m \/ n \in taken[c] + 1 .. m - 1
    BY <1>3
  <2> QED BY <1>2, <1>3, <2>1 DEF Asks, Promise!NamesPair
<1>8. m \in taken[c] + 1 .. m
  BY <1>3
<1>9. ASSUME NEW p \in Pairs
      PROVE  p \in price_sockets' <=> \E d \in Clients : \E n \in 1..taken'[d] : Asks(d, n, p)'
  <2>1. \A d \in Clients, n \in Nat : Asks(d, n, p)' <=> Asks(d, n, p)
    BY <1>3 DEF Asks
  <2>2. (\E d \in Clients : \E n \in 1..taken'[d] : Asks(d, n, p)) <=>
          (\E d \in Clients : \E n \in 1..taken[d] : Asks(d, n, p)) \/ p = written[c][m].pair
    <3>1. ASSUME NEW d \in Clients, NEW n \in 1..taken'[d], Asks(d, n, p)
          PROVE  n \in 1..taken[d] \/ p = written[c][m].pair
      <4>1. n \in Nat
        OBVIOUS
      <4>2. n \in 1..taken[d] \/ (d = c /\ n \in taken[c] + 1 .. m)
        BY <1>6, <3>1, <4>1
      <4> QED BY <1>7, <3>1, <4>2
    <3>2. \A d \in Clients : \A n \in 1..taken[d] : n \in 1..taken'[d]
      BY <1>6
    <3>3. m \in 1..taken'[c] /\ (p = written[c][m].pair => Asks(c, m, p))
      BY <1>2, <1>3, <1>7, <1>8
    <3> QED BY <3>1, <3>2, <3>3
  <2> QED BY <1>5, <2>1, <2>2 DEF SocketsAsked
<1> QED BY <1>9 DEF SocketsAsked

LEMMA AskedStep ==
  ASSUME DeliveryInv, SocketsAsked, [Next]_vars PROVE SocketsAsked'
<1>1. CASE TakePair
  BY <1>1, TakeKeepsAsked
<1>2. CASE ~TakePair
  <2>1. UNCHANGED <<price_sockets, taken>>
    <3>1. CASE UNCHANGED vars
      BY <3>1 DEF vars, controlVars
    <3>2. ASSUME NEW c \in Clients, ServerStep(c) PROVE UNCHANGED <<price_sockets, taken>>
      BY <3>2, TasksStep
    <3>3. ASSUME NEW c \in Clients, ClientStep(c) PROVE UNCHANGED <<price_sockets, taken>>
      BY <3>3, ClientsStep
    <3> QED BY <1>2, <3>1, <3>2, <3>3 DEF Next
  <2>2. \A c \in Clients, p \in Pairs : \A n \in 1..taken[c] : Asks(c, n, p)' <=> Asks(c, n, p)
    BY TakenStays DEF Asks
  <2> QED BY <2>1, <2>2 DEF SocketsAsked
<1> QED BY <1>1, <1>2

\* Whatever the clients do and however full the channel is, a command that was read is
\* served, queued or in the hands of its task, and no price socket comes from elsewhere.
THEOREM NoCommandLost == Spec => []CommandsAccounted
<1>1. Init => DeliveryInv /\ SocketsAsked
  BY MaxFramesAssumption, PairsSizeAssumption
  DEF Init, DeliveryInv, ControlTypeOK, ReadIsKept, QueueInOrder, SocketsAsked
<1>2. DeliveryInv /\ SocketsAsked /\ [Next]_vars => DeliveryInv' /\ SocketsAsked'
  BY DeliveryStep, AskedStep
<1>3. ASSUME DeliveryInv, SocketsAsked PROVE CommandsAccounted
  <2> SUFFICES ASSUME NEW c \in Clients, NEW p \in Pairs, NEW n \in 1..read[c], Asks(c, n, p),
                      p \notin price_sockets, n # pending[c]
               PROVE  \E i \in 1..Len(queue) : queue[i] = [conn |-> c, n |-> n]
    BY <1>3 DEF CommandsAccounted, SocketsAsked
  <2>1. taken[c] < n
    BY <1>3 DEF SocketsAsked, DeliveryInv, ControlTypeOK
  <2>2. PICK i \in 1..Len(queue) : queue[i].conn = c /\ queue[i].n = n
    BY <1>3, <2>1 DEF DeliveryInv, ReadIsKept, Asks, NamesPair
  <2>3. queue[i] \in [conn : Clients, n : Nat \ {0}]
    <3>1. queue \in Seq([conn : Clients, n : Nat \ {0}])
      BY <1>3 DEF DeliveryInv, ControlTypeOK
    <3> QED BY <3>1, ElementOf, Zenon
  <2> QED BY <2>2, <2>3
<1> QED BY <1>1, <1>2, <1>3, PTL DEF Spec
--------------------------------------------------------------------------------
(* The registry *)

\* SocketsRegistered is inductive once the stop sender is known to belong to a running
\* task: the next websocket gets a number of its own.
IInv ==
  /\ started \in Nat
  /\ interrupt # 0 => interrupt \in running
  /\ price_sockets # {} => interrupt # 0
  /\ SocketsRegistered

\* add_pair of the exchange keeps the agreement when the manager adds the socket.
LEMMA AddSocketAgrees ==
  ASSUME IInv, NEW p, AddSocket(p)
  PROVE  IInv'
<1> USE DEF IInv, SocketsRegistered, Registered
<1>1. price_sockets' = price_sockets \cup {p}
  BY DEF AddSocket
<1>2. CASE Symbol[p] \in Registered /\ UNCHANGED exchangeVars
  <2>1. price_sockets # {} BY <1>2
  <2> QED BY <1>1, <1>2, <2>1 DEF exchangeVars
<1>3. CASE Symbol[p] \notin Registered /\ AddPair(p)
  <2>1. pairs' = [s \in Registered \cup {Symbol[p]} |-> IF s = Symbol[p] THEN p ELSE pairs[s]]
    BY <1>3 DEF AddPair, SendRegistry
  <2>2. EnsureWebsocket
    BY <1>3 DEF AddPair
  <2>3. started' \in Nat /\ interrupt' # 0 /\ interrupt' \in running'
    BY <2>2, WebsocketEnsured
  <2>4. DOMAIN pairs' = {Symbol[q] : q \in price_sockets'}
    BY <1>1, <2>1
  <2>5. \A s \in DOMAIN pairs' : pairs'[s] \in price_sockets'
    BY <1>1, <2>1
  <2> QED BY <2>3, <2>4, <2>5
<1> QED BY <1>2, <1>3 DEF AddSocket, AddPair

--------------------------------------------------------------------------------
\* The symbols registered with the exchange are those of the price sockets, each with
\* the sender of a socket that is there, and a websocket runs once there is a socket.
THEOREM ManagerAgrees == Spec => []SocketsRegistered
<1>1. Init => IInv
  BY DEF Init, ExchangeInit, NoEntries, IInv, SocketsRegistered, Registered
<1>2. IInv /\ [Next]_vars => IInv'
  <2> SUFFICES ASSUME IInv, [Next]_vars PROVE IInv' OBVIOUS
  <2>1. CASE UNCHANGED <<exchangeVars, price_sockets>>
    BY <2>1 DEF IInv, SocketsRegistered, Registered, exchangeVars
  <2>2. CASE \E p : AddSocket(p)
    BY <2>2, AddSocketAgrees
  <2> QED BY <2>1, <2>2, OthersLeaveSockets DEF TakePair
<1>3. IInv => SocketsRegistered BY DEF IInv
<1> QED BY <1>1, <1>2, <1>3, PTL DEF Spec

\* The sender registered for a symbol stays: a second name of the symbol does not take
\* over the prices of the first one's socket.
THEOREM FirstNameKeeps == Spec => SenderKept
<1>1. ASSUME [Next]_vars
      PROVE  [\A s \in Registered \cap DOMAIN pairs' : pairs'[s] = pairs[s]]_exchangeVars
  <2>1. CASE UNCHANGED exchangeVars
    BY <2>1
  <2>2. ASSUME NEW p, AddPair(p)
        PROVE  UNCHANGED exchangeVars \/ \A s \in Registered \cap DOMAIN pairs' : pairs'[s] = pairs[s]
    BY <2>2 DEF AddPair, SendRegistry, Registered
  <2> QED BY <1>1, <2>1, <2>2, OthersLeaveSockets DEF TakePair, AddSocket
<1> QED BY <1>1, PTL DEF Spec, SenderKept
================================================================================
