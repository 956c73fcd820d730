----------------------------- MODULE PairFeedProofs ----------------------------
(***************************************************************************)
(* Two promises of the routers that survive every disturbance.  A router   *)
(* at rest serves the newest registry, since a registry sent while it was  *)
(* at work leaves a version it has not seen.  And what a socket is shown   *)
(* are numbers of prices that were read of its market, one after the other *)
(* until something is disturbed: the system implements SymbolFeed.         *)
(***************************************************************************)
EXTENDS PairOrderProofs

\* A registry sent after the router woke has a version it has not seen.  The listeners of
\* a router's round forward to the senders in its clone.
RegistrySeen ==
  /\ version = 0 => pairs = NoEntries
  /\ \A n \in Conns : router[n].stage # "cancelled" /\ router[n].seen = version => router[n].book = pairs
  /\ \A id \in DOMAIN listeners :
       id[2] = router[id[1]].round => listeners[id].to = router[id[1]].book[id[3]]
--------------------------------------------------------------------------------
(* The newest registry *)

\* A new registry is a new version, and nobody but the exchange moves.
LEMMA RegistryMoves ==
  ASSUME ExchangeTypeOK, [Next]_vars
  PROVE  \/ UNCHANGED <<pairs, version>>
         \/ version' = version + 1 /\ UNCHANGED <<connVars, streamVars, feedVars>>
<1>1. ASSUME NEW p, AddPair(p) \/ RemovePair(p)
      PROVE  UNCHANGED <<pairs, version>> \/ version' = version + 1
  BY <1>1 DEF AddPair, RemovePair, exchangeVars, SendRegistry
<1>2. ASSUME NEW k, WebsocketStops(k) PROVE UNCHANGED <<pairs, version>>
  BY <1>2 DEF WebsocketStops
<1>3. CASE UNCHANGED vars
  BY <1>3 DEF vars, exchangeVars
<1>4. CASE ChangeRegistry
  BY <1>1, <1>4 DEF ChangeRegistry
<1>5. ASSUME NEW k \in running, OpenConnection(k) \/ StopWebsocket(k)
      PROVE  UNCHANGED <<pairs, version>>
  BY <1>2, <1>5 DEF OpenConnection, StopWebsocket, exchangeVars
<1>6. ASSUME NEW n \in Conns, Disconnect(n) \/ RouterStep(n) \/ \E m \in Markets : ReadMessage(n, m)
      PROVE  UNCHANGED <<pairs, version>>
  BY <1>6 DEF Disconnect, RouterStep, RouterWakes, CloneRegistry, BridgePair, AfterConnection, ReadMessage,
              exchangeVars
<1>7. ASSUME NEW id, ListenerStep(id) PROVE UNCHANGED <<pairs, version>>
  BY <1>7 DEF ListenerStep, RecvMessage, ForwardPrice, ReceiverFails, ListenerStops, exchangeVars
<1>8. ASSUME NEW p, TakePrice(p) PROVE UNCHANGED <<pairs, version>>
  BY <1>8 DEF TakePrice, exchangeVars
<1> QED BY <1>3, <1>4, <1>5, <1>6, <1>7, <1>8, Zenon DEF Next

\* What a router step leaves of the clone, unless it begins or fills a new one.
LEMMA CloneKept ==
  ASSUME Inv, [Next]_vars, NEW n \in Conns
  PROVE  \/ router'[n] = router[n]
         \/ RouterWakes(n) \/ CloneRegistry(n)
         \/ /\ router[n].stage = "bridging" /\ router'[n].stage # "cancelled"
            /\ router'[n].seen = router[n].seen /\ router'[n].round = router[n].round
            /\ router'[n].book = router[n].book /\ UNCHANGED <<pairs, version>>
<1>1. ASSUME NEW k \in running, OpenConnection(k) PROVE router'[n] = router[n]
  BY <1>1, Opened DEF Inv
<1>2. ASSUME NEW o \in Conns, RouterStep(o), o # n PROVE router'[n] = router[n]
  BY <1>2, WakesRouter, ClonesRouter, BridgesRouter, AsksRouter DEF Inv, RouterStep, Moves
<1>3. ASSUME NEW s, BridgePair(n, s)
      PROVE  /\ router[n].stage = "bridging" /\ router'[n].stage # "cancelled"
             /\ router'[n].seen = router[n].seen /\ router'[n].round = router[n].round
             /\ router'[n].book = router[n].book /\ UNCHANGED <<pairs, version>>
  BY <1>3, BridgesRouter DEF Inv, RouterInv, BridgePair, exchangeVars
<1>4. CASE AfterConnection(n)
  BY <1>4, AsksRouter DEF Inv, AfterConnection, Bridged, exchangeVars
<1> QED BY <1>1, <1>2, <1>3, <1>4, RouterSteps DEF RouterStep

LEMMA SeenStep ==
  ASSUME Inv, RegistrySeen, [Next]_vars PROVE RegistrySeen'
<1>1. /\ version \in Nat /\ ExchangeTypeOK
      /\ \A n \in Conns : router[n].seen \in Nat /\ router[n].seen <= version /\ router[n].round \in Nat
  BY DEF Inv, TypeOK, ExchangeTypeOK, Routers
<1>2. version' = 0 => pairs' = NoEntries
  BY <1>1, RegistryMoves DEF RegistrySeen
<1>3. ASSUME NEW n \in Conns, router'[n].stage # "cancelled", router'[n].seen = version'
      PROVE  router'[n].book = pairs'
  <2>1. CASE router'[n] = router[n]
    BY <1>1, <1>3, <2>1, RegistryMoves DEF RegistrySeen
  <2>2. CASE RouterWakes(n)
    BY <1>3, <2>2, WakesRouter DEF Inv
  <2>3. CASE CloneRegistry(n)
    BY <2>3, ClonesRouter DEF Inv, CloneRegistry, exchangeVars
  <2> QED BY <1>3, <2>1, <2>2, <2>3, CloneKept DEF RegistrySeen
<1>4. ASSUME NEW n \in Conns' \ Conns, router'[n].seen = version' PROVE router'[n].book = pairs'
  <2>1. ASSUME NEW k \in running, OpenConnection(k)
        PROVE  router'[n] = NewRouter /\ UNCHANGED <<pairs, version>>
    BY <1>4, <2>1, Opened DEF Inv, exchangeVars
  <2>2. \E k \in running : OpenConnection(k)
    BY <1>4, RouterSteps DEF Conns, RouterStep, RouterWakes, CloneRegistry, BridgePair, AfterConnection
  <2> QED BY <1>4, <2>1, <2>2 DEF RegistrySeen, NewRouter, RouterAt
<1>5. ASSUME NEW id \in DOMAIN listeners, id[2] = router'[id[1]].round
      PROVE  listeners[id].to = router'[id[1]].book[id[3]]
  <2>1. /\ id[1] \in Conns /\ id[2] <= router[id[1]].round
        /\ id[2] = router[id[1]].round => router[id[1]].stage # "cancelled"
    BY DEF Inv, ListenerInv
  <2>2. ~RouterWakes(id[1])
    BY <1>1, <1>5, <2>1, WakesRouter DEF Inv
  <2>3. ~CloneRegistry(id[1])
    BY <1>5, <2>1, ClonesRouter DEF Inv, CloneRegistry
  <2> QED BY <1>5, <2>1, <2>2, <2>3, CloneKept DEF RegistrySeen
<1>6. ASSUME NEW id \in DOMAIN listeners', id[2] = router'[id[1]].round
      PROVE  listeners'[id].to = router'[id[1]].book[id[3]]
  <2>1. CASE id \in DOMAIN listeners /\ listeners'[id] = listeners[id]
    BY <1>5, <1>6, <2>1
  <2>2. CASE id \in DOMAIN listeners /\ (RecvMessage(id) \/ ForwardPrice(id))
    BY <1>5, <1>6, <2>2, RecvListener, ForwardListener DEF Inv
  <2>3. ASSUME NEW n \in Conns, NEW s \in Symbols, BridgePair(n, s), id = <<n, router[n].round, s>>
        PROVE  listeners'[id].to = router'[id[1]].book[id[3]]
    <3>1. router'[n].book = router[n].book /\ id[1] = n /\ id[3] = s
      BY <2>3, BridgesRouter DEF Inv
    <3>2. listeners'[<<n, router[n].round, s>>] =
            [to |-> router[n].book[s], from |-> Len(wire[n]) + 1, ask |-> Len(wire[n]) + 1, hold |-> 0, count |-> 0]
      BY <2>3, SpawnedListener DEF Inv
    <3>3. listeners'[id].to = router[n].book[s]
      BY <2>3, <3>2
    <3> QED BY <3>1, <3>3
  <2> QED BY <2>1, <2>2, <2>3, ListenerFate DEF Inv
<1> QED BY <1>2, <1>3, <1>4, <1>6 DEF RegistrySeen

\* A router at rest that has seen the newest registry serves it, and nothing but it.
THEOREM CurrentRegistryServed == Spec => []ServesCurrentRegistry
<1>1. Init => RegistrySeen
  BY DEF Init, ExchangeInit, RegistrySeen, Conns, NoEntries
<1>2. Inv /\ RegistrySeen /\ [Next]_vars => RegistrySeen'
  BY SeenStep
<1>3. ASSUME Inv, RegistrySeen, NEW n \in Conns, router[n].stage = "waiting", router[n].seen = version
      PROVE  LET live == {id \in DOMAIN listeners : id[1] = n /\ ~Cancelled(id)}
             IN  /\ \A id \in live : id[3] \in Registered /\ listeners[id].to = pairs[id[3]]
                 /\ \A s \in Registered : <<n, router[n].round, s>> \in live \cup broke
                 /\ n \in link => MarketsOf(Registered) \subseteq asked[n]
  <2>1. router[n].book = pairs /\ router[n].todo = {} /\ router[n].round \in Nat
    BY <1>3 DEF RegistrySeen, Inv, RouterInv, TypeOK, Routers
  <2>2. ASSUME NEW id \in DOMAIN listeners, id[1] = n, ~Cancelled(id)
        PROVE  id[3] \in Registered /\ listeners[id].to = pairs[id[3]]
    <3>1. id[2] \in Nat /\ id[2] <= router[n].round
      BY <1>3, <2>2, IdParts DEF Inv, TypeOK, ListenerInv
    <3>2. id[2] = router[n].round
      BY <2>1, <2>2, <3>1 DEF Cancelled
    <3> QED BY <1>3, <2>1, <2>2, <3>2 DEF RegistrySeen, Inv, ListenerInv, Registered
  <2>3. ASSUME NEW s \in Registered, <<n, router[n].round, s>> \notin broke
        PROVE  <<n, router[n].round, s>> \in DOMAIN listeners /\ ~Cancelled(<<n, router[n].round, s>>)
    BY <1>3, <2>1, <2>3 DEF Inv, ListenerInv, Cancelled, Registered
  <2>4. n \in link => MarketsOf(Registered) \subseteq asked[n]
    BY <1>3, <2>1 DEF Inv, RouterInv, Registered
  <2> QED BY <2>2, <2>3, <2>4
<1>4. Inv /\ RegistrySeen => ServesCurrentRegistry
  BY <1>3 DEF ServesCurrentRegistry
<1> QED BY <1>1, <1>2, <1>4, InvHolds, PTL DEF Spec
--------------------------------------------------------------------------------
(* What a socket is shown *)

\* Wherever a price is on its way, it is a price of the market it is for, and was read.
Priced ==
  /\ \A n \in Conns : \A i \in 1..Len(wire[n]) : wire[n][i].quote \in 1..quotes[wire[n][i].sym]
  /\ \A id \in DOMAIN listeners : listeners[id].hold # 0 => Wire(id)[listeners[id].hold].sym = id[3]
  /\ \A p \in Pairs : \A i \in 1..Len(inbox[p]) :
       inbox[p][i].sym = Symbol[p] /\ inbox[p][i].quote \in 1..quotes[inbox[p][i].sym]

\* While all is calm, only the socket of the one registered pair has prices to come.
CalmInboxes == Undisturbed => \A p \in Pairs : inbox[p] # <<>> => p \in Range(pairs)

LEMMA StreamSteps ==
  ASSUME [Next]_vars
  PROVE  \/ UNCHANGED <<owner, wire, quotes>>
         \/ (\E k \in running : OpenConnection(k)) /\ UNCHANGED quotes
         \/ \E n \in Conns, m \in Markets : ReadMessage(n, m)
<1>1. CASE UNCHANGED vars
  BY <1>1 DEF vars, connVars, streamVars
<1>2. CASE ChangeRegistry
  BY <1>2 DEF ChangeRegistry, connVars, streamVars
<1>3. ASSUME NEW k \in running, OpenConnection(k) \/ StopWebsocket(k)
      PROVE  UNCHANGED <<owner, wire, quotes>> \/ (OpenConnection(k) /\ UNCHANGED quotes)
  BY <1>3 DEF OpenConnection, StopWebsocket, streamVars
<1>4. ASSUME NEW n \in Conns, Disconnect(n) \/ RouterStep(n) PROVE UNCHANGED <<owner, wire, quotes>>
  BY <1>4 DEF Disconnect, RouterStep, RouterWakes, CloneRegistry, BridgePair, AfterConnection, streamVars
<1>5. ASSUME NEW id, ListenerStep(id) PROVE UNCHANGED <<owner, wire, quotes>>
  BY <1>5 DEF ListenerStep, RecvMessage, ForwardPrice, ReceiverFails, ListenerStops, connVars, streamVars
<1>6. ASSUME NEW p, TakePrice(p) PROVE UNCHANGED <<owner, wire, quotes>>
  BY <1>6 DEF TakePrice, connVars, streamVars
<1> QED BY <1>1, <1>2, <1>3, <1>4, <1>5, <1>6, Zenon DEF Next

LEMMA QuotesGrow ==
  ASSUME TypeOK, [Next]_vars, NEW m \in Markets
  PROVE  quotes[m] \in Nat /\ quotes'[m] \in Nat /\ quotes[m] <= quotes'[m]
<1>1. quotes \in [Markets -> Nat]
  BY DEF TypeOK
<1>2. ASSUME NEW n \in Conns, NEW o \in Markets, ReadMessage(n, o)
      PROVE  quotes' = [quotes EXCEPT ![o] = @ + 1]
  BY <1>2 DEF ReadMessage
<1> QED BY <1>1, <1>2, StreamSteps

\* Who puts prices into a channel and who takes them.
LEMMA InboxSteps ==
  ASSUME [Next]_vars
  PROVE  \/ UNCHANGED <<inbox, shown>>
         \/ \E id \in DOMAIN listeners : ForwardPrice(id)
         \/ \E p \in Pairs : TakePrice(p)
<1>1. CASE UNCHANGED vars
  BY <1>1 DEF vars, feedVars
<1>2. CASE ChangeRegistry
  BY <1>2 DEF ChangeRegistry, feedVars
<1>3. ASSUME NEW k, OpenConnection(k) \/ StopWebsocket(k) PROVE UNCHANGED <<inbox, shown>>
  BY <1>3 DEF OpenConnection, StopWebsocket, feedVars
<1>4. ASSUME NEW n, Disconnect(n) \/ RouterStep(n) \/ \E m \in Markets : ReadMessage(n, m)
      PROVE  UNCHANGED <<inbox, shown>>
  BY <1>4 DEF Disconnect, RouterStep, RouterWakes, CloneRegistry, BridgePair, AfterConnection, ReadMessage,
              feedVars
<1>5. ASSUME NEW id \in DOMAIN listeners, ListenerStep(id)
      PROVE  UNCHANGED <<inbox, shown>> \/ ForwardPrice(id)
  BY <1>5 DEF ListenerStep, RecvMessage, ReceiverFails, ListenerStops
<1> QED BY <1>1, <1>2, <1>3, <1>4, <1>5, Zenon DEF Next

\* A message is broadcast with the number just given to it.
LEMMA WirePriced ==
  ASSUME Inv, Priced, [Next]_vars, NEW n \in Conns', NEW i \in 1..Len(wire'[n])
  PROVE  wire'[n][i].quote \in 1..quotes'[wire'[n][i].sym]
<1>1. \A m \in Markets : quotes[m] \in Nat /\ quotes'[m] \in Nat /\ quotes[m] <= quotes'[m]
  BY QuotesGrow DEF Inv
<1>2. ASSUME NEW o \in Conns, NEW j \in 1..Len(wire[o]) PROVE wire[o][j].quote \in 1..quotes'[wire[o][j].sym]
  <2>1. wire[o] \in Seq(Messages)
    BY DEF Inv, TypeOK
  <2>2. wire[o][j] \in Messages
    BY <2>1
  <2>3. wire[o][j].sym \in Markets
    BY <2>2 DEF Messages
  <2> QED BY <1>1, <2>3 DEF Priced
<1>3. CASE UNCHANGED <<owner, wire, quotes>>
  BY <1>2, <1>3 DEF Conns
<1>4. CASE \E k \in running : OpenConnection(k)
  <2>1. n \in Conns => wire'[n] = wire[n]
    BY <1>4, Opened DEF Inv
  <2>2. n \notin Conns => wire'[n] = <<>>
    BY <1>4, Opened DEF Inv
  <2> QED BY <1>2, <2>1, <2>2
<1>5. ASSUME NEW o \in Conns, NEW m \in Markets, ReadMessage(o, m)
      PROVE  wire'[n][i].quote \in 1..quotes'[wire'[n][i].sym]
  <2>1. /\ n \in Conns /\ Len(wire'[o]) = Len(wire[o]) + 1 /\ \A j \in 1..Len(wire[o]) : wire'[o][j] = wire[o][j]
        /\ n # o => wire'[n] = wire[n]
    BY <1>5, ReadTyped DEF Inv, ReadMessage, connVars, Conns
  <2>2. CASE n # o
    BY <1>2, <2>1, <2>2
  <2>3. CASE n = o /\ i # Len(wire[o]) + 1
    <3>1. Len(wire[o]) \in Nat
      BY DEF Inv, TypeOK
    <3> QED BY <1>2, <2>1, <2>3, <3>1
  <2>4. CASE n = o /\ i = Len(wire[o]) + 1
    <3> DEFINE msg == [sym |-> m, quote |-> quotes'[m]]
    <3>1. quotes'[m] = quotes[m] + 1 /\ quotes[m] \in Nat
      BY <1>5 DEF ReadMessage, Inv, TypeOK
    <3>2. msg \in Messages /\ msg.sym = m /\ msg.quote = quotes'[m]
      BY <3>1 DEF Messages
    <3>3. wire'[o] = Append(wire[o], msg) /\ wire[o] \in Seq(Messages)
      BY <1>5 DEF ReadMessage, Inv, TypeOK
    <3> HIDE DEF msg
    <3>4. wire'[n][i] = msg
      BY <2>4, <3>2, <3>3, SeqAppended
    <3> QED BY <3>1, <3>2, <3>4
  <2> QED BY <2>2, <2>3, <2>4
<1> QED BY <1>3, <1>4, <1>5, StreamSteps

\* A listener holds messages of its symbol only.
LEMMA HeldOwn ==
  ASSUME Inv, Priced, [Next]_vars, NEW id \in DOMAIN listeners', listeners'[id].hold # 0
  PROVE  wire'[id[1]][listeners'[id].hold].sym = id[3]
<1>1. ASSUME id \in DOMAIN listeners, listeners'[id] = listeners[id]
      PROVE  wire'[id[1]][listeners'[id].hold].sym = id[3]
  <2>1. id[1] \in Conns /\ Position(id) /\ listeners[id].hold \in Nat /\ listeners[id].ask \in Nat
        /\ listeners[id].from \in Nat
    BY <1>1, ListenerFields DEF Inv, ListenerInv, ForwardInv
  <2>2. /\ Len(wire[id[1]]) \in Nat
        /\ \A i \in 1..Len(wire[id[1]]) : wire'[id[1]][i] = wire[id[1]][i]
    BY <2>1, WireGrows DEF Inv
  <2>3. listeners[id].hold \in 1..Len(wire[id[1]])
    BY <1>1, <2>1, <2>2 DEF Position, Wire
  <2> QED BY <1>1, <2>2, <2>3 DEF Priced, Wire
<1>2. ASSUME id \in DOMAIN listeners, RecvMessage(id) PROVE wire'[id[1]][listeners'[id].hold].sym = id[3]
  <2>1. /\ listeners'[id].hold = IF Wire(id)[listeners[id].ask].sym = id[3] THEN listeners[id].ask ELSE 0
        /\ wire' = wire
    BY <1>2, RecvListener DEF Inv, RecvMessage, streamVars
  <2>2. Wire(id)[listeners[id].ask].sym = id[3] /\ listeners'[id].hold = listeners[id].ask
    BY <2>1
  <2> QED BY <2>1, <2>2 DEF Wire
<1>3. ASSUME id \in DOMAIN listeners, ForwardPrice(id) PROVE FALSE
  BY <1>3, ForwardListener DEF Inv
<1>4. ASSUME NEW n \in Conns, NEW s \in Symbols, BridgePair(n, s), id = <<n, router[n].round, s>> PROVE FALSE
  <2>1. listeners'[<<n, router[n].round, s>>] =
          [to |-> router[n].book[s], from |-> Len(wire[n]) + 1, ask |-> Len(wire[n]) + 1, hold |-> 0, count |-> 0]
    BY <1>4, SpawnedListener DEF Inv
  <2> QED BY <1>4, <2>1
<1> QED BY <1>1, <1>2, <1>3, <1>4, ListenerFate DEF Inv

LEMMA InboxPriced ==
  ASSUME Inv, Priced, [Next]_vars, NEW p \in Pairs, NEW i \in 1..Len(inbox'[p])
  PROVE  inbox'[p][i].sym = Symbol[p] /\ inbox'[p][i].quote \in 1..quotes'[inbox'[p][i].sym]
<1> DEFINE Own(msg, q) == msg.sym = Symbol[q] /\ msg.quote \in 1..quotes'[msg.sym]
<1>1. inbox \in [Pairs -> Seq(Messages)]
  BY DEF Inv, TypeOK
<1>2. ASSUME NEW msg \in Messages, NEW q, msg.sym = Symbol[q], msg.quote \in 1..quotes[msg.sym] PROVE Own(msg, q)
  <2>1. msg.sym \in Markets
    BY DEF Messages
  <2> QED BY <1>2, <2>1, QuotesGrow DEF Inv
<1>3. ASSUME NEW q \in Pairs, NEW j \in 1..Len(inbox[q]) PROVE Own(inbox[q][j], q)
  <2>1. inbox[q] \in Seq(Messages)
    BY <1>1
  <2>2. inbox[q][j] \in Messages
    BY <2>1
  <2> HIDE DEF Own
  <2> QED BY <1>2, <2>2 DEF Priced
<1>4. CASE UNCHANGED inbox
  BY <1>3, <1>4
<1>5. ASSUME NEW id \in DOMAIN listeners, ForwardPrice(id) PROVE Own(inbox'[p][i], p)
  <2> DEFINE to  == listeners[id].to
             msg == Wire(id)[listeners[id].hold]
  <2>1. listeners[id].hold \in 1..Len(Wire(id)) /\ to \in Pairs /\ id[1] \in Conns
    BY <1>5, ListenerFields, WireOf DEF ForwardPrice, Inv, ForwardInv, Position
  <2>2. msg \in Messages
    BY <2>1, WireOf DEF Inv
  <2>3. msg.sym = id[3] /\ Symbol[to] = id[3]
    BY <1>5 DEF Inv, Priced, ForwardsItsSymbol, ForwardPrice
  <2>4. msg.quote \in 1..quotes[msg.sym]
    BY <2>1 DEF Priced, Wire
  <2> HIDE DEF Own
  <2>5. Own(msg, to)
    BY <1>2, <2>2, <2>3, <2>4
  <2>6. inbox' = [inbox EXCEPT ![to] = Append(inbox[to], msg)]
    BY <1>5 DEF ForwardPrice
  <2> HIDE DEF to, msg
  <2>7. CASE p # to
    BY <1>1, <1>3, <2>6, <2>7
  <2>8. CASE p = to
    <3> DEFINE q == inbox[to]
    <3>1. q \in Seq(Messages) /\ inbox'[to] = Append(q, msg)
      BY <1>1, <2>1, <2>6
    <3> HIDE DEF q
    <3>2. Len(Append(q, msg)) = Len(q) + 1 /\ Append(q, msg)[Len(q) + 1] = msg /\ Len(q) \in Nat
          /\ \A j \in 1..Len(q) : Append(q, msg)[j] = q[j]
      BY <2>2, <3>1, SeqAppended
    <3>3. CASE i = Len(q) + 1
      BY <2>5, <2>8, <3>1, <3>2, <3>3
    <3>4. CASE i \in 1..Len(q)
      BY <1>3, <2>1, <2>8, <3>1, <3>2, <3>4 DEF q
    <3> QED BY <2>8, <3>1, <3>2, <3>3, <3>4
  <2> QED BY <2>7, <2>8
<1>6. ASSUME NEW q \in Pairs, TakePrice(q) PROVE Own(inbox'[p][i], p)
  <2>1. inbox' = [inbox EXCEPT ![q] = Tail(inbox[q])] /\ inbox[q] \in Seq(Messages) /\ inbox[q] # <<>>
    BY <1>1, <1>6 DEF TakePrice
  <2> HIDE DEF Own
  <2>2. CASE p # q
    BY <1>1, <1>3, <2>1, <2>2
  <2>3. CASE p = q
    <3>1. Len(Tail(inbox[q])) = Len(inbox[q]) - 1 /\ Len(inbox[q]) \in Nat
          /\ \A j \in 1..Len(inbox[q]) - 1 : Tail(inbox[q])[j] = inbox[q][j + 1]
      BY <2>1
    <3>2. inbox'[p] = Tail(inbox[q]) /\ i \in 1..Len(inbox[q]) - 1
      BY <1>1, <2>1, <2>3, <3>1
    <3> QED BY <1>3, <2>3, <3>1, <3>2
  <2> QED BY <2>2, <2>3
<1> QED BY <1>4, <1>5, <1>6, InboxSteps

LEMMA PricedStep == ASSUME Inv, Priced, [Next]_vars PROVE Priced'
BY WirePriced, HeldOwn, InboxPriced DEF Priced, Wire

\* The one registry gives the one listener its socket; before it nothing is forwarded.
LEMMA CalmStep == ASSUME Inv, OrderInv, CalmInboxes, [Next]_vars PROVE CalmInboxes'
<1> SUFFICES ASSUME Undisturbed', NEW p \in Pairs, inbox'[p] # <<>> PROVE p \in Range(pairs')
  BY DEF CalmInboxes
<1>1. Undisturbed /\ Order
  BY StillUndisturbed DEF OrderInv
<1>2. inbox \in [Pairs -> Seq(Messages)]
  BY DEF Inv, TypeOK
<1>3. CASE version' = version + 1 /\ UNCHANGED <<connVars, streamVars, feedVars>>
  <2>1. version = 0
    BY <1>3 DEF Undisturbed, Inv, TypeOK, ExchangeTypeOK
  <2>2. Quiet
    BY <1>1, <2>1, OneRound DEF Quiet, Order, FirstRound
  <2>3. inbox[p] = <<>> /\ UNCHANGED inbox
    BY <1>1, <1>3, <2>2 DEF Order, NothingYet, feedVars
  <2> QED BY <2>3
<1>4. CASE UNCHANGED <<pairs, version>>
  <2>1. CASE UNCHANGED inbox
    BY <1>1, <1>4, <2>1 DEF CalmInboxes
  <2>2. ASSUME NEW id \in DOMAIN listeners, ForwardPrice(id) PROVE p \in Range(pairs)
    <3>1. id[3] \in Registered /\ listeners[id].to = pairs[id[3]]
      BY <1>1, TheListener DEF Order
    <3>2. p # listeners[id].to => inbox'[p] = inbox[p]
      BY <1>2, <2>2 DEF ForwardPrice
    <3> QED BY <1>1, <3>1, <3>2 DEF CalmInboxes, Range, Registered
  <2>3. ASSUME NEW q \in Pairs, TakePrice(q) PROVE p \in Range(pairs)
    <3>1. inbox[p] # <<>>
      BY <1>2, <2>3 DEF TakePrice
    <3> QED BY <1>1, <3>1 DEF CalmInboxes
  <2> QED BY <1>4, <2>1, <2>2, <2>3, InboxSteps
<1> QED BY <1>3, <1>4, RegistryMoves DEF Inv, TypeOK
--------------------------------------------------------------------------------
(* The abstract feed *)

\* A price whose market is its own name is spelled as Binance does.
LEMMA SpelledIs ==
  ASSUME NEW p \in Pairs, Symbol[p] \in Markets PROVE p \in Spelled
<1>1. PICK s \in Symbols : Symbol[p] = Market[s]
  BY DEF Markets, MarketsOf
<1>2. Market[s] \in Symbols
  BY <1>1 DEF Symbols
<1> QED BY <1>1, <1>2, MarketAssumption DEF Spelled

LEMMA ReadAllowed ==
  ASSUME Inv, NEW n \in Conns, NEW m \in Markets, ReadMessage(n, m) PROVE Feed!Read(m)
<1>1. UNCHANGED <<shown, version, owner, broke>> /\ quotes' = [quotes EXCEPT ![m] = @ + 1]
  BY DEF ReadMessage, exchangeVars, connVars, feedVars
<1> QED BY <1>1 DEF Feed!Read, Undisturbed

\* While calm the first price in the channel is the next one, by OrderedUntilDisturbed.
LEMMA TakeAllowed ==
  ASSUME Inv, OrderInv, Priced, CalmInboxes, NEW p \in Pairs, TakePrice(p)
  PROVE  p \in Spelled /\ (Feed!ShowNext(p) \/ Feed!ShowAny(p))
<1> DEFINE fed == [q \in Spelled |-> Symbol[q]]
           q   == inbox[p][1].quote
<1>1. inbox[p] \in Seq(Messages) /\ inbox[p] # <<>> /\ shown \in [Pairs -> Nat] /\ quotes \in [Markets -> Nat]
  BY DEF Inv, TypeOK, TakePrice
<1>2. 1 \in 1..Len(inbox[p]) /\ inbox[p][1] \in Messages /\ Head(inbox[p]) = inbox[p][1]
  BY <1>1
<1>3. inbox[p][1].sym = Symbol[p] /\ q \in 1..quotes[Symbol[p]]
  BY <1>2 DEF Priced
<1>4. Symbol[p] \in Markets
  BY <1>2, <1>3 DEF Messages
<1>5. p \in Spelled /\ fed[p] = Symbol[p]
  BY <1>4, SpelledIs
<1>6. UNCHANGED <<quotes, version, owner, broke>> /\ shown' = [shown EXCEPT ![p] = q]
  BY <1>2 DEF TakePrice, exchangeVars, connVars, streamVars
<1>7. Undisturbed' = Undisturbed
  BY <1>6 DEF Undisturbed
<1> HIDE DEF fed, q
<1>8. CASE Undisturbed
  <2>1. p \in Range(pairs)
    BY <1>1, <1>8 DEF CalmInboxes
  <2>2. \A i \in 1..Len(inbox[p]) : inbox[p][i].quote = shown[p] + i
    BY <1>5, <1>8, <2>1, OrderedByInv DEF OrderInv
  <2>3. q = shown[p] + 1 /\ shown[p] \in Nat /\ quotes[Symbol[p]] \in Nat
    BY <1>1, <1>2, <1>4, <2>2 DEF q
  <2>4. shown[p] < quotes[fed[p]]
    BY <1>3, <1>5, <2>3
  <2>5. shown' = [shown EXCEPT ![p] = shown[p] + 1]
    BY <1>6, <2>3
  <2>6. Feed!ShowNext(p)
    BY <1>6, <1>7, <2>4, <2>5 DEF Feed!ShowNext, fed
  <2> QED BY <1>5, <2>6
<1>9. CASE ~Undisturbed
  <2>1. q \in 1..quotes[fed[p]]
    BY <1>3, <1>5
  <2>2. Feed!ShowAny(p)
    BY <1>6, <1>7, <1>9, <2>1 DEF Feed!ShowAny, fed
  <2> QED BY <1>5, <2>2
<1> QED BY <1>8, <1>9

\* Whatever shows nothing and reads nothing is a disturbance at most.
LEMMA ElseAllowed ==
  ASSUME Inv, [Next]_vars, UNCHANGED <<quotes, shown>> PROVE [Feed!Next]_Feed!vars
<1>1. CASE Undisturbed'
  <2>1. Undisturbed' = Undisturbed
    BY <1>1, StillUndisturbed DEF Undisturbed
  <2> QED BY <2>1 DEF Feed!vars
<1>2. CASE ~Undisturbed'
  <2>1. Undisturbed' = FALSE
    BY <1>2 DEF Undisturbed
  <2> QED BY <2>1 DEF Feed!Next, Feed!Disturb
<1> QED BY <1>1, <1>2

\* A socket is shown numbers of prices that were read of its market, and until something
\* is disturbed each of them, in order: routers and listeners implement SymbolFeed.
THEOREM ImplementsSymbolFeed == Spec => FeedSpec
<1>1. Init => Feed!Init
  BY RouterBounds DEF Init, ExchangeInit, Feed!Init, Undisturbed
<1>2. Init => Priced /\ CalmInboxes
  BY DEF Init, Conns, NoEntries, Priced, CalmInboxes
<1>3. Inv /\ Priced /\ [Next]_vars => Priced'
  BY PricedStep
<1>4. Inv /\ OrderInv /\ [Next]_vars => OrderInv'
  BY OrderStep
<1>5. Inv /\ OrderInv /\ CalmInboxes /\ [Next]_vars => CalmInboxes'
  BY CalmStep
<1>6. Inv /\ OrderInv /\ Priced /\ CalmInboxes /\ [Next]_vars => [Feed!Next]_Feed!vars
  <2> SUFFICES ASSUME Inv, OrderInv, Priced, CalmInboxes, [Next]_vars PROVE [Feed!Next]_Feed!vars
    OBVIOUS
  <2>1. ASSUME NEW n \in Conns, NEW m \in Markets, ReadMessage(n, m) PROVE Feed!Next
    BY <2>1, ReadAllowed DEF Feed!Next
  <2>2. ASSUME NEW p \in Pairs, TakePrice(p) PROVE Feed!Next
    BY <2>2, TakeAllowed DEF Feed!Next
  <2>3. ASSUME NEW id \in DOMAIN listeners, ForwardPrice(id) PROVE UNCHANGED <<quotes, shown>>
    BY <2>3 DEF ForwardPrice, streamVars
  <2> QED BY <2>1, <2>2, <2>3, ElseAllowed, StreamSteps, InboxSteps
<1> QED BY <1>1, <1>2, <1>3, <1>4, <1>5, <1>6, OrderInit, InvHolds, PTL DEF Spec, FeedSpec, Feed!Spec
================================================================================
