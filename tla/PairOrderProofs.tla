---------------------------- MODULE PairOrderProofs ----------------------------
(***************************************************************************)
(* The order of the prices of a pair, from the websocket to its socket, as *)
(* long as no second registry, no second connection and no lag disturbs    *)
(* it.  What is broadcast has to be numbered without gaps, and each place  *)
(* a price can be in has to begin where the one before it ends.            *)
(***************************************************************************)
EXTENDS PairRouterProofs

\* The one registry: what the router holds of it, who was asked for it and whom the
\* listeners serve.
FirstRound ==
  /\ version = 0 => Registered = {}
  /\ \A s, t \in Registered : s = t
  /\ \A n \in Conns :
       /\ router[n].round = 1 /\ router[n].stage # "cancelled" => router[n].book = pairs
       /\ asked[n] # {} =>
            router[n].round = 1 /\ router[n].stage = "waiting" /\ asked[n] = MarketsOf(Registered)
  /\ \A id \in DOMAIN listeners : listeners[id].to = pairs[id[3]]

\* Before anything is asked for, nothing is read.
Quiet == \A n \in Conns : asked[n] = {}

NothingYet ==
  Quiet => /\ \A m \in Markets : quotes[m] = 0
           /\ \A n \in Conns : wire[n] = <<>>
           /\ \A p \in Pairs : inbox[p] = <<>> /\ shown[p] = 0

\* A message of the connection is the price of its number.
Numbered ==
  \A n \in Conns, s \in Registered : Market[s] = s =>
    /\ Len(wire[n]) = quotes[s]
    /\ \A i \in 1..Len(wire[n]) : wire[n][i].sym = s /\ wire[n][i].quote = i

\* The price taken last, those in the channel, the one the listener holds and the one it
\* asks for are consecutive.
InLine(id) ==
  LET l == listeners[id]
      p == listeners[id].to
  IN  /\ l.hold # 0 => l.hold = l.ask - 1
      /\ \A i \in 1..Len(inbox[p]) : inbox[p][i].quote = shown[p] + i
      /\ shown[p] + Len(inbox[p]) + 1 = IF l.hold # 0 THEN l.hold ELSE l.ask

Lined == \A id \in DOMAIN listeners : Market[id[3]] = id[3] => InLine(id)

Order == FirstRound /\ NothingYet /\ Numbered /\ Lined

OrderInv == Undisturbed => Order
--------------------------------------------------------------------------------
(* Until something is disturbed *)

\* Nothing undoes a disturbance.
LEMMA StillUndisturbed ==
  ASSUME Inv, [Next]_vars, Undisturbed' PROVE Undisturbed
<1>1. version \in Nat /\ version' \in Nat /\ version <= version'
  BY ExchangeTyped DEF Inv, TypeOK, ExchangeTypeOK
<1>2. Len(owner) \in Nat /\ Len(owner) <= Len(owner')
  <2>1. owner \in Seq(1..started)
    BY DEF Inv, TypeOK
  <2>2. ASSUME NEW k \in running, OpenConnection(k) PROVE Len(owner) <= Len(owner')
    <3>1. k \in 1..started
      BY DEF Inv, TypeOK, ExchangeTypeOK
    <3> QED BY <2>1, <2>2, <3>1, SeqAppended DEF OpenConnection
  <2>3. ASSUME NEW n, RouterStep(n) PROVE owner' = owner
    BY <2>3 DEF RouterStep, RouterWakes, CloneRegistry, BridgePair, AfterConnection
  <2> QED BY <2>1, <2>2, <2>3, RouterSteps
<1>3. broke \subseteq broke'
  <2>1. ASSUME NEW k, OpenConnection(k) PROVE broke' = broke
    BY <2>1 DEF OpenConnection, feedVars
  <2>2. ASSUME NEW n, RouterStep(n) PROVE broke' = broke
    BY <2>2 DEF RouterStep, RouterWakes, CloneRegistry, BridgePair, AfterConnection, feedVars
  <2>3. ASSUME NEW id, ListenerStep(id) PROVE broke \subseteq broke'
    BY <2>3 DEF ListenerStep, RecvMessage, ForwardPrice, ReceiverFails, ListenerStops
  <2> QED BY <2>1, <2>2, <2>3, ListenerSteps
<1> QED BY <1>1, <1>2, <1>3 DEF Undisturbed

\* There is one connection at most, and its router in its first round at most.
LEMMA OneRound ==
  ASSUME Inv, Undisturbed
  PROVE  /\ Conns \subseteq {1} /\ version \in {0, 1} /\ broke = {}
         /\ \A n \in Conns :
              /\ router[n].round \in Nat /\ router[n].seen \in Nat
              /\ router[n].round <= router[n].seen /\ router[n].seen <= version
<1>1. Conns = 1..Len(owner) /\ Len(owner) \in Nat /\ Len(owner) <= 1
  BY ConnsAre DEF Inv, Undisturbed
<1>2. Conns \subseteq {1}
  BY <1>1
<1>3. version \in {0, 1} /\ broke = {}
  BY DEF Inv, Undisturbed, TypeOK, ExchangeTypeOK
<1> QED BY <1>2, <1>3 DEF Inv, TypeOK, Routers

\* There is one listener at most, that of the registered symbol.
LEMMA TheListener ==
  ASSUME Inv, Undisturbed, FirstRound, NEW id \in DOMAIN listeners
  PROVE  /\ 1 \in Conns /\ id = <<1, 1, id[3]>> /\ id[1] = 1 /\ id[3] \in Registered
         /\ version = 1 /\ router[1].round = 1
         /\ router[1].stage # "cancelled" /\ id[3] \notin router[1].todo
         /\ listeners[id].to = pairs[id[3]] /\ ~Cancelled(id)
<1>1. id[1] \in Conns /\ id[2] <= router[id[1]].round /\ id[2] >= 1 /\ id[2] \in Nat
      /\ id = <<id[1], id[2], id[3]>>
  BY IdParts DEF Inv, ListenerInv, TypeOK
<1>2. id[1] = 1 /\ id[2] = 1 /\ version = 1 /\ router[1].round = 1
  BY <1>1, OneRound
<1>3. router[1].stage # "cancelled" /\ id[3] \in DOMAIN router[1].book \ router[1].todo
  BY <1>2 DEF Inv, ListenerInv
<1>4. id[3] \in Registered
  BY <1>1, <1>2, <1>3 DEF FirstRound, Registered
<1> QED BY <1>1, <1>2, <1>3, <1>4 DEF FirstRound, Cancelled

\* Once something was asked for, the registered symbol has its listener.
LEMMA AskedIsHeard ==
  ASSUME Inv, Undisturbed, FirstRound, NEW n \in Conns, asked[n] # {}, NEW s \in Registered
  PROVE  <<1, 1, s>> \in DOMAIN listeners
<1>1. n = 1 /\ broke = {}
  BY OneRound
<1>2. router[1].round = 1 /\ router[1].stage = "waiting" /\ router[1].book = pairs
  BY <1>1 DEF FirstRound
<1>3. router[1].todo = {}
  BY <1>1, <1>2 DEF Inv, RouterInv
<1> QED BY <1>1, <1>2, <1>3 DEF Inv, ListenerInv, Registered
--------------------------------------------------------------------------------
(* The steps *)

\* The first registry comes before any listener; there is no second one.
LEMMA RegistryOrder ==
  ASSUME Inv, Undisturbed, Undisturbed', Order, ChangeRegistry PROVE Order'
<1> USE DEF ChangeRegistry, connVars, streamVars, feedVars
<1>1. UNCHANGED <<owner, link, asked, router, wire, quotes, listeners, inbox, shown, broke>> /\ Conns' = Conns
  BY DEF Conns
<1>2. NothingYet'
  BY <1>1 DEF Order, NothingYet, Quiet
<1>3. CASE pairs' = pairs /\ version' = version
  BY <1>1, <1>2, <1>3 DEF Order, FirstRound, Numbered, Lined, InLine, Registered
<1>4. CASE \E p \in Pairs : version' = version + 1 /\ pairs' = [s \in Registered \cup {Symbol[p]} |-> IF s = Symbol[p] THEN p ELSE pairs[s]]
  <2>1. PICK p \in Pairs : version' = version + 1 /\ pairs' = [s \in Registered \cup {Symbol[p]} |-> IF s = Symbol[p] THEN p ELSE pairs[s]]
    BY <1>4
  <2>2. version = 0 /\ version' = 1
    BY <2>1, OneRound DEF Undisturbed
  <2>3. Registered = {} /\ Registered' = {Symbol[p]}
    BY <2>1, <2>2 DEF Order, FirstRound, Registered
  <2>4. ASSUME NEW id \in DOMAIN listeners PROVE FALSE
    BY <2>2, TheListener DEF Order
  <2>5. \A n \in Conns : router[n].round = 0 /\ asked[n] = {}
    BY <2>2, OneRound DEF Order, FirstRound
  <2>6. FirstRound'
    BY <1>1, <2>2, <2>3, <2>4, <2>5 DEF FirstRound
  <2>7. \A n \in Conns : Len(wire[n]) = 0
    BY <2>5 DEF Order, NothingYet, Quiet
  <2>8. \A m \in Markets : quotes[m] = 0
    BY <2>5 DEF Order, NothingYet, Quiet
  <2>9. Symbol[p] \in Symbols
    BY DEF Symbols
  <2>10. Market[Symbol[p]] = Symbol[p] => Symbol[p] \in Markets
    BY <2>9 DEF Markets, MarketsOf
  <2>11. Numbered'
    BY <1>1, <2>3, <2>7, <2>8, <2>10 DEF Numbered
  <2>12. Lined'
    BY <1>1, <2>4 DEF Lined
  <2> QED BY <1>2, <2>6, <2>11, <2>12 DEF Order
<1>5. ASSUME NEW p \in Pairs, RemovePair(p) PROVE UNCHANGED <<pairs, version>>
  BY <1>5 DEF RemovePair, exchangeVars, Order, FirstRound
<1>6. ASSUME NEW p \in Pairs, AddPair(p)
      PROVE  \/ UNCHANGED <<pairs, version>>
             \/ version' = version + 1 /\ pairs' = [s \in Registered \cup {Symbol[p]} |-> IF s = Symbol[p] THEN p ELSE pairs[s]]
  BY <1>6 DEF AddPair, exchangeVars, SendRegistry
<1> QED BY <1>3, <1>4, <1>5, <1>6

\* The first connection opens on nothing.
LEMMA OpenOrder ==
  ASSUME Inv, Undisturbed, Undisturbed', Order, NEW k \in running, OpenConnection(k) PROVE Order'
<1> DEFINE new == Len(owner) + 1
<1>1. /\ Conns' = Conns \cup {new} /\ asked'[new] = {} /\ wire'[new] = <<>> /\ router'[new] = NewRouter
      /\ UNCHANGED <<pairs, version, quotes, listeners, inbox, shown, broke>>
      /\ owner' \in Seq(1..started)
  BY Opened DEF Inv, exchangeVars, feedVars
<1>2. Conns = {}
  <2>1. owner \in Seq(1..started) /\ k \in 1..started
    BY DEF Inv, TypeOK, ExchangeTypeOK
  <2>2. Len(owner') = Len(owner) + 1 /\ Len(owner) \in Nat
    BY <2>1, SeqAppended DEF OpenConnection
  <2>3. Conns = 1..Len(owner) /\ Len(owner) = 0
    BY <2>2, ConnsAre DEF Inv, Undisturbed
  <2> QED BY <2>3
<1> HIDE DEF new
<1>3. DOMAIN listeners = {}
  BY <1>2, TheListener DEF Order
<1>4. /\ \A m \in Markets : quotes[m] = 0
      /\ \A p \in Pairs : inbox[p] = <<>> /\ shown[p] = 0
  BY <1>2 DEF Order, NothingYet, Quiet
<1>5. FirstRound'
  BY <1>1, <1>2, <1>3 DEF Order, FirstRound, NewRouter, RouterAt, Registered
<1>6. NothingYet'
  BY <1>1, <1>2, <1>4 DEF NothingYet
<1>7. \A s \in Registered : Market[s] = s => s \in Markets
  BY DEF Inv, TypeOK, ExchangeTypeOK, Markets, MarketsOf
<1>8. Len(wire'[new]) = 0
  BY <1>1
<1>9. Numbered'
  BY <1>1, <1>2, <1>4, <1>7, <1>8 DEF Numbered, Registered
<1> QED BY <1>1, <1>3, <1>5, <1>6, <1>9 DEF Order, Lined

\* Nothing of the feed changes.
LEMMA ElsewhereOrder ==
  ASSUME Order,
         UNCHANGED <<pairs, version, owner, asked, router, wire, quotes, listeners, inbox, shown>>
  PROVE  Order'
BY DEF Order, FirstRound, NothingYet, Quiet, Numbered, Lined, InLine, Registered, Conns

\* A price that is read is of the registered symbol and gets the next number.
LEMMA ReadOrder ==
  ASSUME Inv, Undisturbed, Order, NEW n \in Conns, NEW m \in Markets, ReadMessage(n, m) PROVE Order'
<1>1. /\ UNCHANGED <<pairs, version, owner, asked, router, listeners, inbox, shown>> /\ Conns' = Conns
      /\ m \in asked[n]
  BY DEF ReadMessage, exchangeVars, connVars, feedVars, Conns
<1>2. n = 1 /\ Conns = {1}
  BY OneRound
<1>3. ~Quiet /\ NothingYet'
  BY <1>1 DEF Quiet, NothingYet
<1>4. FirstRound' /\ Lined'
  BY <1>1 DEF Order, FirstRound, Lined, InLine, Registered
<1>5. ASSUME NEW s \in Registered, Market[s] = s
      PROVE  /\ Len(wire'[n]) = quotes'[s]
             /\ \A i \in 1..Len(wire'[n]) : wire'[n][i].sym = s /\ wire'[n][i].quote = i
  <2>1. m = s
    BY <1>1, <1>5 DEF Order, FirstRound, MarketsOf
  <2>2. Len(wire[n]) = quotes[s] /\ \A i \in 1..Len(wire[n]) : wire[n][i].sym = s /\ wire[n][i].quote = i
    BY <1>5 DEF Order, Numbered
  <2>3. quotes'[s] = quotes[s] + 1 /\ quotes[s] \in Nat
    BY <2>1 DEF ReadMessage, Inv, TypeOK
  <2> DEFINE msg == [sym |-> m, quote |-> quotes'[m]]
  <2>4. wire' = [wire EXCEPT ![n] = Append(wire[n], msg)] /\ wire \in [Conns -> Seq(Messages)]
    BY DEF ReadMessage, Inv, TypeOK
  <2>5. msg \in Messages
    BY <2>1, <2>3 DEF Messages
  <2>6. msg.sym = s /\ msg.quote = quotes[s] + 1
    BY <2>1, <2>3
  <2> HIDE DEF msg
  <2>7. /\ Len(wire'[n]) = Len(wire[n]) + 1 /\ Len(wire[n]) \in Nat
        /\ wire'[n][Len(wire[n]) + 1] = msg
        /\ \A i \in 1..Len(wire[n]) : wire'[n][i] = wire[n][i]
    BY <2>4, <2>5, SeqAppended
  <2> QED BY <2>2, <2>3, <2>6, <2>7
<1>6. Numbered'
  BY <1>1, <1>2, <1>5 DEF Numbered, Registered
<1> QED BY <1>3, <1>4, <1>6 DEF Order

\* The router's first round: it clones the one registry, gives its symbol a listener on an
\* empty channel, and asks for it.
LEMMA RouterOrder ==
  ASSUME Inv, Undisturbed, Order, NEW n \in Conns, RouterStep(n) PROVE Order'
<1>1. /\ UNCHANGED <<pairs, version, owner, wire, quotes, inbox, shown, broke>> /\ Conns' = Conns
      /\ Moves(n) /\ n = 1 /\ Conns = {1}
  <2>1. UNCHANGED <<pairs, version, owner, wire, quotes, inbox, shown, broke>> /\ Conns' = Conns
    BY DEF RouterStep, RouterWakes, CloneRegistry, BridgePair, AfterConnection, exchangeVars,
           streamVars, feedVars, Conns
  <2>2. Moves(n)
    BY WakesRouter, ClonesRouter, BridgesRouter, AsksRouter DEF Inv, RouterStep
  <2>3. n = 1 /\ Conns = {1}
    BY OneRound
  <2> QED BY <2>1, <2>2, <2>3
<1>2. /\ version \in {0, 1} /\ router[1].round \in Nat /\ router[1].seen \in Nat
      /\ router[1].round <= router[1].seen /\ router[1].seen <= version
  BY <1>1, OneRound
<1>3. Numbered'
  BY <1>1 DEF Order, Numbered, Registered
<1>4. CASE RouterWakes(1)
  <2>1. UNCHANGED <<asked, listeners>>
    BY <1>4 DEF RouterWakes, feedVars
  <2>2. router[1].round = 0
    BY <1>2, <1>4 DEF RouterWakes
  <2>3. asked[1] = {}
    BY <1>1, <2>2 DEF Order, FirstRound
  <2>4. router'[1].stage = "cancelled"
    BY <1>1, <1>4, WakesRouter DEF Inv
  <2>5. FirstRound'
    BY <1>1, <2>1, <2>3, <2>4 DEF Order, FirstRound, Registered
  <2> QED BY <1>1, <1>3, <2>1, <2>5 DEF Order, NothingYet, Quiet, Lined, InLine
<1>5. CASE CloneRegistry(1)
  <2>1. UNCHANGED <<asked, listeners>> /\ router[1].stage = "cancelled"
    BY <1>5 DEF CloneRegistry, feedVars
  <2>2. router'[1].book = pairs
    BY <1>1, <1>5, ClonesRouter DEF Inv
  <2>3. asked[1] = {}
    BY <1>1, <2>1 DEF Order, FirstRound
  <2>4. FirstRound'
    BY <1>1, <2>1, <2>2, <2>3 DEF Order, FirstRound, Registered
  <2> QED BY <1>1, <1>3, <2>1, <2>4 DEF Order, NothingYet, Quiet, Lined, InLine
<1>6. ASSUME NEW s \in Symbols, BridgePair(1, s) PROVE Order'
  <2> DEFINE id == <<1, 1, s>>
             p  == router[1].book[s]
  <2>1. UNCHANGED asked /\ s \in router[1].todo
    BY <1>6 DEF BridgePair
  <2>2. router[1].stage = "bridging" /\ router[1].round = 1
    <3>1. router[1].stage = "bridging"
      BY <1>1, <2>1 DEF Inv, RouterInv
    <3> QED BY <1>1, <1>2, <3>1 DEF Inv, RouterInv
  <2>3. router[1].book = pairs /\ asked[1] = {}
    BY <1>1, <2>2 DEF Order, FirstRound
  <2>4. wire[1] = <<>> /\ \A q \in Pairs : inbox[q] = <<>> /\ shown[q] = 0
    BY <1>1, <2>3 DEF Order, NothingYet, Quiet
  <2>5. /\ router'[1].round = router[1].round /\ router'[1].book = router[1].book
        /\ router'[1].stage = router[1].stage
    BY <1>1, <1>6, BridgesRouter DEF Inv
  <2>6. /\ DOMAIN listeners' = DOMAIN listeners \cup {id}
        /\ \A l \in DOMAIN listeners \ {id} : listeners'[l] = listeners[l]
        /\ listeners'[id].to = p /\ listeners'[id].ask = Len(wire[1]) + 1 /\ listeners'[id].hold = 0
        /\ p \in Pairs
    <3> DEFINE new == [to |-> p, from |-> Len(wire[1]) + 1, ask |-> Len(wire[1]) + 1, hold |-> 0, count |-> 0]
    <3>1. 1 \in Conns /\ TypeOK
      BY <1>1 DEF Inv
    <3>2. /\ DOMAIN listeners' = DOMAIN listeners \cup {id}
          /\ \A l \in DOMAIN listeners \ {id} : listeners'[l] = listeners[l]
          /\ listeners'[id] = new /\ p \in Pairs
      BY <1>6, <2>2, <3>1, SpawnedListener
    <3> HIDE DEF id, p
    <3> QED BY <3>2
  <2>7. id[3] = s /\ \A l \in DOMAIN listeners : l # id => listeners'[l] = listeners[l]
    BY <2>6
  <2> HIDE DEF id
  <2>8. FirstRound'
    BY <1>1, <2>1, <2>3, <2>5, <2>6, <2>7 DEF Order, FirstRound, Registered
  <2> HIDE DEF p
  <2>9. InLine(id)'
    <3>1. Len(wire[1]) = 0 /\ Len(inbox[p]) = 0 /\ shown[p] = 0
      BY <2>4, <2>6
    <3>2. /\ listeners'[id].to = p /\ listeners'[id].ask = 1 /\ listeners'[id].hold = 0
          /\ inbox' = inbox /\ shown' = shown
      BY <1>1, <2>6, <3>1
    <3> QED BY <3>1, <3>2 DEF InLine
  <2>10. Lined'
    <3>1. ASSUME NEW l \in DOMAIN listeners, l # id, Market[l[3]] = l[3] PROVE InLine(l)'
      <4>1. listeners'[l] = listeners[l] /\ inbox' = inbox /\ shown' = shown
        BY <1>1, <2>7, <3>1
      <4> QED BY <3>1, <4>1 DEF Order, Lined, InLine
    <3> QED BY <2>6, <2>9, <3>1 DEF Lined
  <2>11. NothingYet'
    BY <1>1, <2>1 DEF Order, NothingYet, Quiet
  <2> QED BY <1>3, <2>8, <2>10, <2>11 DEF Order
<1>7. CASE AfterConnection(1)
  <2>1. /\ UNCHANGED listeners /\ router[1].stage = "bridging"
        /\ asked' = IF 1 \in link THEN [asked EXCEPT ![1] = @ \cup MarketsOf(DOMAIN router[1].book)] ELSE asked
    BY <1>7 DEF AfterConnection, Bridged, feedVars
  <2>2. router[1].round = 1
    BY <1>1, <1>2, <2>1 DEF Inv, RouterInv
  <2>3. router[1].book = pairs /\ asked[1] = {}
    BY <1>1, <2>1, <2>2 DEF Order, FirstRound
  <2>4. router'[1].round = 1 /\ router'[1].book = pairs /\ router'[1].stage = "waiting"
    BY <1>1, <1>7, <2>2, <2>3, AsksRouter DEF Inv
  <2>5. asked'[1] \in {{}, MarketsOf(Registered)}
    BY <1>1, <2>1, <2>3 DEF Inv, TypeOK, Registered
  <2>6. FirstRound'
    BY <1>1, <2>1, <2>4, <2>5 DEF Order, FirstRound, Registered, MarketsOf
  <2>7. NothingYet'
    BY <1>1, <2>3 DEF Order, NothingYet, Quiet
  <2> QED BY <1>1, <1>3, <2>1, <2>6, <2>7 DEF Order, Lined, InLine
<1> QED BY <1>1, <1>4, <1>5, <1>6, <1>7 DEF RouterStep

LEMMA NextAppended ==
  ASSUME NEW q \in Seq(Messages), NEW msg \in Messages, NEW k \in Nat,
         \A i \in 1..Len(q) : q[i].quote = k + i, msg.quote = k + Len(q) + 1
  PROVE  /\ Len(Append(q, msg)) = Len(q) + 1
         /\ \A i \in 1..Len(Append(q, msg)) : Append(q, msg)[i].quote = k + i
<1>1. /\ Len(Append(q, msg)) = Len(q) + 1 /\ Append(q, msg)[Len(q) + 1] = msg /\ Len(q) \in Nat
      /\ \A i \in 1..Len(q) : Append(q, msg)[i] = q[i]
  BY SeqAppended
<1>2. ASSUME NEW i \in 1..Len(q) + 1 PROVE Append(q, msg)[i].quote = k + i
  <2>1. CASE i = Len(q) + 1
    BY <1>1, <2>1
  <2>2. CASE i \in 1..Len(q)
    BY <1>1, <2>2
  <2> QED BY <1>1, <2>1, <2>2
<1> QED BY <1>1, <1>2

\* The listener moves along the numbers; a message it holds goes to the end of the channel.
LEMMA ListenerOrder ==
  ASSUME Inv, Undisturbed, Undisturbed', Order, NEW id \in DOMAIN listeners, ListenerStep(id)
  PROVE  Order'
<1> DEFINE s == id[3]
           l == listeners[id]
           p == listeners[id].to
<1>1. UNCHANGED <<pairs, version, owner, asked, router, wire, quotes, shown>> /\ Conns' = Conns
  BY DEF ListenerStep, RecvMessage, ForwardPrice, ReceiverFails, ListenerStops, exchangeVars, connVars,
         streamVars, Conns
<1>2. /\ 1 \in Conns /\ id[1] = 1 /\ s \in Registered /\ ~Cancelled(id) /\ p = pairs[s]
      /\ \A o \in DOMAIN listeners : o = id
  <2>1. ASSUME NEW o \in DOMAIN listeners PROVE o = id
    <3>1. o = <<1, 1, o[3]>> /\ id = <<1, 1, id[3]>> /\ o[3] = id[3]
      BY TheListener DEF Order, FirstRound
    <3> QED BY <3>1
  <2> QED BY <2>1, TheListener DEF Order
<1>3. id \notin broke'
  BY DEF Undisturbed
<1>4. Numbered'
  BY <1>1 DEF Order, Numbered, Registered
<1>5. /\ p \in Pairs /\ l.hold \in Nat /\ l.ask \in Nat /\ shown[p] \in Nat
      /\ inbox \in [Pairs -> Seq(Messages)] /\ Len(inbox[p]) \in Nat
  BY ListenerFields DEF Inv, TypeOK
<1>6. Position(id) /\ Len(wire[1]) \in Nat /\ Wire(id) = wire[1]
  BY <1>2 DEF Inv, ForwardInv, TypeOK, Wire
<1>7. CASE RecvMessage(id)
  <2>1. /\ DOMAIN listeners' = DOMAIN listeners
        /\ listeners'[id].to = p /\ listeners'[id].ask = l.ask + 1
        /\ listeners'[id].hold = IF Wire(id)[l.ask].sym = s THEN l.ask ELSE 0
        /\ l.hold = 0 /\ UNCHANGED inbox /\ Received(l.ask, Len(wire[1]))
    BY <1>6, <1>7, RecvListener DEF Inv, Goes, RecvMessage
  <2>2. l.ask >= 1 /\ l.ask <= Len(wire[1])
    BY <1>5, <1>6, <2>1, CapacityAssumption DEF Received, Oldest
  <2>3. FirstRound'
    BY <1>1, <1>2, <2>1 DEF Order, FirstRound, Registered
  <2>4. NothingYet'
    BY <1>1, <2>1 DEF Order, NothingYet, Quiet
  <2>5. ASSUME Market[s] = s PROVE InLine(id)'
    <3>1. wire[1][l.ask].sym = s
      BY <1>2, <1>5, <2>2, <2>5 DEF Order, Numbered
    <3>2. listeners'[id].hold = l.ask
      BY <1>6, <2>1, <3>1
    <3>3. InLine(id)
      BY <2>5 DEF Order, Lined
    <3> QED BY <1>1, <1>5, <2>1, <2>2, <3>2, <3>3 DEF InLine
  <2>6. Lined'
    BY <1>2, <2>1, <2>5 DEF Lined
  <2> QED BY <1>4, <2>3, <2>4, <2>6 DEF Order
<1>8. CASE ForwardPrice(id)
  <2> DEFINE msg == Wire(id)[l.hold]
  <2>1. /\ DOMAIN listeners' = DOMAIN listeners
        /\ listeners'[id].to = p /\ listeners'[id].ask = l.ask /\ listeners'[id].hold = 0
        /\ l.hold # 0 /\ inbox' = [inbox EXCEPT ![p] = Append(inbox[p], msg)]
    BY <1>8, ForwardListener DEF Inv, Goes, ForwardPrice
  <2>2. l.hold \in 1..Len(wire[1])
    BY <1>5, <1>6, <2>1, ListenerFields DEF Position, Inv
  <2>3. msg \in Messages
    BY <1>6, <2>2, WireOf DEF Inv
  <2>4. FirstRound'
    BY <1>1, <1>2, <2>1 DEF Order, FirstRound, Registered
  <2>5. NothingYet'
    <3>1. wire[1] # <<>>
      BY <2>2
    <3>2. ~Quiet /\ ~Quiet'
      BY <1>1, <1>2, <3>1 DEF Order, NothingYet, Quiet
    <3> QED BY <3>2 DEF NothingYet
  <2>6. ASSUME Market[s] = s PROVE InLine(id)'
    <3>1. msg.quote = l.hold
      BY <1>2, <1>6, <2>2, <2>6 DEF Order, Numbered
    <3>2. /\ l.hold = l.ask - 1 /\ shown[p] + Len(inbox[p]) + 1 = l.hold
          /\ \A i \in 1..Len(inbox[p]) : inbox[p][i].quote = shown[p] + i
      BY <2>1, <2>6 DEF Order, Lined, InLine
    <3> HIDE DEF msg, p
    <3>3. inbox'[p] = Append(inbox[p], msg) /\ inbox[p] \in Seq(Messages)
      BY <1>5, <2>1
    <3>4. msg.quote = shown[p] + Len(inbox[p]) + 1 /\ shown[p] \in Nat
      BY <1>5, <3>1, <3>2
    <3>5. Len(inbox'[p]) = Len(inbox[p]) + 1 /\ \A i \in 1..Len(inbox'[p]) : inbox'[p][i].quote = shown[p] + i
      <4> DEFINE k == shown[p]
                 q == inbox[p]
      <4>1. /\ q \in Seq(Messages) /\ k \in Nat /\ msg.quote = k + Len(q) + 1
            /\ \A i \in 1..Len(q) : q[i].quote = k + i
        BY <3>2, <3>3, <3>4
      <4> HIDE DEF k, q
      <4>2. /\ Len(Append(q, msg)) = Len(q) + 1
            /\ \A i \in 1..Len(Append(q, msg)) : Append(q, msg)[i].quote = k + i
        BY <2>3, <4>1, NextAppended
      <4> QED BY <3>3, <4>2 DEF k, q
    <3> DEFINE k == shown[p]
               len == Len(inbox[p])
    <3>6. k \in Nat /\ len \in Nat /\ k + len + 1 = l.hold /\ l.hold = l.ask - 1 /\ l.ask \in Nat
      BY <1>5, <3>2
    <3> HIDE DEF k, len, l
    <3>7. k + (len + 1) + 1 = l.ask
      BY <3>6
    <3>8. shown[p] + Len(inbox'[p]) + 1 = l.ask
      BY <3>5, <3>7 DEF k, len
    <3> QED BY <1>1, <2>1, <3>5, <3>8 DEF InLine
  <2>7. Lined'
    BY <1>2, <2>1, <2>6 DEF Lined
  <2> QED BY <1>4, <2>4, <2>5, <2>7 DEF Order
<1> QED BY <1>2, <1>3, <1>7, <1>8 DEF ListenerStep, ReceiverFails, ListenerStops

\* The first price in the channel is the next after the one taken last.
LEMMA TakeOrder ==
  ASSUME Inv, Undisturbed, Order, NEW q \in Pairs, TakePrice(q) PROVE Order'
<1>1. UNCHANGED <<pairs, version, owner, asked, router, wire, quotes, listeners>> /\ Conns' = Conns
  BY DEF TakePrice, exchangeVars, connVars, streamVars, Conns
<1>2. FirstRound' /\ Numbered'
  BY <1>1 DEF Order, FirstRound, Numbered, Registered
<1>3. /\ inbox[q] \in Seq(Messages) /\ inbox[q] # <<>> /\ inbox \in [Pairs -> Seq(Messages)]
      /\ shown \in [Pairs -> Nat]
      /\ shown' = [shown EXCEPT ![q] = Head(inbox[q]).quote] /\ inbox' = [inbox EXCEPT ![q] = Tail(inbox[q])]
  BY DEF TakePrice, Inv, TypeOK
<1>4. NothingYet'
  BY <1>1, <1>3 DEF Order, NothingYet, Quiet
<1>5. ASSUME NEW id \in DOMAIN listeners, Market[id[3]] = id[3] PROVE InLine(id)'
  <2> DEFINE p == listeners[id].to
  <2>1. InLine(id) /\ p \in Pairs
    BY <1>5, ListenerFields DEF Order, Lined, Inv
  <2>2. CASE p # q
    BY <1>1, <1>3, <2>1, <2>2 DEF InLine
  <2>3. CASE p = q
    <3>1. /\ Len(inbox[q]) \in Nat \ {0} /\ Len(Tail(inbox[q])) = Len(inbox[q]) - 1 /\ Head(inbox[q]) = inbox[q][1]
          /\ \A i \in 1..Len(inbox[q]) - 1 : Tail(inbox[q])[i] = inbox[q][i + 1]
      BY <1>3
    <3>2. \A i \in 1..Len(inbox[q]) : inbox[q][i].quote = shown[q] + i
      BY <2>1, <2>3 DEF InLine
    <3>3. shown'[q] = shown[q] + 1 /\ inbox'[q] = Tail(inbox[q]) /\ shown[q] \in Nat
      BY <1>3, <3>1, <3>2
    <3>4. \A i \in 1..Len(inbox'[q]) : inbox'[q][i].quote = shown'[q] + i
      BY <3>1, <3>2, <3>3
    <3>5. shown'[q] + Len(inbox'[q]) + 1 = shown[q] + Len(inbox[q]) + 1
      BY <3>1, <3>3
    <3> QED BY <1>1, <2>1, <2>3, <3>4, <3>5 DEF InLine
  <2> QED BY <2>2, <2>3
<1> QED BY <1>1, <1>2, <1>4, <1>5 DEF Order, Lined

LEMMA OrderStep == ASSUME Inv, OrderInv, [Next]_vars PROVE OrderInv'
<1> SUFFICES ASSUME Undisturbed' PROVE Order'
  BY DEF OrderInv
<1>1. Undisturbed /\ Order
  BY StillUndisturbed DEF OrderInv
<1>2. CASE UNCHANGED vars
  BY <1>1, <1>2, ElsewhereOrder DEF vars, exchangeVars, connVars, streamVars, feedVars
<1>3. ASSUME NEW k, StopWebsocket(k) PROVE Order'
  BY <1>1, <1>3, ElsewhereOrder DEF StopWebsocket, WebsocketStops, streamVars, feedVars
<1>4. ASSUME NEW n, Disconnect(n) PROVE Order'
  BY <1>1, <1>4, ElsewhereOrder DEF Disconnect, exchangeVars, streamVars, feedVars
<1> QED BY <1>1, <1>2, <1>3, <1>4, RegistryOrder, OpenOrder, ReadOrder, RouterOrder, ListenerOrder, TakeOrder
        DEF Next
--------------------------------------------------------------------------------
(* What follows for a socket *)

LEMMA OrderedByInv ==
  ASSUME Inv, Undisturbed, Order, NEW p \in Range(pairs) \cap Spelled
  PROVE  LET id == <<1, 1, Symbol[p]>>
         IN  /\ \A i \in 1..Len(inbox[p]) : inbox[p][i].quote = shown[p] + i
             /\ (IF id \in DOMAIN listeners THEN Ahead(id) ELSE {})
                  = shown[p] + Len(inbox[p]) + 1 .. quotes[Symbol[p]]
<1> DEFINE s  == Symbol[p]
           id == <<1, 1, s>>
<1>1. s \in Registered /\ pairs[s] = p /\ Market[s] = s /\ p \in Pairs /\ s \in Markets
  <2>1. PICK t \in Registered : pairs[t] = p
    BY DEF Range, Registered
  <2>2. Symbol[pairs[t]] = t /\ t \in Symbols
    BY <2>1 DEF Inv, TypeOK, ExchangeTypeOK, SendersFiled
  <2>3. p \in Pairs /\ Market[s] = s
    BY DEF Spelled
  <2> QED BY <2>1, <2>2, <2>3 DEF Markets, MarketsOf
<1>2. shown[p] \in Nat /\ Len(inbox[p]) \in Nat
  BY <1>1 DEF Inv, TypeOK
<1>3. CASE id \notin DOMAIN listeners
  <2>1. Quiet
    BY <1>1, <1>3, AskedIsHeard DEF Order, Quiet
  <2>2. quotes[s] = 0 /\ inbox[p] = <<>> /\ shown[p] = 0
    BY <1>1, <2>1 DEF Order, NothingYet
  <2> QED BY <1>3, <2>2
<1>4. CASE id \in DOMAIN listeners
  <2> DEFINE l == listeners[id]
             first == shown[p] + Len(inbox[p]) + 1
  <2>1. id[1] = 1 /\ id[3] = s /\ 1 \in Conns /\ l.to = p
    BY <1>1, <1>4, TheListener DEF Order
  <2>2. /\ l.hold # 0 => l.hold = l.ask - 1
        /\ \A i \in 1..Len(inbox[p]) : inbox[p][i].quote = shown[p] + i
        /\ first = IF l.hold # 0 THEN l.hold ELSE l.ask
    BY <1>1, <1>4, <2>1 DEF Order, Lined, InLine
  <2>3. /\ Len(wire[1]) = quotes[s] /\ DOMAIN wire[1] = 1..Len(wire[1]) /\ Len(wire[1]) \in Nat
        /\ \A i \in 1..Len(wire[1]) : wire[1][i].sym = s /\ wire[1][i].quote = i
    BY <1>1, <2>1 DEF Order, Numbered, Inv, TypeOK
  <2>4. l.ask \in Nat /\ l.hold \in Nat
    BY <1>4, ListenerFields DEF Inv
  <2>5. first \in Nat /\ first >= 1
    BY <1>2
  <2>6. Ahead(id) = {wire[1][i].quote : i \in {j \in DOMAIN wire[1] : wire[1][j].sym = s /\ (j = l.hold \/ j >= l.ask)}}
    BY <2>1 DEF Ahead, Wire
  <2> HIDE DEF l, first
  <2>7. {j \in DOMAIN wire[1] : wire[1][j].sym = s /\ (j = l.hold \/ j >= l.ask)} = first..quotes[s]
    BY <2>2, <2>3, <2>4, <2>5
  <2>8. first..quotes[s] \subseteq 1..Len(wire[1])
    BY <2>3, <2>5
  <2>9. Ahead(id) = first..quotes[s]
    <3>1. Ahead(id) = {wire[1][i].quote : i \in first..quotes[s]}
      BY <2>6, <2>7
    <3>2. \A i \in first..quotes[s] : wire[1][i].quote = i
      BY <2>3, <2>8
    <3> QED BY <3>1, <3>2
  <2> QED BY <1>4, <2>2, <2>9 DEF first
<1> QED BY <1>3, <1>4

LEMMA OrderInit == Init => OrderInv
<1> SUFFICES ASSUME Init PROVE Order
  BY DEF OrderInv
<1>1. Conns = {} /\ DOMAIN listeners = {} /\ Registered = {}
  BY DEF Init, ExchangeInit, Conns, NoEntries, Registered
<1> QED BY <1>1 DEF Init, Order, FirstRound, NothingYet, Numbered, Lined

\* Until a second registry, a second connection or a lag, the prices read of a pair are, in
\* order, those its socket took, those in its channel and those ahead of its one listener.
THEOREM OrderKept == Spec => []OrderedUntilDisturbed
<1>1. Inv /\ OrderInv /\ [Next]_vars => OrderInv'
  BY OrderStep
<1>2. Inv /\ OrderInv => OrderedUntilDisturbed
  BY OrderedByInv DEF OrderInv, OrderedUntilDisturbed
<1> QED BY <1>1, <1>2, OrderInit, InvHolds, PTL DEF Spec
================================================================================
