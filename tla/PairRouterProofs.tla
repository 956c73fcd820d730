---------------------------- MODULE PairRouterProofs ---------------------------
(***************************************************************************)
(* Routers and listeners for any number of pairs, symbols, connections and *)
(* registries and any capacity.  A router's listeners are related to where *)
(* it stands in its round; those of earlier rounds only have to be older.  *)
(***************************************************************************)
EXTENDS PairRouter, BinanceExchangeProofs, FiniteSetTheorems

LEMMA SeqAppended ==
  ASSUME NEW E, NEW q \in Seq(E), NEW e \in E
  PROVE  /\ Append(q, e) \in Seq(E) /\ Len(Append(q, e)) = Len(q) + 1
         /\ Append(q, e)[Len(q) + 1] = e
         /\ \A i \in 1..Len(q) : Append(q, e)[i] = q[i]
OBVIOUS

LEMMA SeqFunction == ASSUME NEW E, NEW q \in Seq(E) PROVE q \in [1..Len(q) -> E]
OBVIOUS

\* The same of a function on 1..len.
LEMMA Appended ==
  ASSUME NEW E, NEW len \in Nat, NEW f \in [1..len -> E], NEW e \in E, NEW g, g = Append(f, e)
  PROVE  /\ g \in [1..len + 1 -> E] /\ g[len + 1] = e
         /\ \A i \in 1..len : g[i] = f[i]
<1>1. f \in Seq(E) /\ Len(f) = len
  OBVIOUS
<1>2. g \in Seq(E) /\ Len(g) = len + 1 /\ g[len + 1] = e /\ \A i \in 1..len : g[i] = f[i]
  BY <1>1, SeqAppended
<1>3. g \in [1..Len(g) -> E]
  BY <1>2, SeqFunction, Zenon
<1> QED BY <1>2, <1>3

LEMMA SeqTail ==
  ASSUME NEW E, NEW q \in Seq(E), q # <<>>
  PROVE  /\ Tail(q) \in Seq(E) /\ Len(Tail(q)) = Len(q) - 1 /\ Head(q) \in E /\ Len(q) \in Nat \ {0}
OBVIOUS

LEMMA SeqLarger ==
  ASSUME NEW m \in Nat, NEW n \in Nat, m <= n, NEW q \in Seq(1..m)
  PROVE  q \in Seq(1..n)
<1>1. q \in [1..Len(q) -> 1..m] /\ Len(q) \in Nat
  OBVIOUS
<1>2. q \in [1..Len(q) -> 1..n]
  BY <1>1
<1> QED BY <1>1, <1>2

LEMMA ConnsAre == ASSUME TypeOK PROVE Conns = 1..Len(owner) /\ Len(owner) \in Nat
<1>1. owner \in Seq(1..started)
  BY DEF TypeOK
<1> HIDE DEF TypeOK
<1> QED BY <1>1 DEF Conns

\* The parts of an identity.
LEMMA IdParts ==
  ASSUME NEW id \in Ids
  PROVE  /\ id = <<id[1], id[2], id[3]>>
         /\ id[1] \in 1..MaxConns /\ id[2] \in 1..MaxVersion /\ id[3] \in Symbols
BY DEF Ids
--------------------------------------------------------------------------------
(* What a router step does to the routers. *)

\* Only the router of n changes.
Moves(n) ==
  /\ router' \in [Conns -> Routers]
  /\ \A m \in Conns \ {n} : router'[m] = router[m]

LEMMA WakesRouter ==
  ASSUME TypeOK, NEW n \in Conns, RouterWakes(n)
  PROVE  /\ Moves(n)
         /\ router'[n].seen = version /\ router'[n].round = router[n].round + 1
         /\ router'[n].stage = "cancelled"
         /\ router'[n].book = NoEntries /\ router'[n].todo = {}
<1>1. router \in [Conns -> Routers] /\ version \in Nat
  BY DEF TypeOK, ExchangeTypeOK
<1>2. router' = [router EXCEPT ![n] = RouterAt(version, router[n].round + 1, "cancelled")]
  BY DEF RouterWakes
<1>3. NoEntries \in Books
  BY DEF NoEntries, Books
<1> HIDE DEF NoEntries, Books
<1> QED BY <1>1, <1>2, <1>3 DEF RouterAt, Moves, Routers

LEMMA ClonesRouter ==
  ASSUME TypeOK, NEW n \in Conns, CloneRegistry(n)
  PROVE  /\ Moves(n)
         /\ router'[n].seen = router[n].seen /\ router'[n].round = router[n].round
         /\ router'[n].stage = "bridging"
         /\ router'[n].book = pairs /\ router'[n].todo = Registered
<1>1. router \in [Conns -> Routers] /\ pairs \in Books /\ Registered \in SUBSET Symbols
  BY DEF TypeOK, ExchangeTypeOK, Books
<1> HIDE DEF Registered, Books
<1> QED BY <1>1 DEF CloneRegistry, Moves, Routers

LEMMA BridgesRouter ==
  ASSUME TypeOK, NEW n \in Conns, NEW s, BridgePair(n, s)
  PROVE  /\ Moves(n)
         /\ router'[n].seen = router[n].seen /\ router'[n].round = router[n].round
         /\ router'[n].stage = router[n].stage
         /\ router'[n].book = router[n].book /\ router'[n].todo = router[n].todo \ {s}
<1>1. router \in [Conns -> Routers]
  BY DEF TypeOK
<1> DEFINE t == router[n].todo \ {s}
<1>2. t \in SUBSET Symbols
  BY <1>1 DEF Routers
<1>3. router' = [router EXCEPT ![n] = [router[n] EXCEPT !.todo = t]]
  BY DEF BridgePair
<1> HIDE DEF t
<1>4. Moves(n) /\ router'[n].todo = t
  BY <1>1, <1>2, <1>3 DEF Moves, Routers
<1>5. /\ router'[n].seen = router[n].seen /\ router'[n].round = router[n].round
      /\ router'[n].stage = router[n].stage /\ router'[n].book = router[n].book
  BY <1>1, <1>3 DEF Routers
<1> QED BY <1>4, <1>5 DEF t

LEMMA AsksRouter ==
  ASSUME TypeOK, NEW n \in Conns, AfterConnection(n)
  PROVE  /\ Moves(n)
         /\ router'[n].seen = router[n].seen /\ router'[n].round = router[n].round
         /\ router'[n].stage = "waiting"
         /\ router'[n].book = router[n].book /\ router'[n].todo = {}
<1>1. router \in [Conns -> Routers]
  BY DEF TypeOK
<1> QED BY <1>1 DEF AfterConnection, Moves, Routers
--------------------------------------------------------------------------------
(* What a listener step does to the listeners. *)

\* Only the listener id changes.
Goes(id) ==
  /\ DOMAIN listeners' = DOMAIN listeners
  /\ listeners' \in [DOMAIN listeners -> Listeners]
  /\ \A l \in DOMAIN listeners \ {id} : listeners'[l] = listeners[l]

LEMMA ListenerFields ==
  ASSUME TypeOK, NEW id \in DOMAIN listeners
  PROVE  /\ listeners[id] \in Listeners /\ listeners[id].to \in Pairs
         /\ listeners[id].from \in Nat /\ listeners[id].ask \in Nat
         /\ listeners[id].hold \in Nat /\ listeners[id].count \in Nat
         /\ id \in Ids
<1>1. listeners \in [DOMAIN listeners -> Listeners] /\ DOMAIN listeners \subseteq Ids
  BY DEF TypeOK
<1> QED BY <1>1 DEF Listeners

LEMMA RecvListener ==
  ASSUME TypeOK, NEW id \in DOMAIN listeners, RecvMessage(id)
  PROVE  /\ Goes(id)
         /\ listeners'[id].to = listeners[id].to /\ listeners'[id].from = listeners[id].from
         /\ listeners'[id].ask = listeners[id].ask + 1
         /\ listeners'[id].hold = IF Wire(id)[listeners[id].ask].sym = id[3] THEN listeners[id].ask ELSE 0
         /\ listeners'[id].count = listeners[id].count
<1> DEFINE l == listeners[id]
           h == IF Wire(id)[l.ask].sym = id[3] THEN l.ask ELSE 0
           a == l.ask + 1
<1>1. l \in Listeners /\ h \in Nat /\ a \in Nat /\ listeners \in [DOMAIN listeners -> Listeners]
  BY ListenerFields DEF TypeOK
<1>2. listeners' = [listeners EXCEPT ![id] = [l EXCEPT !.ask = a, !.hold = h]]
  BY DEF RecvMessage
<1> HIDE DEF h, a
<1>3. Goes(id) /\ listeners'[id].ask = a /\ listeners'[id].hold = h
  BY <1>1, <1>2 DEF Goes, Listeners
<1>4. listeners'[id].to = l.to /\ listeners'[id].from = l.from /\ listeners'[id].count = l.count
  BY <1>1, <1>2 DEF Listeners
<1> QED BY <1>3, <1>4 DEF a, h

LEMMA ForwardListener ==
  ASSUME TypeOK, NEW id \in DOMAIN listeners, ForwardPrice(id)
  PROVE  /\ Goes(id)
         /\ listeners'[id].to = listeners[id].to /\ listeners'[id].from = listeners[id].from
         /\ listeners'[id].ask = listeners[id].ask /\ listeners'[id].hold = 0
         /\ listeners'[id].count = listeners[id].count + 1
<1> DEFINE l == listeners[id]
           c == l.count + 1
<1>1. l \in Listeners /\ c \in Nat /\ listeners \in [DOMAIN listeners -> Listeners]
  BY ListenerFields DEF TypeOK
<1>2. listeners' = [listeners EXCEPT ![id] = [l EXCEPT !.hold = 0, !.count = c]]
  BY DEF ForwardPrice
<1> HIDE DEF c
<1>3. Goes(id) /\ listeners'[id].hold = 0 /\ listeners'[id].count = c
  BY <1>1, <1>2 DEF Goes, Listeners
<1>4. listeners'[id].to = l.to /\ listeners'[id].from = l.from /\ listeners'[id].ask = l.ask
  BY <1>1, <1>2 DEF Listeners
<1> QED BY <1>3, <1>4 DEF c

LEMMA EndedListener ==
  ASSUME TypeOK, NEW id \in DOMAIN listeners, Ends(id)
  PROVE  /\ DOMAIN listeners' = DOMAIN listeners \ {id}
         /\ listeners' \in [DOMAIN listeners' -> Listeners]
         /\ \A l \in DOMAIN listeners' : listeners'[l] = listeners[l]
<1>1. listeners \in [DOMAIN listeners -> Listeners]
  BY DEF TypeOK
<1>2. listeners' = [l \in DOMAIN listeners \ {id} |-> listeners[l]]
  BY DEF Ends, Restrict
<1> QED BY <1>1, <1>2

LEMMA SpawnedListener ==
  ASSUME TypeOK, NEW n \in Conns, NEW s, BridgePair(n, s)
  PROVE  LET id == <<n, router[n].round, s>>
         IN  /\ DOMAIN listeners' = DOMAIN listeners \cup {id}
             /\ listeners' \in [DOMAIN listeners' -> Listeners]
             /\ \A l \in DOMAIN listeners \ {id} : listeners'[l] = listeners[l]
             /\ listeners'[id] = [to |-> router[n].book[s], from |-> Len(wire[n]) + 1,
                                  ask |-> Len(wire[n]) + 1, hold |-> 0, count |-> 0]
             /\ router[n].book[s] \in Pairs /\ s \in DOMAIN router[n].book
<1> DEFINE id  == <<n, router[n].round, s>>
           at  == Len(wire[n]) + 1
           new == [to |-> router[n].book[s], from |-> at, ask |-> at, hold |-> 0, count |-> 0]
<1>1. listeners \in [DOMAIN listeners -> Listeners]
  BY DEF TypeOK
<1>2. wire[n] \in Seq(Messages) /\ router[n] \in Routers /\ s \in router[n].todo
      /\ router[n].todo \subseteq DOMAIN router[n].book
  BY DEF TypeOK, BridgePair
<1>3. at \in Nat
  BY <1>2
<1>4. router[n].book[s] \in Pairs /\ s \in DOMAIN router[n].book
  BY <1>2 DEF Routers, Books
<1>5. new \in Listeners
  BY <1>3, <1>4 DEF Listeners
<1>6. listeners' = [l \in DOMAIN listeners \cup {id} |-> IF l = id THEN new ELSE listeners[l]]
  BY DEF BridgePair, Subscribed
<1> HIDE DEF new, id
<1>7. /\ DOMAIN listeners' = DOMAIN listeners \cup {id} /\ listeners' \in [DOMAIN listeners' -> Listeners]
      /\ listeners'[id] = new /\ \A l \in DOMAIN listeners \ {id} : listeners'[l] = listeners[l]
  BY <1>1, <1>5, <1>6
<1> QED BY <1>4, <1>7 DEF new, id
--------------------------------------------------------------------------------
(* The exchange and the connections *)

LEMMA RegistryGrows ==
  ASSUME ExchangeTypeOK, NEW p, AddPair(p) \/ RemovePair(p)
  PROVE  version <= version' /\ started <= started'
BY DEF ExchangeTypeOK, AddPair, RemovePair, exchangeVars, SendRegistry, EnsureWebsocket, StopPublic

\* Who changes the exchange.
LEMMA ExchangeSteps ==
  ASSUME [Next]_vars
  PROVE  \/ UNCHANGED exchangeVars
         \/ \E p \in Pairs : AddPair(p) \/ RemovePair(p)
         \/ \E k \in running : WebsocketStops(k)
<1>1. CASE UNCHANGED vars
  BY <1>1 DEF vars
<1>2. CASE ChangeRegistry
  BY <1>2 DEF ChangeRegistry
<1>3. ASSUME NEW k \in running, OpenConnection(k) \/ StopWebsocket(k)
      PROVE  UNCHANGED exchangeVars \/ WebsocketStops(k)
  BY <1>3 DEF OpenConnection, StopWebsocket
<1>4. ASSUME NEW n \in Conns, Disconnect(n) \/ RouterStep(n) \/ \E m \in Markets : ReadMessage(n, m)
      PROVE  UNCHANGED exchangeVars
  BY <1>4 DEF Disconnect, RouterStep, RouterWakes, CloneRegistry, BridgePair, AfterConnection, ReadMessage
<1>5. ASSUME NEW id, ListenerStep(id) PROVE UNCHANGED exchangeVars
  BY <1>5 DEF ListenerStep, RecvMessage, ForwardPrice, ReceiverFails, ListenerStops
<1>6. ASSUME NEW p, TakePrice(p) PROVE UNCHANGED exchangeVars
  BY <1>6 DEF TakePrice
<1> QED BY <1>1, <1>2, <1>3, <1>4, <1>5, <1>6, Zenon DEF Next

LEMMA ExchangeTyped ==
  ASSUME ExchangeTypeOK, [Next]_vars
  PROVE  ExchangeTypeOK' /\ version <= version' /\ started <= started'
<1>1. CASE UNCHANGED exchangeVars
  BY <1>1 DEF exchangeVars, ExchangeTypeOK, Registered
<1>2. ASSUME NEW k, WebsocketStops(k) PROVE ExchangeTypeOK' /\ version <= version' /\ started <= started'
  BY <1>2, WebsocketStopsTyped DEF WebsocketStops, ExchangeTypeOK
<1> QED BY <1>1, <1>2, ExchangeSteps, AddPairTyped, RemovePairTyped, RegistryGrows

LEMMA Opened ==
  ASSUME TypeOK, NEW k \in running, OpenConnection(k)
  PROVE  LET new == Len(owner) + 1 IN
         /\ new \notin Conns /\ Conns' = Conns \cup {new} /\ new \in 1..MaxConns
         /\ owner' \in Seq(1..started) /\ link' = link \cup {new}
         /\ asked' \in [Conns' -> SUBSET Markets] /\ wire' \in [Conns' -> Seq(Messages)]
         /\ router' \in [Conns' -> Routers]
         /\ asked'[new] = {} /\ wire'[new] = <<>> /\ router'[new] = NewRouter
         /\ \A n \in Conns : asked'[n] = asked[n] /\ wire'[n] = wire[n] /\ router'[n] = router[n]
         /\ UNCHANGED <<exchangeVars, quotes, feedVars>>
<1> DEFINE len == Len(owner)
<1>1. Conns = 1..len /\ len \in Nat
  BY ConnsAre
<1>2. owner \in Seq(1..started) /\ k \in 1..started
  BY DEF TypeOK, ExchangeTypeOK
<1>3. owner' \in Seq(1..started) /\ Len(owner') = len + 1
  BY <1>2, SeqAppended DEF OpenConnection
<1>4. Conns' = 1..len + 1
  BY <1>1, <1>3 DEF Conns
<1>5. asked \in [1..len -> SUBSET Markets] /\ wire \in [1..len -> Seq(Messages)] /\ router \in [1..len -> Routers]
  BY <1>1 DEF TypeOK
<1>6. NewRouter \in Routers
  <2>1. NoEntries \in Books
    BY DEF NoEntries, Books
  <2> HIDE DEF NoEntries, Books
  <2> QED BY <2>1 DEF NewRouter, RouterAt, Routers
<1> HIDE DEF len
<1>7. /\ asked' \in [1..len + 1 -> SUBSET Markets] /\ asked'[len + 1] = {}
      /\ \A i \in 1..len : asked'[i] = asked[i]
  <2>1. asked' = Append(asked, {}) /\ {} \in SUBSET Markets BY DEF OpenConnection
  <2>2. asked' \in [1..len + 1 -> SUBSET Markets] BY <1>1, <1>5, <2>1, Appended, Zenon
  <2>3. asked'[len + 1] = {} BY <1>1, <1>5, <2>1, Appended
  <2>4. \A i \in 1..len : asked'[i] = asked[i] BY <1>1, <1>5, <2>1, Appended
  <2> QED BY <2>2, <2>3, <2>4
<1>8. /\ wire' \in [1..len + 1 -> Seq(Messages)] /\ wire'[len + 1] = <<>>
      /\ \A i \in 1..len : wire'[i] = wire[i]
  <2>1. wire' = Append(wire, <<>>) /\ <<>> \in Seq(Messages) BY DEF OpenConnection
  <2>2. wire' \in [1..len + 1 -> Seq(Messages)] BY <1>1, <1>5, <2>1, Appended, Zenon
  <2>3. wire'[len + 1] = <<>> BY <1>1, <1>5, <2>1, Appended
  <2>4. \A i \in 1..len : wire'[i] = wire[i] BY <1>1, <1>5, <2>1, Appended
  <2> QED BY <2>2, <2>3, <2>4
<1>9. /\ router' \in [1..len + 1 -> Routers] /\ router'[len + 1] = NewRouter
      /\ \A i \in 1..len : router'[i] = router[i]
  <2>1. router' = Append(router, NewRouter) /\ NewRouter \in Routers BY <1>6 DEF OpenConnection
  <2>2. router' \in [1..len + 1 -> Routers] BY <1>1, <1>5, <2>1, Appended, Zenon
  <2>3. router'[len + 1] = NewRouter BY <1>1, <1>5, <2>1, Appended
  <2>4. \A i \in 1..len : router'[i] = router[i] BY <1>1, <1>5, <2>1, Appended
  <2> QED BY <2>2, <2>3, <2>4
<1> USE DEF len
<1>10. link' = link \cup {len + 1} /\ len < MaxConns /\ UNCHANGED <<exchangeVars, quotes, feedVars>>
  BY <1>3 DEF OpenConnection
<1>11. len + 1 \in 1..MaxConns /\ len + 1 \notin Conns /\ Conns' = Conns \cup {len + 1}
  BY <1>1, <1>4, <1>10, RouterBounds
<1> HIDE DEF len
<1>12. \A n \in Conns : asked'[n] = asked[n] /\ wire'[n] = wire[n] /\ router'[n] = router[n]
  BY <1>1, <1>7, <1>8, <1>9
<1> QED BY <1>3, <1>4, <1>7, <1>8, <1>9, <1>10, <1>11, <1>12 DEF len
--------------------------------------------------------------------------------
(* Types.  A spawned listener gets an identity of Ids because a router is past round 0 *)
(* while it bridges.                                                               *)

RouterInv ==
  \A n \in Conns :
    /\ router[n].stage # "bridging" => router[n].todo = {}
    /\ router[n].stage # "waiting" => router[n].round >= 1
    /\ \A s \in DOMAIN router[n].book : Symbol[router[n].book[s]] = s
    /\ router[n].stage = "waiting" /\ n \in link => MarketsOf(DOMAIN router[n].book) \subseteq asked[n]

LEMMA RegistryTyped ==
  ASSUME TypeOK, [Next]_vars, UNCHANGED <<owner, asked, router, streamVars, feedVars>>, link' \subseteq link
  PROVE  TypeOK'
<1>1. ExchangeTypeOK' /\ version <= version' /\ started <= started'
  BY ExchangeTyped DEF TypeOK
<1>2. version \in Nat /\ version' \in Nat /\ started \in Nat /\ started' \in Nat
  BY <1>1 DEF TypeOK, ExchangeTypeOK
<1>3. owner' \in Seq(1..started')
  BY <1>1, <1>2, SeqLarger DEF TypeOK
<1>4. Conns' = Conns
  BY DEF Conns
<1>5. \A n \in Conns : router[n].seen \in Nat
  BY DEF TypeOK, Routers
<1>6. \A n \in Conns' : router'[n].seen <= version'
  BY <1>1, <1>2, <1>4, <1>5 DEF TypeOK
<1> QED BY <1>1, <1>3, <1>4, <1>6 DEF TypeOK, streamVars, feedVars

LEMMA OpenTyped ==
  ASSUME TypeOK, NEW k \in running, OpenConnection(k)
  PROVE  TypeOK'
<1>1. /\ ExchangeTypeOK' /\ version' = version /\ started' = started /\ version \in Nat
      /\ UNCHANGED <<quotes, listeners, inbox, shown, broke>>
  BY Opened DEF TypeOK, ExchangeTypeOK, Registered, exchangeVars, feedVars
<1>2. /\ owner' \in Seq(1..started') /\ Conns' \subseteq 1..MaxConns /\ link' \subseteq Conns'
      /\ asked' \in [Conns' -> SUBSET Markets] /\ wire' \in [Conns' -> Seq(Messages)]
      /\ router' \in [Conns' -> Routers]
  BY Opened, <1>1 DEF TypeOK
<1>3. \A n \in Conns' :
         /\ router'[n].round <= router'[n].seen /\ router'[n].seen <= version'
         /\ router'[n].todo \subseteq DOMAIN router'[n].book
  <2>1. \A n \in Conns : router'[n] = router[n]
    BY Opened
  <2>2. Conns' = Conns \cup {Len(owner) + 1} /\ router'[Len(owner) + 1] = NewRouter
    BY Opened
  <2> QED BY <1>1, <2>1, <2>2 DEF TypeOK, NewRouter, RouterAt
<1> QED BY <1>1, <1>2, <1>3 DEF TypeOK

LEMMA ReadTyped ==
  ASSUME TypeOK, NEW n \in Conns, NEW m \in Markets, ReadMessage(n, m)
  PROVE  /\ TypeOK' /\ DOMAIN wire' = Conns
         /\ Len(wire'[n]) = Len(wire[n]) + 1 /\ \A i \in 1..Len(wire[n]) : wire'[n][i] = wire[n][i]
         /\ \A o \in Conns \ {n} : wire'[o] = wire[o]
<1> DEFINE msg == [sym |-> m, quote |-> quotes'[m]]
<1>1. quotes' \in [Markets -> Nat]
  BY DEF TypeOK, ReadMessage
<1>2. msg \in Messages
  BY <1>1 DEF Messages
<1>3. wire' = [wire EXCEPT ![n] = Append(wire[n], msg)] /\ wire \in [Conns -> Seq(Messages)]
  BY DEF TypeOK, ReadMessage
<1> HIDE DEF msg
<1>4. wire' \in [Conns -> Seq(Messages)]
  BY <1>2, <1>3
<1>5. /\ Len(wire'[n]) = Len(wire[n]) + 1 /\ \A i \in 1..Len(wire[n]) : wire'[n][i] = wire[n][i]
      /\ \A o \in Conns \ {n} : wire'[o] = wire[o]
  BY <1>2, <1>3
<1>6. UNCHANGED <<exchangeVars, owner, link, asked, router, listeners, inbox, shown, broke>> /\ Conns' = Conns
  BY DEF ReadMessage, connVars, feedVars, Conns
<1> QED BY <1>1, <1>4, <1>5, <1>6 DEF TypeOK, ExchangeTypeOK, Registered, exchangeVars

LEMMA RouterTyped ==
  ASSUME TypeOK, RouterInv, NEW n \in Conns, RouterStep(n)
  PROVE  TypeOK'
<1>1. /\ UNCHANGED <<exchangeVars, owner, link, wire, quotes, inbox, shown, broke>>
      /\ Conns' = Conns
  BY DEF RouterStep, RouterWakes, CloneRegistry, BridgePair, AfterConnection, streamVars, feedVars, Conns
<1>2. Moves(n)
  BY WakesRouter, ClonesRouter, BridgesRouter, AsksRouter DEF RouterStep
<1>3. /\ router'[n].round <= router'[n].seen /\ router'[n].seen <= version
      /\ router'[n].todo \subseteq DOMAIN router'[n].book
  <2>1. /\ router[n].round <= router[n].seen /\ router[n].seen <= version
        /\ router[n].todo \subseteq DOMAIN router[n].book
        /\ router[n].round \in Nat /\ router[n].seen \in Nat /\ version \in Nat
    BY DEF TypeOK, ExchangeTypeOK, Routers
  <2>2. CASE RouterWakes(n)
    <3>1. router[n].seen # version
      BY <2>2 DEF RouterWakes
    <3> QED BY <2>1, <2>2, <3>1, WakesRouter
  <2>3. CASE CloneRegistry(n)
    BY <2>1, <2>3, ClonesRouter DEF Registered
  <2>4. ASSUME NEW s, BridgePair(n, s)
        PROVE  /\ router'[n].round <= router'[n].seen /\ router'[n].seen <= version
               /\ router'[n].todo \subseteq DOMAIN router'[n].book
    BY <2>1, <2>4, BridgesRouter
  <2>5. CASE AfterConnection(n)
    BY <2>1, <2>5, AsksRouter
  <2> QED BY <2>2, <2>3, <2>4, <2>5 DEF RouterStep
<1>4. asked' \in [Conns -> SUBSET Markets]
  <2>1. MarketsOf(DOMAIN router[n].book) \in SUBSET Markets
    BY DEF TypeOK, Routers, Books, MarketsOf, Markets
  <2>2. asked \in [Conns -> SUBSET Markets]
    BY DEF TypeOK
  <2> HIDE DEF MarketsOf, Markets
  <2> QED BY <2>1, <2>2 DEF RouterStep, RouterWakes, CloneRegistry, BridgePair, AfterConnection
<1>5. DOMAIN listeners' \subseteq Ids /\ listeners' \in [DOMAIN listeners' -> Listeners]
  <2>1. CASE UNCHANGED listeners
    BY <2>1 DEF TypeOK
  <2>2. ASSUME NEW s \in Symbols, BridgePair(n, s)
        PROVE  DOMAIN listeners' \subseteq Ids /\ listeners' \in [DOMAIN listeners' -> Listeners]
    <3>1. /\ n \in 1..MaxConns /\ router[n].round \in Nat /\ router[n].round <= version
          /\ version \in 0..MaxVersion /\ DOMAIN listeners \subseteq Ids
      BY DEF TypeOK, ExchangeTypeOK, Routers
    <3>2. router[n].round >= 1
      BY <2>2 DEF RouterInv, BridgePair
    <3>3. <<n, router[n].round, s>> \in Ids
      BY <3>1, <3>2, MaxVersionAssumption DEF Ids
    <3> QED BY <2>2, <3>1, <3>3, SpawnedListener
  <2> QED BY <2>1, <2>2 DEF RouterStep, RouterWakes, CloneRegistry, AfterConnection, feedVars
<1> QED BY <1>1, <1>2, <1>3, <1>4, <1>5 DEF TypeOK, Moves, ExchangeTypeOK, Registered, exchangeVars

\* Where a listener stands in the channel of its connection.
Position(id) ==
  LET l == listeners[id] IN
  /\ 1 <= l.from /\ l.from <= l.ask /\ l.ask <= Len(Wire(id)) + 1
  /\ l.hold # 0 => l.from <= l.hold /\ l.hold < l.ask

\* The listeners of a router's round are those of the pairs it has bridged; those of
\* other rounds are older.  An identity is never given twice.
ListenerInv ==
  /\ DOMAIN listeners \cap broke = {}
  /\ \A id \in DOMAIN listeners \cup broke :
       /\ id[1] \in Conns /\ id[2] <= router[id[1]].round
       /\ id[2] = router[id[1]].round =>
            router[id[1]].stage # "cancelled" /\ id[3] \in DOMAIN router[id[1]].book \ router[id[1]].todo
  /\ \A n \in Conns : router[n].stage # "cancelled" =>
       \A s \in DOMAIN router[n].book \ router[n].todo :
         <<n, router[n].round, s>> \in DOMAIN listeners \cup broke

\* The channel a listener reads, by its type.
LEMMA WireOf ==
  ASSUME TypeOK, ListenerInv, NEW id \in DOMAIN listeners
  PROVE  /\ id[1] \in Conns /\ Wire(id) \in Seq(Messages) /\ Len(Wire(id)) \in Nat
         /\ \A i \in 1..Len(Wire(id)) : Wire(id)[i] \in Messages
<1>1. id[1] \in Conns
  BY DEF ListenerInv
<1>2. wire[id[1]] \in Seq(Messages)
  BY <1>1 DEF TypeOK
<1>3. \A i \in 1..Len(wire[id[1]]) : wire[id[1]][i] \in Messages
  BY <1>2
<1> QED BY <1>1, <1>2, <1>3 DEF Wire

LEMMA ListenerTyped ==
  ASSUME TypeOK, ListenerInv, NEW id \in DOMAIN listeners, Position(id), ListenerStep(id)
  PROVE  TypeOK'
<1>1. UNCHANGED <<exchangeVars, connVars, streamVars, shown>> /\ Conns' = Conns
  BY DEF ListenerStep, RecvMessage, ForwardPrice, ReceiverFails, ListenerStops, connVars, Conns
<1>2. CASE RecvMessage(id)
  BY <1>1, <1>2, RecvListener
  DEF RecvMessage, Goes, TypeOK, ExchangeTypeOK, Registered, exchangeVars, connVars, streamVars
<1>3. CASE ForwardPrice(id)
  <2> DEFINE p == listeners[id].to
             msg == Wire(id)[listeners[id].hold]
  <2>1. msg \in Messages
    <3>1. listeners[id].hold \in 1..Len(Wire(id))
      BY <1>3, ListenerFields, WireOf DEF ForwardPrice, Position
    <3> QED BY <3>1, WireOf
  <2>2. p \in Pairs /\ inbox[p] \in Seq(Messages) /\ Len(inbox[p]) < InboxSize
    BY <1>3, ListenerFields DEF TypeOK, ForwardPrice, HasRoom
  <2>3. inbox' = [inbox EXCEPT ![p] = Append(inbox[p], msg)]
    BY <1>3 DEF ForwardPrice
  <2> HIDE DEF msg, p
  <2>4. Append(inbox[p], msg) \in Seq(Messages) /\ Len(Append(inbox[p], msg)) <= InboxSize
    BY <2>1, <2>2, SeqAppended, InboxAssumption
  <2>5. inbox' \in [Pairs -> Seq(Messages)] /\ \A q \in Pairs : Len(inbox'[q]) <= InboxSize
    BY <2>2, <2>3, <2>4 DEF TypeOK
  <2>6. Goes(id) /\ UNCHANGED broke
    BY <1>3, ForwardListener DEF ForwardPrice
  <2> QED BY <1>1, <2>5, <2>6 DEF Goes, TypeOK, ExchangeTypeOK, Registered, exchangeVars, connVars, streamVars
<1>4. CASE ReceiverFails(id) \/ ListenerStops(id)
  <2>1. Ends(id) /\ UNCHANGED inbox /\ broke' \subseteq broke \cup {id}
    BY <1>4 DEF ReceiverFails, ListenerStops
  <2>2. DOMAIN listeners' \subseteq Ids /\ listeners' \in [DOMAIN listeners' -> Listeners] /\ broke' \subseteq Ids
    BY <2>1, EndedListener DEF TypeOK
  <2> QED BY <1>1, <2>1, <2>2 DEF TypeOK, ExchangeTypeOK, Registered, exchangeVars, connVars, streamVars
<1> QED BY <1>2, <1>3, <1>4 DEF ListenerStep

LEMMA TakeTyped ==
  ASSUME TypeOK, NEW p \in Pairs, TakePrice(p)
  PROVE  TypeOK'
<1>1. inbox[p] \in Seq(Messages) /\ inbox[p] # <<>> /\ Len(inbox[p]) <= InboxSize
  BY DEF TypeOK, TakePrice
<1>2. /\ Tail(inbox[p]) \in Seq(Messages) /\ Len(Tail(inbox[p])) <= InboxSize
      /\ Head(inbox[p]) \in Messages
  BY <1>1, SeqTail, InboxAssumption
<1>3. Head(inbox[p]).quote \in Nat
  BY <1>2 DEF Messages
<1>4. shown' = [shown EXCEPT ![p] = Head(inbox[p]).quote] /\ inbox' = [inbox EXCEPT ![p] = Tail(inbox[p])]
  BY DEF TakePrice
<1>5. shown' \in [Pairs -> Nat]
  BY <1>3, <1>4 DEF TypeOK
<1>6. inbox' \in [Pairs -> Seq(Messages)] /\ \A q \in Pairs : Len(inbox'[q]) <= InboxSize
  BY <1>2, <1>4 DEF TypeOK
<1>7. UNCHANGED <<exchangeVars, connVars, streamVars, listeners, broke>> /\ Conns' = Conns
  BY DEF TakePrice, connVars, Conns
<1> QED BY <1>5, <1>6, <1>7 DEF TypeOK, ExchangeTypeOK, Registered, exchangeVars, connVars, streamVars
--------------------------------------------------------------------------------
(* The registry and the routers *)

LEMMA SendersStep ==
  ASSUME ExchangeTypeOK, SendersFiled, [Next]_vars
  PROVE  SendersFiled'
<1>1. CASE UNCHANGED exchangeVars
  BY <1>1 DEF exchangeVars, SendersFiled, Registered
<1> QED BY <1>1, ExchangeSteps, AddPairFiles, RemovePairFiles, WebsocketStopsFiles

LEMMA FeedsStep ==
  ASSUME ExchangeTypeOK, OnlyLastIsUnfed, [Next]_vars
  PROVE  OnlyLastIsUnfed'
<1>1. CASE UNCHANGED exchangeVars
  BY <1>1 DEF exchangeVars, OnlyLastIsUnfed, Registered
<1> QED BY <1>1, ExchangeSteps, AddPairFeeds, RemovePairFeeds, WebsocketStopsFeeds

\* Who changes the routers and what was asked for.
LEMMA RouterSteps ==
  ASSUME [Next]_vars
  PROVE  \/ UNCHANGED <<owner, asked, router>> /\ link' \subseteq link
         \/ \E k \in running : OpenConnection(k)
         \/ \E n \in Conns : RouterStep(n)
<1>1. CASE UNCHANGED vars
  BY <1>1 DEF vars, connVars
<1>2. CASE ChangeRegistry
  BY <1>2 DEF ChangeRegistry, connVars
<1>3. ASSUME NEW k, StopWebsocket(k) PROVE UNCHANGED <<owner, asked, router>> /\ link' \subseteq link
  BY <1>3 DEF StopWebsocket
<1>4. ASSUME NEW n \in Conns, Disconnect(n) \/ \E m \in Markets : ReadMessage(n, m)
      PROVE  UNCHANGED <<owner, asked, router>> /\ link' \subseteq link
  BY <1>4 DEF Disconnect, ReadMessage, connVars
<1>5. ASSUME NEW id, ListenerStep(id) PROVE UNCHANGED <<owner, asked, router, link>>
  BY <1>5 DEF ListenerStep, RecvMessage, ForwardPrice, ReceiverFails, ListenerStops, connVars
<1>6. ASSUME NEW p, TakePrice(p) PROVE UNCHANGED <<owner, asked, router, link>>
  BY <1>6 DEF TakePrice, connVars
<1> QED BY <1>1, <1>2, <1>3, <1>4, <1>5, <1>6 DEF Next

LEMMA RouterInvStep ==
  ASSUME TypeOK, SendersFiled, RouterInv, [Next]_vars
  PROVE  RouterInv'
<1>1. CASE UNCHANGED <<owner, asked, router>> /\ link' \subseteq link
  BY <1>1 DEF RouterInv, Conns
<1>2. ASSUME NEW k \in running, OpenConnection(k) PROVE RouterInv'
  <2> DEFINE new == Len(owner) + 1
  <2>1. /\ Conns' = Conns \cup {new} /\ link' = link \cup {new} /\ new \notin Conns
        /\ router'[new] = NewRouter /\ \A n \in Conns : router'[n] = router[n] /\ asked'[n] = asked[n]
    BY <1>2, Opened
  <2> HIDE DEF new
  <2> QED BY <2>1 DEF RouterInv, NewRouter, RouterAt, NoEntries, MarketsOf
<1>3. ASSUME NEW n \in Conns, RouterStep(n) PROVE RouterInv'
  <2>1. UNCHANGED <<owner, link>> /\ Conns' = Conns /\ Moves(n)
    BY <1>3, WakesRouter, ClonesRouter, BridgesRouter, AsksRouter
    DEF RouterStep, RouterWakes, CloneRegistry, BridgePair, AfterConnection, Conns
  <2>2. /\ \A o \in Conns \ {n} : asked'[o] = asked[o]
        /\ router[n].round \in Nat /\ asked \in [Conns -> SUBSET Markets]
    BY <1>3 DEF TypeOK, Routers, RouterStep, RouterWakes, CloneRegistry, BridgePair, AfterConnection
  <2> SUFFICES
        /\ router'[n].stage # "bridging" => router'[n].todo = {}
        /\ router'[n].stage # "waiting" => router'[n].round >= 1
        /\ \A s \in DOMAIN router'[n].book : Symbol[router'[n].book[s]] = s
        /\ router'[n].stage = "waiting" /\ n \in link => MarketsOf(DOMAIN router'[n].book) \subseteq asked'[n]
    BY <2>1, <2>2 DEF RouterInv, Moves
  <2>3. CASE RouterWakes(n)
    BY <2>2, <2>3, WakesRouter DEF NoEntries
  <2>4. CASE CloneRegistry(n)
    BY <2>4, ClonesRouter DEF RouterInv, CloneRegistry, SendersFiled, Registered
  <2>5. ASSUME NEW s, BridgePair(n, s)
        PROVE  /\ router'[n].stage # "bridging" => router'[n].todo = {}
               /\ router'[n].stage # "waiting" => router'[n].round >= 1
               /\ \A t \in DOMAIN router'[n].book : Symbol[router'[n].book[t]] = t
               /\ router'[n].stage = "waiting" /\ n \in link =>
                    MarketsOf(DOMAIN router'[n].book) \subseteq asked'[n]
    BY <2>5, BridgesRouter DEF RouterInv, BridgePair
  <2>6. CASE AfterConnection(n)
    BY <2>2, <2>6, AsksRouter DEF RouterInv, AfterConnection
  <2> QED BY <1>3, <2>3, <2>4, <2>5, <2>6 DEF RouterStep
<1> QED BY <1>1, <1>2, <1>3, RouterSteps
--------------------------------------------------------------------------------
(* The listeners of a round *)

\* Who changes which listeners there are.
LEMMA ListenerSteps ==
  ASSUME [Next]_vars
  PROVE  \/ UNCHANGED <<owner, router, listeners, broke>>
         \/ \E k \in running : OpenConnection(k)
         \/ \E n \in Conns : RouterStep(n)
         \/ \E id \in DOMAIN listeners : ListenerStep(id)
<1>1. CASE UNCHANGED vars
  BY <1>1 DEF vars, connVars, feedVars
<1>2. CASE ChangeRegistry
  BY <1>2 DEF ChangeRegistry, connVars, feedVars
<1>3. ASSUME NEW k, StopWebsocket(k) PROVE UNCHANGED <<owner, router, listeners, broke>>
  BY <1>3 DEF StopWebsocket, feedVars
<1>4. ASSUME NEW n \in Conns, Disconnect(n) \/ \E m \in Markets : ReadMessage(n, m)
      PROVE  UNCHANGED <<owner, router, listeners, broke>>
  BY <1>4 DEF Disconnect, ReadMessage, connVars, feedVars
<1>5. ASSUME NEW p, TakePrice(p) PROVE UNCHANGED <<owner, router, listeners, broke>>
  BY <1>5 DEF TakePrice, connVars
<1> QED BY <1>1, <1>2, <1>3, <1>4, <1>5 DEF Next

LEMMA ListenerInvStep ==
  ASSUME TypeOK, RouterInv, ListenerInv, [Next]_vars
  PROVE  ListenerInv'
<1>1. CASE UNCHANGED <<owner, router, listeners, broke>>
  BY <1>1 DEF ListenerInv, Conns
<1>2. ASSUME NEW k \in running, OpenConnection(k) PROVE ListenerInv'
  <2> DEFINE new == Len(owner) + 1
  <2>1. /\ Conns' = Conns \cup {new} /\ new \notin Conns /\ UNCHANGED <<listeners, broke>>
        /\ router'[new] = NewRouter /\ \A n \in Conns : router'[n] = router[n]
    BY <1>2, Opened DEF feedVars
  <2> HIDE DEF new
  <2> QED BY <2>1 DEF ListenerInv, NewRouter, RouterAt, NoEntries
<1>3. ASSUME NEW n \in Conns, RouterStep(n) PROVE ListenerInv'
  <2>1. UNCHANGED <<owner, broke>> /\ Conns' = Conns /\ Moves(n) /\ router[n].round \in Nat
    BY <1>3, WakesRouter, ClonesRouter, BridgesRouter, AsksRouter
    DEF RouterStep, RouterWakes, CloneRegistry, BridgePair, AfterConnection, Conns, feedVars, TypeOK, Routers
  <2>2. \A id \in DOMAIN listeners \cup broke : id[2] \in Nat
    BY DEF TypeOK, Ids
  <2>3. CASE RouterWakes(n)
    <3>1. UNCHANGED listeners
      BY <2>3 DEF RouterWakes, feedVars
    <3> QED BY <2>1, <2>2, <2>3, <3>1, WakesRouter DEF ListenerInv, Moves
  <2>4. CASE CloneRegistry(n)
    <3>1. UNCHANGED listeners /\ router[n].stage = "cancelled"
      BY <2>4 DEF CloneRegistry, feedVars
    <3> QED BY <2>1, <2>4, <3>1, ClonesRouter DEF ListenerInv, Moves, Registered
  <2>5. ASSUME NEW s, BridgePair(n, s) PROVE ListenerInv'
    <3> DEFINE id == <<n, router[n].round, s>>
    <3>1. id \notin DOMAIN listeners \cup broke
      BY <2>5 DEF ListenerInv, BridgePair
    <3>2. s \in DOMAIN router[n].book /\ DOMAIN listeners' = DOMAIN listeners \cup {id}
      BY <2>5, SpawnedListener
    <3>3. router[n].stage = "bridging"
      BY <2>5 DEF RouterInv, BridgePair
    <3>4. id[1] = n /\ id[2] = router[n].round /\ id[3] = s
      OBVIOUS
    <3>5. DOMAIN router'[n].book \ router'[n].todo = (DOMAIN router[n].book \ router[n].todo) \cup {s}
      BY <2>5, <3>2, BridgesRouter
    <3> HIDE DEF id
    <3>6. DOMAIN listeners' \cap broke' = {}
      BY <2>1, <3>1, <3>2 DEF ListenerInv
    <3>7. ASSUME NEW l \in DOMAIN listeners' \cup broke'
          PROVE  /\ l[1] \in Conns /\ l[2] <= router'[l[1]].round
                 /\ l[2] = router'[l[1]].round =>
                      /\ router'[l[1]].stage # "cancelled"
                      /\ l[3] \in DOMAIN router'[l[1]].book \ router'[l[1]].todo
      <4>1. CASE l = id
        BY <2>1, <2>5, <3>3, <3>4, <3>5, <4>1, BridgesRouter
      <4>2. CASE l \in DOMAIN listeners \cup broke
        BY <2>1, <2>5, <3>5, <4>2, BridgesRouter DEF ListenerInv, Moves
      <4> QED BY <2>1, <3>2, <4>1, <4>2
    <3>8. ASSUME NEW o \in Conns, router'[o].stage # "cancelled",
                 NEW t \in DOMAIN router'[o].book \ router'[o].todo
          PROVE  <<o, router'[o].round, t>> \in DOMAIN listeners' \cup broke'
      <4>1. CASE o = n
        <5>1. router'[n].round = router[n].round
          BY <2>5, BridgesRouter
        <5>2. CASE t = s
          BY <3>2, <4>1, <5>1, <5>2 DEF id
        <5>3. CASE t \in DOMAIN router[n].book \ router[n].todo
          BY <2>1, <3>2, <3>3, <4>1, <5>1, <5>3 DEF ListenerInv
        <5> QED BY <3>5, <3>8, <4>1, <5>2, <5>3
      <4>2. CASE o # n
        BY <2>1, <3>2, <3>8, <4>2 DEF ListenerInv, Moves
      <4> QED BY <4>1, <4>2
    <3> QED BY <2>1, <3>6, <3>7, <3>8 DEF ListenerInv
  <2>6. CASE AfterConnection(n)
    <3>1. UNCHANGED listeners /\ router[n].stage = "bridging" /\ router[n].todo = {}
      BY <2>6 DEF AfterConnection, Bridged, feedVars
    <3> QED BY <2>1, <2>6, <3>1, AsksRouter DEF ListenerInv, Moves
  <2> QED BY <1>3, <2>3, <2>4, <2>5, <2>6 DEF RouterStep
<1>4. ASSUME NEW id \in DOMAIN listeners, ListenerStep(id) PROVE ListenerInv'
  <2>1. UNCHANGED <<owner, router>> /\ Conns' = Conns
    BY <1>4 DEF ListenerStep, RecvMessage, ForwardPrice, ReceiverFails, ListenerStops, connVars, Conns
  <2>2. CASE RecvMessage(id) \/ ForwardPrice(id)
    <3>1. DOMAIN listeners' = DOMAIN listeners /\ UNCHANGED broke
      BY <2>2, RecvListener, ForwardListener DEF Goes, RecvMessage, ForwardPrice
    <3> QED BY <2>1, <3>1 DEF ListenerInv
  <2>3. CASE ReceiverFails(id)
    <3>1. DOMAIN listeners' = DOMAIN listeners \ {id} /\ broke' = broke \cup {id}
      BY <2>3, EndedListener DEF ReceiverFails
    <3>2. DOMAIN listeners' \cup broke' = DOMAIN listeners \cup broke /\ DOMAIN listeners' \cap broke' = {}
      BY <3>1 DEF ListenerInv
    <3> QED BY <2>1, <3>2 DEF ListenerInv
  <2>4. CASE ListenerStops(id)
    <3>1. DOMAIN listeners' = DOMAIN listeners \ {id} /\ UNCHANGED broke /\ id[2] < router[id[1]].round
      BY <2>4, EndedListener DEF ListenerStops, Cancelled
    <3>2. ASSUME NEW n \in Conns, NEW s PROVE <<n, router[n].round, s>> # id
      <4>1. router[n].round \in Nat
        BY DEF TypeOK, Routers
      <4> QED BY <3>1, <4>1
    <3> QED BY <2>1, <3>1, <3>2 DEF ListenerInv
  <2> QED BY <1>4, <2>2, <2>3, <2>4 DEF ListenerStep
<1> QED BY <1>1, <1>2, <1>3, <1>4, ListenerSteps
--------------------------------------------------------------------------------
(* What a listener forwards *)

ForwardInv == \A id \in DOMAIN listeners : Position(id)

\* The channels only grow: a message that was broadcast stays where it is.
LEMMA WireGrows ==
  ASSUME TypeOK, [Next]_vars, NEW n \in Conns
  PROVE  /\ Len(wire[n]) \in Nat /\ Len(wire'[n]) \in Nat /\ Len(wire[n]) <= Len(wire'[n])
         /\ \A i \in 1..Len(wire[n]) : wire'[n][i] = wire[n][i]
<1>1. wire[n] \in Seq(Messages) /\ Len(wire[n]) \in Nat
  BY DEF TypeOK
<1>2. CASE wire' = wire
  BY <1>1, <1>2
<1>3. ASSUME NEW k \in running, OpenConnection(k) PROVE wire'[n] = wire[n]
  BY <1>3, Opened
<1>4. ASSUME NEW o \in Conns, NEW m \in Markets, ReadMessage(o, m)
      PROVE  IF o = n THEN Len(wire'[n]) = Len(wire[n]) + 1 /\ \A i \in 1..Len(wire[n]) : wire'[n][i] = wire[n][i]
                      ELSE wire'[n] = wire[n]
  BY <1>4, ReadTyped
<1>5. \/ wire' = wire
      \/ \E k \in running : OpenConnection(k)
      \/ \E o \in Conns, m \in Markets : ReadMessage(o, m)
  <2>1. CASE UNCHANGED vars
    BY <2>1 DEF vars, streamVars
  <2>2. CASE ChangeRegistry
    BY <2>2 DEF ChangeRegistry, streamVars
  <2>3. ASSUME NEW k, StopWebsocket(k) PROVE wire' = wire
    BY <2>3 DEF StopWebsocket, streamVars
  <2>4. ASSUME NEW o \in Conns, Disconnect(o) \/ RouterStep(o) PROVE wire' = wire
    BY <2>4 DEF Disconnect, RouterStep, RouterWakes, CloneRegistry, BridgePair, AfterConnection, streamVars
  <2>5. ASSUME NEW id, ListenerStep(id) PROVE wire' = wire
    BY <2>5 DEF ListenerStep, RecvMessage, ForwardPrice, ReceiverFails, ListenerStops, streamVars
  <2>6. ASSUME NEW p, TakePrice(p) PROVE wire' = wire
    BY <2>6 DEF TakePrice, streamVars
  <2> QED BY <2>1, <2>2, <2>3, <2>4, <2>5, <2>6 DEF Next
<1> QED BY <1>1, <1>2, <1>3, <1>4, <1>5

LEMMA DueFinite ==
  ASSUME TypeOK, NEW id \in DOMAIN listeners
  PROVE  IsFiniteSet(Due(id)) /\ Cardinality(Due(id)) \in Nat
<1>1. IsFiniteSet(listeners[id].from..(listeners[id].ask - 1))
  BY ListenerFields, FS_Interval
<1>2. Due(id) \in SUBSET (listeners[id].from..(listeners[id].ask - 1))
  BY DEF Due
<1> QED BY <1>1, <1>2, FS_Subset, FS_CardinalityType

\* A listener that stays where it is has the same messages behind it.
LEMMA Stays ==
  ASSUME TypeOK, ListenerInv, [Next]_vars, NEW id \in DOMAIN listeners, Position(id),
         listeners'[id].from = listeners[id].from, listeners'[id].ask = listeners[id].ask
  PROVE  /\ Due(id)' = Due(id)
         /\ listeners'[id].hold \in {0, listeners[id].hold} => Position(id)'
<1>1. id[1] \in Conns
  BY DEF ListenerInv
<1>2. /\ Len(Wire(id)) \in Nat /\ Len(Wire(id)') \in Nat /\ Len(Wire(id)) <= Len(Wire(id)')
      /\ \A i \in 1..Len(Wire(id)) : Wire(id)'[i] = Wire(id)[i]
  BY <1>1, WireGrows DEF Wire
<1>3. /\ 1 <= listeners[id].from /\ listeners[id].ask <= Len(Wire(id)) + 1
      /\ listeners[id].from \in Nat /\ listeners[id].ask \in Nat
  BY ListenerFields DEF Position
<1>4. listeners[id].from..(listeners[id].ask - 1) \subseteq 1..Len(Wire(id))
  BY <1>2, <1>3
<1>5. Due(id)' = Due(id)
  BY <1>2, <1>4 DEF Due
<1>6. listeners'[id].hold \in {0, listeners[id].hold} => Position(id)'
  BY <1>2, <1>3 DEF Position
<1> QED BY <1>5, <1>6

\* A listener that receives has the message behind it; it is due when its symbol fits.
LEMMA Receives ==
  ASSUME TypeOK, ListenerInv, NEW id \in DOMAIN listeners, Position(id), RecvMessage(id)
  PROVE  LET a == listeners[id].ask IN
         /\ Position(id)'
         /\ a \notin Due(id) /\ a \in Nat \ {0}
         /\ Due(id)' = IF Wire(id)[a].sym = id[3] THEN Due(id) \cup {a} ELSE Due(id)
<1> DEFINE f == listeners[id].from
           a == listeners[id].ask
<1>1. wire' = wire
  BY DEF RecvMessage, streamVars
<1>2. /\ f \in Nat /\ a \in Nat /\ 1 <= f /\ f <= a /\ a <= Len(Wire(id)) /\ Len(Wire(id)) \in Nat
  BY ListenerFields, WireOf, CapacityAssumption DEF Position, RecvMessage, Received, Oldest
<1>3. /\ listeners'[id].from = f /\ listeners'[id].ask = a + 1
      /\ listeners'[id].hold = IF Wire(id)[a].sym = id[3] THEN a ELSE 0
  BY RecvListener
<1> HIDE DEF f, a
<1>4. f..(a + 1 - 1) = (f..(a - 1)) \cup {a} /\ a \notin f..(a - 1)
  BY <1>2
<1>5. Due(id) = {i \in f..(a - 1) : Wire(id)[i].sym = id[3]}
  BY DEF Due, f, a
<1>6. Due(id)' = {i \in f..(a + 1 - 1) : Wire(id)[i].sym = id[3]}
  BY <1>1, <1>2, <1>3 DEF Due, Wire
<1>7. Due(id)' = (IF Wire(id)[a].sym = id[3] THEN Due(id) \cup {a} ELSE Due(id)) /\ a \notin Due(id)
  BY <1>4, <1>5, <1>6
<1>8. Position(id)'
  BY <1>1, <1>2, <1>3 DEF Position, Wire
<1> QED BY <1>2, <1>7, <1>8 DEF a

\* What becomes of a listener in one step.
LEMMA ListenerFate ==
  ASSUME TypeOK, [Next]_vars, NEW id \in DOMAIN listeners'
  PROVE  \/ id \in DOMAIN listeners /\ listeners'[id] = listeners[id]
         \/ id \in DOMAIN listeners /\ (RecvMessage(id) \/ ForwardPrice(id))
         \/ \E n \in Conns, s \in Symbols : BridgePair(n, s) /\ id = <<n, router[n].round, s>>
<1>1. CASE UNCHANGED listeners
  BY <1>1
<1>2. ASSUME NEW k \in running, OpenConnection(k) PROVE UNCHANGED listeners
  BY <1>2 DEF OpenConnection, feedVars
<1>3. ASSUME NEW n \in Conns, RouterStep(n), ~UNCHANGED listeners
      PROVE  \E s \in Symbols : BridgePair(n, s)
  BY <1>3 DEF RouterStep, RouterWakes, CloneRegistry, AfterConnection, feedVars
<1>4. ASSUME NEW n \in Conns, NEW s \in Symbols, BridgePair(n, s)
      PROVE  \/ id \in DOMAIN listeners /\ listeners'[id] = listeners[id]
             \/ id = <<n, router[n].round, s>>
  <2> DEFINE new == <<n, router[n].round, s>>
  <2>1. /\ DOMAIN listeners' = DOMAIN listeners \cup {new}
        /\ \A l \in DOMAIN listeners \ {new} : listeners'[l] = listeners[l]
    BY <1>4, SpawnedListener
  <2> HIDE DEF new
  <2> QED BY <2>1 DEF new
<1>5. ASSUME NEW l \in DOMAIN listeners, ListenerStep(l)
      PROVE  \/ id \in DOMAIN listeners /\ listeners'[id] = listeners[id]
             \/ id = l /\ (RecvMessage(l) \/ ForwardPrice(l))
  <2>1. CASE RecvMessage(l) \/ ForwardPrice(l)
    BY <2>1, RecvListener, ForwardListener DEF Goes
  <2>2. CASE ReceiverFails(l) \/ ListenerStops(l)
    BY <2>2, EndedListener DEF ReceiverFails, ListenerStops
  <2> QED BY <1>5, <2>1, <2>2 DEF ListenerStep
<1> QED BY <1>1, <1>2, <1>3, <1>4, <1>5, ListenerSteps

Forwards(id) ==
  /\ listeners[id].count + (IF listeners[id].hold # 0 THEN 1 ELSE 0) = Cardinality(Due(id))
  /\ Symbol[listeners[id].to] = id[3]

LEMMA ForwardStep ==
  ASSUME TypeOK, RouterInv, ListenerInv, ForwardInv, ForwardsItsSymbol, [Next]_vars
  PROVE  ForwardInv' /\ ForwardsItsSymbol'
<1> SUFFICES ASSUME NEW id \in DOMAIN listeners' PROVE Position(id)' /\ Forwards(id)'
  BY DEF ForwardInv, ForwardsItsSymbol, Forwards
<1>1. id \in DOMAIN listeners => Position(id) /\ Forwards(id)
  BY DEF ForwardInv, ForwardsItsSymbol, Forwards
<1>2. CASE id \in DOMAIN listeners /\ listeners'[id] = listeners[id]
  BY <1>1, <1>2, Stays DEF Forwards
<1>3. CASE id \in DOMAIN listeners /\ RecvMessage(id)
  <2> DEFINE a == listeners[id].ask
             fits == Wire(id)[a].sym = id[3]
  <2>1. /\ listeners'[id].count = listeners[id].count /\ listeners'[id].to = listeners[id].to
        /\ listeners'[id].hold = IF fits THEN a ELSE 0
    BY <1>3, RecvListener
  <2>2. listeners[id].hold = 0 /\ listeners[id].count \in Nat
    BY <1>3, ListenerFields DEF RecvMessage
  <2>3. /\ a \notin Due(id) /\ a \in Nat \ {0} /\ Position(id)'
        /\ Due(id)' = IF fits THEN Due(id) \cup {a} ELSE Due(id)
    BY <1>1, <1>3, Receives
  <2>4. IsFiniteSet(Due(id)) /\ Cardinality(Due(id)) \in Nat
    BY <1>3, DueFinite
  <2> HIDE DEF a, fits
  <2>5. Cardinality(Due(id) \cup {a}) = Cardinality(Due(id)) + 1
    BY <2>3, <2>4, FS_AddElement
  <2>6. listeners[id].count = Cardinality(Due(id)) /\ Symbol[listeners[id].to] = id[3]
    BY <1>1, <1>3, <2>2 DEF Forwards
  <2>7. Cardinality(Due(id))' = IF fits THEN Cardinality(Due(id)) + 1 ELSE Cardinality(Due(id))
    BY <2>3, <2>5
  <2> QED BY <2>1, <2>2, <2>3, <2>6, <2>7 DEF Forwards
<1>4. CASE id \in DOMAIN listeners /\ ForwardPrice(id)
  <2>1. /\ listeners'[id].from = listeners[id].from /\ listeners'[id].ask = listeners[id].ask
        /\ listeners'[id].to = listeners[id].to /\ listeners'[id].hold = 0
        /\ listeners'[id].count = listeners[id].count + 1
    BY <1>4, ForwardListener
  <2>2. Due(id)' = Due(id) /\ Position(id)'
    BY <1>1, <1>4, <2>1, Stays
  <2>3. listeners[id].hold # 0 /\ listeners[id].count \in Nat
    BY <1>4, ListenerFields DEF ForwardPrice
  <2> QED BY <1>1, <1>4, <2>1, <2>2, <2>3 DEF Forwards
<1>5. ASSUME NEW n \in Conns, NEW s \in Symbols, BridgePair(n, s), id = <<n, router[n].round, s>>
      PROVE  Position(id)' /\ Forwards(id)'
  <2> DEFINE at == Len(wire[n]) + 1
  <2>1. listeners'[id] = [to |-> router[n].book[s], from |-> at, ask |-> at, hold |-> 0, count |-> 0]
        /\ s \in DOMAIN router[n].book
    <3>1. /\ listeners'[<<n, router[n].round, s>>] =
                [to |-> router[n].book[s], from |-> at, ask |-> at, hold |-> 0, count |-> 0]
          /\ s \in DOMAIN router[n].book
      BY <1>5, SpawnedListener
    <3> QED BY <1>5, <3>1, Zenon
  <2>2. wire' = wire /\ id[1] = n /\ id[3] = s
    BY <1>5 DEF BridgePair, streamVars
  <2>3. Len(wire[n]) \in Nat
    BY DEF TypeOK
  <2>4. Due(id)' = {}
    BY <2>1, <2>3 DEF Due
  <2>5. Cardinality(Due(id))' = 0
    BY <2>4, FS_EmptySet
  <2>6. Symbol[router[n].book[s]] = s
    BY <2>1 DEF RouterInv
  <2>7. Position(id)'
    BY <2>1, <2>2, <2>3 DEF Position, Wire
  <2> QED BY <2>1, <2>2, <2>5, <2>6, <2>7 DEF Forwards
<1> QED BY <1>2, <1>3, <1>4, <1>5, ListenerFate
--------------------------------------------------------------------------------
(* Theorems *)

Inv == TypeOK /\ SendersFiled /\ RouterInv /\ ListenerInv /\ ForwardInv /\ ForwardsItsSymbol

LEMMA TypeStep == ASSUME Inv, [Next]_vars PROVE TypeOK'
<1>1. CASE UNCHANGED vars
  BY <1>1, RegistryTyped DEF Inv, vars, connVars
<1>2. CASE ChangeRegistry
  BY <1>2, RegistryTyped DEF Inv, ChangeRegistry, connVars
<1>3. ASSUME NEW k, StopWebsocket(k) PROVE TypeOK'
  BY <1>3, RegistryTyped DEF Inv, StopWebsocket
<1>4. ASSUME NEW n, Disconnect(n) PROVE TypeOK'
  BY <1>4, RegistryTyped DEF Inv, Disconnect
<1>5. ASSUME NEW id \in DOMAIN listeners, ListenerStep(id) PROVE TypeOK'
  BY <1>5, ListenerTyped DEF Inv, ForwardInv
<1> QED BY <1>1, <1>2, <1>3, <1>4, <1>5, OpenTyped, ReadTyped, RouterTyped, TakeTyped DEF Inv, Next

LEMMA InvInit == Init => Inv
<1> SUFFICES ASSUME Init PROVE Inv
  OBVIOUS
<1>1. Conns = {} /\ DOMAIN listeners = {} /\ owner \in Seq(1..started)
  BY DEF Init, Conns, NoEntries
<1>2. ExchangeTypeOK /\ SendersFiled
  BY MaxVersionAssumption DEF Init, ExchangeInit, NoEntries, ExchangeTypeOK, SendersFiled, Registered
<1>3. inbox \in [Pairs -> Seq(Messages)] /\ \A p \in Pairs : Len(inbox[p]) <= InboxSize
  BY InboxAssumption DEF Init
<1>4. listeners \in [DOMAIN listeners -> Listeners]
  BY <1>1 DEF Init, NoEntries
<1>5. quotes \in [Markets -> Nat] /\ shown \in [Pairs -> Nat] /\ broke = {} /\ link = {}
  BY DEF Init
<1>6. /\ asked \in [Conns -> SUBSET Markets] /\ wire \in [Conns -> Seq(Messages)]
      /\ router \in [Conns -> Routers]
  BY <1>1 DEF Init
<1>7. TypeOK
  BY <1>1, <1>2, <1>3, <1>4, <1>5, <1>6 DEF TypeOK
<1>8. RouterInv /\ ListenerInv /\ ForwardInv /\ ForwardsItsSymbol
  BY <1>1, <1>5 DEF RouterInv, ListenerInv, ForwardInv, ForwardsItsSymbol
<1> QED BY <1>2, <1>7, <1>8 DEF Inv

LEMMA InvHolds == Spec => []Inv
<1>1. Inv /\ [Next]_vars => Inv'
  BY TypeStep, SendersStep, RouterInvStep, ListenerInvStep, ForwardStep DEF Inv, TypeOK
<1> QED BY <1>1, InvInit, PTL DEF Spec

\* Every value stays of its type, the registry's versions bound the rounds, the identities
\* of the listeners stay within bounds and no channel outgrows its capacity.
THEOREM TypeCorrect == Spec => []TypeOK
<1>1. Inv => TypeOK BY DEF Inv
<1> QED BY <1>1, InvHolds, PTL

\* Whatever was added and removed, the exchange is without a websocket only while at most
\* one symbol is registered, the last one removed: as long as two symbols are registered,
\* all of them have a websocket.
THEOREM UnfedIsLast == Spec => []OnlyLastIsUnfed
<1>1. Init => OnlyLastIsUnfed
  BY DEF Init, ExchangeInit, NoEntries, OnlyLastIsUnfed, Registered
<1>2. TypeOK /\ OnlyLastIsUnfed /\ [Next]_vars => OnlyLastIsUnfed'
  BY FeedsStep DEF TypeOK
<1> QED BY <1>1, <1>2, TypeCorrect, PTL DEF Spec

\* A router that waits has one listener for each symbol of the registry it saw, no matter
\* which registries it missed and where the cancelled listeners of earlier rounds stand.
THEOREM OneListener == Spec => []OneListenerPerSymbol
<1>1. ASSUME Inv, NEW n \in Conns, router[n].stage = "waiting"
      PROVE  {id \in DOMAIN listeners : id[1] = n /\ ~Cancelled(id)}
               = {<<n, router[n].round, s>> : s \in DOMAIN router[n].book} \ broke
  <2>1. router[n].todo = {} /\ router[n].round \in Nat
    BY <1>1 DEF Inv, RouterInv, TypeOK, Routers
  <2>2. ASSUME NEW id \in DOMAIN listeners, id[1] = n, ~Cancelled(id)
        PROVE  id \in {<<n, router[n].round, s>> : s \in DOMAIN router[n].book} \ broke
    <3>1. id = <<id[1], id[2], id[3]>> /\ id[2] \in Nat
      BY <1>1, IdParts DEF Inv, TypeOK
    <3>2. id[2] = router[n].round /\ id[3] \in DOMAIN router[n].book /\ id \notin broke
      BY <1>1, <2>1, <2>2, <3>1 DEF Inv, ListenerInv, Cancelled
    <3> QED BY <2>2, <3>1, <3>2
  <2>3. ASSUME NEW s \in DOMAIN router[n].book, <<n, router[n].round, s>> \notin broke
        PROVE  /\ <<n, router[n].round, s>> \in DOMAIN listeners
               /\ ~Cancelled(<<n, router[n].round, s>>)
    BY <1>1, <2>1, <2>3 DEF Inv, ListenerInv, Cancelled
  <2> QED BY <2>2, <2>3
<1>2. ASSUME Inv, NEW n \in Conns, router[n].stage = "waiting", n \in link
      PROVE  MarketsOf(DOMAIN router[n].book) \subseteq asked[n]
  BY <1>2 DEF Inv, RouterInv
<1>3. Inv => OneListenerPerSymbol
  BY <1>1, <1>2 DEF OneListenerPerSymbol
<1> QED BY <1>3, InvHolds, PTL

\* A live listener has forwarded exactly the messages of its symbol among those it
\* received, to a socket of that symbol.
THEOREM ForwardsExactly == Spec => []ForwardsItsSymbol
<1>1. Inv => ForwardsItsSymbol BY DEF Inv
<1> QED BY <1>1, InvHolds, PTL
================================================================================
