------------------------------- MODULE PairRouter ------------------------------
(***************************************************************************)
(* From a websocket to the price sockets.  Every connection a websocket    *)
(* task opens has a broadcast channel of its own, a router task            *)
(* (pairs_to_broadcast) and one listener task per registered symbol        *)
(* (create_pair_listener).  The read loop broadcasts each price message;   *)
(* each listener forwards those of its symbol to the sender registered for *)
(* it.  When the registry changes, the router cancels its listeners and    *)
(* spawns new ones on new subscriptions.                                   *)
(*                                                                         *)
(* The router is spawned: it and its listeners outlive their connection.   *)
(* Tasks run in parallel, so any two steps of two tasks interleave.        *)
(*                                                                         *)
(* Binance takes a symbol in any case and names its market in upper case,  *)
(* the listeners compare exactly.  Prices of one market are numbered in    *)
(* the order the server reads them.                                        *)
(***************************************************************************)
EXTENDS BinanceExchange, Broadcast, Sequences, FiniteSets

CONSTANTS
  Market,       \* Market[s]: the symbol Binance writes in the messages asked for with s
  InboxSize,    \* capacity of the channel to a price socket
  CanRemove,    \* whether remove_pair is called; ExchangeManager has no call of it
  MaxConns,     \* bound: connections opened
  MaxReads      \* bound: price messages read, over all connections

ASSUME MarketAssumption == \A s \in Symbols : Market[s] \in Symbols => Market[Market[s]] = Market[s]
ASSUME InboxAssumption == InboxSize \in Nat \ {0}
ASSUME CanRemoveAssumption == CanRemove \in BOOLEAN
ASSUME RouterBounds == MaxConns \in Nat /\ MaxReads \in Nat

VARIABLES
  owner,        \* owner[n]: the websocket task that opened connection n
  link,         \* the connections that are up
  asked,        \* asked[n]: the markets whose prices Binance sends on connection n
  wire,         \* wire[n]: the messages broadcast on connection n, oldest first
  router,       \* router[n]: the router task of connection n
  listeners,    \* the live listener tasks: listeners[id], id = <<n, round, symbol>>
  inbox         \* inbox[p]: the channel to the price socket of p

\* History, never read by an action.
VARIABLES
  quotes,       \* quotes[m]: how many prices of market m were read
  shown,        \* shown[p]: the last price number the socket of p took
  broke         \* the listeners that ended because their receiver failed

connVars   == <<owner, link, asked, router>>
streamVars == <<wire, quotes>>
feedVars   == <<listeners, inbox, shown, broke>>
vars       == <<exchangeVars, connVars, streamVars, feedVars>>

Conns == DOMAIN owner

\* create_binance_subscription_message: asked for in lower case, whatever the name was.
MarketsOf(symbols) == {Market[s] : s \in symbols}

Markets == MarketsOf(Symbols)

\* A router that has marked version v as seen and holds no clone of the registry.
RouterAt(v, r, stage) == [seen |-> v, round |-> r, stage |-> stage, book |-> NoEntries, todo |-> {}]

\* Faulty variant: a new router's receiver has seen the current registry.
NewRouterMarked == RouterAt(version, 0, "waiting")

\* Where a new router stands: its receiver has marked no version as seen, because
\* BinanceExchange only ever borrows from the receiver it is a clone of.
NewRouter == RouterAt(0, 0, "waiting")

Cancelled(id) == id[2] < router[id[1]].round

Reads == SumFunction(quotes)

Init ==
  /\ ExchangeInit
  /\ owner = <<>> /\ link = {} /\ asked = <<>> /\ wire = <<>> /\ router = <<>>
  /\ listeners = NoEntries
  /\ inbox = [p \in Pairs |-> <<>>]
  /\ quotes = [m \in Markets |-> 0]
  /\ shown = [p \in Pairs |-> 0]
  /\ broke = {}
--------------------------------------------------------------------------------
(* The registry (BinanceExchange) and the websocket tasks. *)

ChangeRegistry ==
  /\ \E p \in Pairs : AddPair(p) \/ (CanRemove /\ RemovePair(p))
  /\ UNCHANGED <<connVars, streamVars, feedVars>>

\* connect_async succeeds: channels are created and the router is spawned.
OpenConnection(k) ==
  /\ k \in running
  /\ \A n \in link : owner[n] # k
  /\ Len(owner) < MaxConns
  /\ owner' = Append(owner, k)
  /\ link' = link \cup {Len(owner')}
  /\ asked' = Append(asked, {})
  /\ wire' = Append(wire, <<>>)
  /\ router' = Append(router, NewRouter)
  /\ UNCHANGED <<exchangeVars, quotes, feedVars>>

\* single_websocket_connection returns an error; the select! drops its loops, the
\* router's JoinHandle with them, which detaches the router.
Disconnect(n) ==
  /\ n \in link
  /\ link' = link \ {n}
  /\ UNCHANGED <<exchangeVars, owner, asked, router, streamVars, feedVars>>

\* The task told to stop drops its connection, if it has one.
StopWebsocket(k) ==
  /\ WebsocketStops(k)
  /\ link' = {n \in link : owner[n] # k}
  /\ UNCHANGED <<owner, asked, router, streamVars, feedVars>>

\* The read loop takes a price of m from the websocket and broadcasts it.  Results of
\* subscriptions and texts that are no price are logged only.
ReadMessage(n, m) ==
  /\ n \in link
  /\ m \in asked[n]
  /\ Reads < MaxReads
  /\ quotes' = [quotes EXCEPT ![m] = @ + 1]
  /\ wire' = [wire EXCEPT ![n] = Append(@, [sym |-> m, quote |-> quotes'[m]])]
  /\ UNCHANGED <<exchangeVars, connVars, feedVars>>
--------------------------------------------------------------------------------
(* pairs_to_broadcast *)

\* changed() returns, marking the version as seen; the token of the last round is
\* cancelled and a new one made.  The clone of the last round was dropped at its end: in
\* "waiting" book is history, which the properties compare with the listeners.
RouterWakes(n) ==
  /\ router[n].stage = "waiting"
  /\ router[n].seen # version
  /\ router' = [router EXCEPT ![n] = RouterAt(version, @.round + 1, "cancelled")]
  /\ UNCHANGED <<exchangeVars, owner, link, asked, streamVars, feedVars>>

\* The registry is cloned; a newer version than the one seen makes changed() return again.
CloneRegistry(n) ==
  /\ router[n].stage = "cancelled"
  /\ router' = [router EXCEPT ![n] = [@ EXCEPT !.book = pairs, !.todo = Registered, !.stage = "bridging"]]
  /\ UNCHANGED <<exchangeVars, owner, link, asked, streamVars, feedVars>>

\* One iteration of the loop over the clone, in any order: subscribe and spawn.
BridgePair(n, s) ==
  /\ s \in router[n].todo
  /\ router' = [router EXCEPT ![n].todo = @ \ {s}]
  /\ LET id  == <<n, router[n].round, s>>
         at  == Subscribed(Len(wire[n]))
         new == [to |-> router[n].book[s], from |-> at, ask |-> at, hold |-> 0, count |-> 0]
     IN  listeners' = [l \in DOMAIN listeners \cup {id} |-> IF l = id THEN new ELSE listeners[l]]
  /\ UNCHANGED <<exchangeVars, owner, link, asked, streamVars, inbox, shown, broke>>

\* Faulty variant: the subscription may go out before every pair is bridged.
BridgedSome(n) == router[n].stage = "bridging"

Bridged(n) == router[n].stage = "bridging" /\ router[n].todo = {}

\* Faulty variant: the end of a round marks whatever version is newest by then.
AfterConnectionMarks(n) ==
  /\ Bridged(n)
  /\ router' = [router EXCEPT ![n] = [@ EXCEPT !.stage = "waiting", !.todo = {}, !.seen = version]]
  /\ asked' = IF n \in link THEN [asked EXCEPT ![n] = @ \cup MarketsOf(DOMAIN router[n].book)] ELSE asked
  /\ UNCHANGED <<exchangeVars, owner, link, streamVars, feedVars>>

\* after_connection sends the subscription for the whole clone.  Binance adds it to
\* what it sends; nothing unsubscribes.  Without the connection the send fails, which
\* is ignored.
AfterConnection(n) ==
  /\ Bridged(n)
  /\ router' = [router EXCEPT ![n] = [@ EXCEPT !.stage = "waiting", !.todo = {}]]
  /\ asked' = IF n \in link THEN [asked EXCEPT ![n] = @ \cup MarketsOf(DOMAIN router[n].book)] ELSE asked
  /\ UNCHANGED <<exchangeVars, owner, link, streamVars, feedVars>>

RouterStep(n) ==
  \/ RouterWakes(n)
  \/ CloneRegistry(n)
  \/ \E s \in Symbols : BridgePair(n, s)
  \/ AfterConnection(n)
--------------------------------------------------------------------------------
(* create_pair_listener.  A cancelled listener runs on until its select! polls the *)
(* token, which drops a message it waits to forward.                               *)

Wire(id)   == wire[id[1]]
Ends(id)   == listeners' = Restrict(listeners, DOMAIN listeners \ {id})

\* Faulty variant: the filter is gone, a listener takes every message.
RecvAny(id) ==
  LET l == listeners[id] IN
  /\ l.hold = 0
  /\ Received(l.ask, Len(Wire(id)))
  /\ listeners' = [listeners EXCEPT ![id] = [l EXCEPT !.ask = l.ask + 1, !.hold = l.ask]]
  /\ UNCHANGED <<exchangeVars, connVars, streamVars, inbox, shown, broke>>

\* recv() returns a message; the filter keeps those of the listener's symbol.
RecvMessage(id) ==
  LET l == listeners[id] IN
  /\ l.hold = 0
  /\ Received(l.ask, Len(Wire(id)))
  /\ listeners' = [listeners EXCEPT ![id] =
       [l EXCEPT !.ask = l.ask + 1, !.hold = IF Wire(id)[l.ask].sym = id[3] THEN l.ask ELSE 0]]
  /\ UNCHANGED <<exchangeVars, connVars, streamVars, inbox, shown, broke>>

\* Faulty variant: the channel is taken for unbounded.
HasRoomAlways(p) == TRUE

HasRoom(p) == Len(inbox[p]) < InboxSize

\* Faulty variant: try_send, a price is dropped when the channel is full.
ForwardOrDrop(id) ==
  LET l == listeners[id] IN
  /\ l.hold # 0
  /\ inbox' = IF HasRoom(l.to) THEN [inbox EXCEPT ![l.to] = Append(@, Wire(id)[l.hold])] ELSE inbox
  /\ listeners' = [listeners EXCEPT ![id] = [l EXCEPT !.hold = 0, !.count = IF HasRoom(l.to) THEN @ + 1 ELSE @]]
  /\ UNCHANGED <<exchangeVars, connVars, streamVars, shown, broke>>

\* sender.send() completes once the channel has room.
ForwardPrice(id) ==
  LET l == listeners[id] IN
  /\ l.hold # 0
  /\ HasRoom(l.to)
  /\ inbox' = [inbox EXCEPT ![l.to] = Append(@, Wire(id)[l.hold])]
  /\ listeners' = [listeners EXCEPT ![id] = [l EXCEPT !.hold = 0, !.count = l.count + 1]]
  /\ UNCHANGED <<exchangeVars, connVars, streamVars, shown, broke>>

\* recv() returns Err(Lagged): "Err(_) => break" ends the listener.  Err(Closed) never
\* comes, the router holds a sender.
ReceiverFails(id) ==
  /\ listeners[id].hold = 0
  /\ Lagged(listeners[id].ask, Len(Wire(id)))
  /\ Ends(id)
  /\ broke' = broke \cup {id}
  /\ UNCHANGED <<exchangeVars, connVars, streamVars, inbox, shown>>

ListenerStops(id) ==
  /\ Cancelled(id)
  /\ Ends(id)
  /\ UNCHANGED <<exchangeVars, connVars, streamVars, inbox, shown, broke>>

ListenerStep(id) ==
  \/ RecvMessage(id) \/ ForwardPrice(id) \/ ReceiverFails(id) \/ ListenerStops(id)

\* The price loop of the socket of p takes the next price.
TakePrice(p) ==
  /\ inbox[p] # <<>>
  /\ shown' = [shown EXCEPT ![p] = Head(inbox[p]).quote]
  /\ inbox' = [inbox EXCEPT ![p] = Tail(@)]
  /\ UNCHANGED <<exchangeVars, connVars, streamVars, listeners, broke>>
--------------------------------------------------------------------------------
Next ==
  \/ ChangeRegistry
  \/ \E k \in running : OpenConnection(k) \/ StopWebsocket(k)
  \/ \E n \in Conns : Disconnect(n) \/ RouterStep(n) \/ \E m \in Markets : ReadMessage(n, m)
  \/ \E id \in DOMAIN listeners : ListenerStep(id)
  \/ \E p \in Pairs : TakePrice(p)

Spec == Init /\ [][Next]_vars

Ids == (1..MaxConns) \X (1..MaxVersion) \X Symbols

\* The runtime polls every task that can go on.  Nothing is assumed of the exchange,
\* the network or the registry.
Fairness ==
  /\ \A n \in 1..MaxConns : WF_vars(n \in Conns /\ RouterStep(n))
  /\ \A id \in Ids : WF_vars(id \in DOMAIN listeners /\ ListenerStep(id))
  /\ \A p \in Pairs : WF_vars(TakePrice(p))

FairSpec == Spec /\ Fairness
--------------------------------------------------------------------------------
(* Properties. *)

Messages  == [sym : Markets, quote : Nat]
Books     == UNION {[symbols -> Pairs] : symbols \in SUBSET Symbols}
Routers   == [seen : Nat, round : Nat, stage : {"waiting", "cancelled", "bridging"}, book : Books, todo : SUBSET Symbols]
Listeners == [to : Pairs, from : Nat, ask : Nat, hold : Nat, count : Nat]

TypeOK ==
  /\ ExchangeTypeOK
  /\ owner \in Seq(1..started) /\ Conns \subseteq 1..MaxConns /\ link \subseteq Conns
  /\ asked \in [Conns -> SUBSET Markets]
  /\ wire \in [Conns -> Seq(Messages)]
  /\ router \in [Conns -> Routers]
  /\ \A n \in Conns :
       /\ router[n].round <= router[n].seen /\ router[n].seen <= version
       /\ router[n].todo \subseteq DOMAIN router[n].book
  /\ DOMAIN listeners \subseteq Ids /\ broke \subseteq Ids
  /\ listeners \in [DOMAIN listeners -> Listeners]
  /\ inbox \in [Pairs -> Seq(Messages)] /\ \A p \in Pairs : Len(inbox[p]) <= InboxSize
  /\ quotes \in [Markets -> Nat] /\ shown \in [Pairs -> Nat]

\* A router that waits for the next registry has exactly one listener, not cancelled,
\* for each symbol of the registry it saw last, less those whose receiver failed; and
\* Binance was asked for them (pairs_to_broadcast).
OneListenerPerSymbol ==
  \A n \in Conns : router[n].stage = "waiting" =>
    LET r == router[n].round
        mine == {<<n, r, s>> : s \in DOMAIN router[n].book}
    IN  /\ {id \in DOMAIN listeners : id[1] = n /\ ~Cancelled(id)} = mine \ broke
        /\ n \in link => MarketsOf(DOMAIN router[n].book) \subseteq asked[n]

\* A router at rest that has seen the newest registry serves that one: each symbol of
\* it has a listener that forwards to the sender registered for it now, no other symbol
\* has one, and Binance was asked for them all.  So the registry it clones may be newer
\* than the version it marks as seen, but never older (pairs_to_broadcast: changed(),
\* then borrow()).
ServesCurrentRegistry ==
  \A n \in Conns : router[n].stage = "waiting" /\ router[n].seen = version =>
    LET live == {id \in DOMAIN listeners : id[1] = n /\ ~Cancelled(id)}
    IN  /\ \A id \in live : id[3] \in Registered /\ listeners[id].to = pairs[id[3]]
        /\ \A s \in Registered : <<n, router[n].round, s>> \in live \cup broke
        /\ n \in link => MarketsOf(Registered) \subseteq asked[n]

\* The messages of its symbol that a listener has received.
Due(id) == {i \in listeners[id].from..(listeners[id].ask - 1) : Wire(id)[i].sym = id[3]}

\* A live listener has forwarded, or is about to, exactly the messages of its symbol
\* among those it received, and to a socket of that symbol (create_pair_listener).
ForwardsItsSymbol ==
  \A id \in DOMAIN listeners :
    LET l == listeners[id]
    IN  /\ l.count + (IF l.hold # 0 THEN 1 ELSE 0) = Cardinality(Due(id))
        /\ Symbol[l.to] = id[3]

Undisturbed == version <= 1 /\ Len(owner) <= 1 /\ broke = {}

\* The pairs named as Binance does; a socket of any other is fed by nobody.
Spelled == {p \in Pairs : Market[Symbol[p]] = Symbol[p]}

\* The prices a listener holds or has not received yet, by their numbers.
Ahead(id) ==
  {Wire(id)[i].quote : i \in {j \in DOMAIN Wire(id) :
     Wire(id)[j].sym = id[3] /\ (j = listeners[id].hold \/ j >= listeners[id].ask)}}

\* Until a pair is added or a connection replaced, a socket gets every price read of its
\* market, in the order they were read and none twice: those it has not taken are in its
\* channel, and the rest ahead of the one listener.
OrderedUntilDisturbed ==
  Undisturbed =>
    \A p \in Range(pairs) \cap Spelled :
      LET id == <<1, 1, Symbol[p]>>
      IN  /\ \A i \in 1..Len(inbox[p]) : inbox[p][i].quote = shown[p] + i
          /\ (IF id \in DOMAIN listeners THEN Ahead(id) ELSE {})
               = shown[p] + Len(inbox[p]) + 1 .. quotes[Symbol[p]]

\* The router and its listeners implement SymbolFeed: what is undisturbed is calm, and
\* a socket whose pair is not spelled as Binance does has no market at all.  The feed is
\* one of numbers; that a listener forwards its own symbol's is ForwardsItsSymbol.
Feed == INSTANCE SymbolFeed WITH Sockets <- Pairs, Fed <- [p \in Spelled |-> Symbol[p]], calm <- Undisturbed
FeedSpec == Feed!Spec

\* Every connection that stays up gets every registered symbol asked for and listened
\* to, also one opened after the registry last changed: the router finds a version it
\* has not seen (reconnecting_websocket_connection clones an unmarked receiver).
EveryConnectionSubscribes ==
  \A n \in 1..MaxConns : n \in link ~>
    \/ n \notin link
    \/ \A s \in Registered : Market[s] \in asked[n] /\ <<n, router[n].round, s>> \in DOMAIN listeners \cup broke

\* The newest price read for a registered symbol is the one its socket took last,
\* again and again (README.md: "writes their (normalized) outcome to unix sockets").
NewestPriceForwarded ==
  \A p \in Spelled : []<>(Symbol[p] \in Registered => shown[pairs[Symbol[p]]] = quotes[Symbol[p]])

\* A listener's receive loop only ends when its channel is closed, which takes a
\* router that is gone; no router goes (pair.rs: "Channel closed, this should not
\* happen unless we add more pairs").
ListenersOutliveTraffic == broke = {}
================================================================================
