---------------------------- MODULE BinanceExchange ----------------------------
(***************************************************************************)
(* BinanceExchange: the registry of pairs and the websocket task.  The     *)
(* registry maps a Binance symbol to the sender that feeds a price socket; *)
(* it lives in a watch channel, so every send gives it a new version and   *)
(* the websocket tasks see each version they have not marked as seen.      *)
(* A sender is named by the pair whose socket it feeds.                    *)
(*                                                                         *)
(* The methods have no await and take &mut self, so each is one step.  The *)
(* modules that extend this one say who takes them.                        *)
(***************************************************************************)
EXTENDS Integers, Functions

CONSTANTS
  Pairs,        \* the names given to pairs, such as BTC_USDT or BTCUSDT
  Symbol,       \* Symbol[p]: the name without its separator, get_exchange_matching_pair
  MaxVersion    \* bound: registries sent in one behaviour

ASSUME MaxVersionAssumption == MaxVersion \in Nat

Symbols == {Symbol[p] : p \in Pairs}

VARIABLES
  pairs,        \* the registry: the sender registered for each registered symbol
  version,      \* how many registries were sent on the watch
  interrupt,    \* the websocket task whose stop sender the exchange holds, 0 for None
  started,      \* how many websocket tasks were spawned; they are numbered from 1
  running       \* the websocket tasks that have not ended

exchangeVars == <<pairs, version, interrupt, started, running>>

Registered == DOMAIN pairs

\* HashMap::new()
NoEntries == [key \in {} |-> key]

ExchangeInit ==
  /\ pairs = NoEntries
  /\ version = 0
  /\ interrupt = 0
  /\ started = 0
  /\ running = {}
--------------------------------------------------------------------------------
\* watch::Sender::send
SendRegistry(registry) ==
  /\ version < MaxVersion
  /\ pairs' = registry
  /\ version' = version + 1

\* Faulty variant: the first pair of an empty registry starts the websocket.
EnsureOnFirstPair ==
  IF Registered = {}
  THEN /\ started' = started + 1
       /\ interrupt' = started'
       /\ running' = running \cup {started'}
  ELSE UNCHANGED <<interrupt, started, running>>

\* Spawns reconnecting_websocket_connection unless a stop sender is held.
EnsureWebsocket ==
  IF interrupt = 0
  THEN /\ started' = started + 1
       /\ interrupt' = started'
       /\ running' = running \cup {started'}
  ELSE UNCHANGED <<interrupt, started, running>>

\* Faulty variant: the last sender given for a symbol wins.
AddPairOverwrites(p) ==
  /\ SendRegistry([s \in Registered \cup {Symbol[p]} |-> IF s = Symbol[p] THEN p ELSE pairs[s]])
  /\ EnsureWebsocket

\* A sender for p; it is dropped when the symbol is registered already.
AddPair(p) ==
  \/ /\ Symbol[p] \in Registered
     /\ UNCHANGED exchangeVars
  \/ /\ Symbol[p] \notin Registered
     /\ SendRegistry([s \in Registered \cup {Symbol[p]} |-> IF s = Symbol[p] THEN p ELSE pairs[s]])
     /\ EnsureWebsocket

\* stop_public takes the stop sender and fires it.
StopPublic ==
  /\ interrupt' = 0
  /\ UNCHANGED <<started, running>>

\* Removing the last symbol stops the websocket and returns before the send: the
\* registry in the watch keeps the symbol.
RemovePair(p) ==
  \/ /\ Symbol[p] \notin Registered
     /\ UNCHANGED exchangeVars
  \/ /\ Registered = {Symbol[p]}
     /\ StopPublic
     /\ UNCHANGED <<pairs, version>>
  \/ /\ Symbol[p] \in Registered
     /\ Registered # {Symbol[p]}
     /\ SendRegistry(Restrict(pairs, Registered \ {Symbol[p]}))
     /\ UNCHANGED <<interrupt, started, running>>

\* A websocket task told to stop is polled and ends.
WebsocketStops(k) ==
  /\ k \in running
  /\ k # interrupt
  /\ running' = running \ {k}
  /\ UNCHANGED <<pairs, version, interrupt, started>>
--------------------------------------------------------------------------------
ExchangeTypeOK ==
  /\ Registered \subseteq Symbols /\ pairs \in [Registered -> Pairs]
  /\ version \in 0..MaxVersion
  /\ interrupt \in 0..started
  /\ started \in Nat
  /\ running \subseteq 1..started

\* The exchange is without a websocket only while at most one symbol is registered: the one
\* whose removal stopped it, which remove_pair leaves in the registry and add_pair then
\* refuses.  Any other pair added brings the websocket back, for both (exchange.rs:66, 47).
OnlyLastIsUnfed == interrupt = 0 => \A s, t \in Registered : s = t

\* The sender registered for a symbol is never replaced while the symbol stays
\* registered: a second name of the same symbol does not take over the first one's
\* prices (add_pair's early return).
SenderKept ==
  [][\A s \in Registered \cap DOMAIN pairs' : pairs'[s] = pairs[s]]_exchangeVars
================================================================================
