------------------------- MODULE BinanceExchangeProofs -------------------------
(***************************************************************************)
(* What each method of the exchange preserves, whoever calls it.           *)
(***************************************************************************)
EXTENDS BinanceExchange, TLAPS

\* After add_pair the stop sender belongs to a running websocket task.
LEMMA WebsocketEnsured ==
  ASSUME started \in Nat, interrupt # 0 => interrupt \in running, EnsureWebsocket
  PROVE  started' \in Nat /\ interrupt' # 0 /\ interrupt' \in running'
BY DEF EnsureWebsocket

LEMMA AddPairTyped ==
  ASSUME ExchangeTypeOK, NEW p \in Pairs, AddPair(p) PROVE ExchangeTypeOK'
<1> USE DEF ExchangeTypeOK, Registered, Symbols
<1>1. CASE UNCHANGED exchangeVars BY <1>1 DEF exchangeVars
<1>2. CASE SendRegistry([s \in Registered \cup {Symbol[p]} |-> IF s = Symbol[p] THEN p ELSE pairs[s]])
           /\ EnsureWebsocket
  <2>1. pairs' = [s \in Registered \cup {Symbol[p]} |-> IF s = Symbol[p] THEN p ELSE pairs[s]]
        /\ version < MaxVersion /\ version' = version + 1
    BY <1>2 DEF SendRegistry
  <2>2. version' \in 0..MaxVersion
    BY <2>1, MaxVersionAssumption
  <2>3. started' \in Nat /\ interrupt' \in 0..started' /\ running' \subseteq 1..started'
    <3>1. CASE interrupt = 0
      <4>1. started' = started + 1 /\ interrupt' = started' /\ running' = running \cup {started'}
        BY <1>2, <3>1 DEF EnsureWebsocket
      <4>2. 1..started \subseteq 1..started'
        BY <4>1
      <4> QED BY <4>1, <4>2
    <3>2. CASE interrupt # 0
      BY <1>2, <3>2 DEF EnsureWebsocket
    <3> QED BY <3>1, <3>2
  <2>4. DOMAIN pairs' \subseteq Symbols /\ pairs' \in [DOMAIN pairs' -> Pairs]
    BY <2>1
  <2> QED BY <2>2, <2>3, <2>4
<1> QED BY <1>1, <1>2 DEF AddPair

LEMMA RemovePairTyped ==
  ASSUME ExchangeTypeOK, NEW p \in Pairs, RemovePair(p) PROVE ExchangeTypeOK'
<1> USE DEF ExchangeTypeOK, Registered
<1>1. CASE UNCHANGED exchangeVars BY <1>1 DEF exchangeVars
<1>2. CASE StopPublic /\ UNCHANGED <<pairs, version>>
  BY <1>2 DEF StopPublic
<1>3. CASE SendRegistry(Restrict(pairs, Registered \ {Symbol[p]})) /\ UNCHANGED <<interrupt, started, running>>
  <2>1. pairs' = [s \in Registered \ {Symbol[p]} |-> pairs[s]] /\ version' \in 0..MaxVersion
    BY <1>3, MaxVersionAssumption DEF SendRegistry, Restrict
  <2> QED BY <1>3, <2>1
<1> QED BY <1>1, <1>2, <1>3 DEF RemovePair

LEMMA WebsocketStopsTyped ==
  ASSUME ExchangeTypeOK, NEW k, WebsocketStops(k) PROVE ExchangeTypeOK'
BY DEF ExchangeTypeOK, Registered, WebsocketStops

\* add_pair leaves a websocket behind whenever it registers something; remove_pair gives it
\* up with the last symbol only.
LEMMA AddPairFeeds ==
  ASSUME ExchangeTypeOK, OnlyLastIsUnfed, NEW p \in Pairs, AddPair(p) PROVE OnlyLastIsUnfed'
<1>1. CASE UNCHANGED exchangeVars BY <1>1 DEF exchangeVars, OnlyLastIsUnfed, Registered
<1>2. CASE EnsureWebsocket
  BY <1>2 DEF EnsureWebsocket, ExchangeTypeOK, OnlyLastIsUnfed
<1> QED BY <1>1, <1>2 DEF AddPair

LEMMA RemovePairFeeds ==
  ASSUME OnlyLastIsUnfed, NEW p \in Pairs, RemovePair(p) PROVE OnlyLastIsUnfed'
<1> USE DEF OnlyLastIsUnfed, Registered
<1>1. CASE UNCHANGED exchangeVars BY <1>1 DEF exchangeVars
<1>2. CASE Registered = {Symbol[p]} /\ StopPublic /\ UNCHANGED <<pairs, version>>
  BY <1>2
<1>3. CASE SendRegistry(Restrict(pairs, Registered \ {Symbol[p]})) /\ UNCHANGED <<interrupt, started, running>>
  <2>1. pairs' = [s \in Registered \ {Symbol[p]} |-> pairs[s]]
    BY <1>3 DEF SendRegistry, Restrict
  <2> QED BY <1>3, <2>1
<1> QED BY <1>1, <1>2, <1>3 DEF RemovePair

LEMMA WebsocketStopsFeeds ==
  ASSUME OnlyLastIsUnfed, NEW k, WebsocketStops(k) PROVE OnlyLastIsUnfed'
BY DEF OnlyLastIsUnfed, Registered, WebsocketStops

\* Every sender sits under the symbol whose messages its socket is meant to get.
SendersFiled == \A s \in Registered : Symbol[pairs[s]] = s

LEMMA AddPairFiles ==
  ASSUME SendersFiled, NEW p \in Pairs, AddPair(p) PROVE SendersFiled'
<1> USE DEF SendersFiled, Registered
<1>1. CASE UNCHANGED exchangeVars BY <1>1 DEF exchangeVars
<1>2. CASE SendRegistry([s \in Registered \cup {Symbol[p]} |-> IF s = Symbol[p] THEN p ELSE pairs[s]])
  <2>1. pairs' = [s \in Registered \cup {Symbol[p]} |-> IF s = Symbol[p] THEN p ELSE pairs[s]]
    BY <1>2 DEF SendRegistry
  <2> QED BY <2>1
<1> QED BY <1>1, <1>2 DEF AddPair

LEMMA RemovePairFiles ==
  ASSUME SendersFiled, NEW p \in Pairs, RemovePair(p) PROVE SendersFiled'
<1> USE DEF SendersFiled, Registered
<1>1. CASE pairs' = pairs BY <1>1
<1>2. CASE SendRegistry(Restrict(pairs, Registered \ {Symbol[p]}))
  <2>1. pairs' = [s \in Registered \ {Symbol[p]} |-> pairs[s]]
    BY <1>2 DEF SendRegistry, Restrict
  <2> QED BY <2>1
<1> QED BY <1>1, <1>2 DEF RemovePair, exchangeVars

LEMMA WebsocketStopsFiles ==
  ASSUME SendersFiled, NEW k, WebsocketStops(k) PROVE SendersFiled'
BY DEF SendersFiled, Registered, WebsocketStops
================================================================================
