------------------------------- MODULE MCControl -------------------------------
(* Three names of two symbols: btc_usdt and btcusdt are the same symbol. *)
EXTENDS Control, TLC

CONSTANTS btc_usdt, btcusdt, eth_usdt, BTCUSDT, ETHUSDT, c1, c2

MCPairs == {btc_usdt, btcusdt, eth_usdt}

MCSymbol == btc_usdt :> BTCUSDT @@ btcusdt :> BTCUSDT @@ eth_usdt :> ETHUSDT

MCClients == {c1, c2}

MCCommands ==
  [kind : {"add"}, pair : MCPairs] \cup [kind : {"key", "garbage", "cut"}, pair : {btc_usdt}]

MCRemovals == [kind : {"add", "remove"}, pair : {eth_usdt}]
================================================================================
