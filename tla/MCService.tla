------------------------------- MODULE MCService -------------------------------
(* Three processes, any of them a prompt or a server, started in any order. *)
EXTENDS Service

CONSTANTS s1, s2, s3, btc_usdt, eth_usdt, binance, kraken

MCProcesses == {s1, s2, s3}
MCPairs == {btc_usdt, eth_usdt}
MCExchanges == {binance, kraken}

MCCommandLines == {NoArgs} \cup [action : {"serve", "add_pair", "add_key"}, pair : {btc_usdt}]
================================================================================
