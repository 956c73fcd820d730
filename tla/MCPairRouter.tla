------------------------------ MODULE MCPairRouter -----------------------------
EXTENDS PairRouter, TLC

CONSTANTS BTC_USDT, ETH_USDT, eth_usdt, BTCUSDT, ETHUSDT, ethusdt

\* Two pairs; or a third name, which spells one of them in lower case.
MCPairs == {BTC_USDT, ETH_USDT}
MCNames == {BTC_USDT, ETH_USDT, eth_usdt}
MCCased == {BTC_USDT, eth_usdt}

MCSymbol == BTC_USDT :> BTCUSDT @@ ETH_USDT :> ETHUSDT @@ eth_usdt :> ethusdt

MCMarket == BTCUSDT :> BTCUSDT @@ ETHUSDT :> ETHUSDT @@ ethusdt :> ETHUSDT
================================================================================
