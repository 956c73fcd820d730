----------------------------- MODULE MCPriceSocket -----------------------------
(* Small instances of PriceSocket for TLC. *)
EXTENDS PriceSocket, TLC

CONSTANTS c1, c2, p1, p2

MCClients == {c1, c2}
MCOneClient == {c1}
MCPrices  == {p1, p2}
MCPricesNaN == {Zero, NaN}

================================================================================
