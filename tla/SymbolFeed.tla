------------------------------ MODULE SymbolFeed -------------------------------
(***************************************************************************)
(* What the exchange promises the price sockets.  The prices of a market   *)
(* are numbered as they are read.  While all is calm a socket shows them   *)
(* one after the other, none left out.  A pair added, a connection         *)
(* replaced or a listener lost disturbs this for good: from then on the    *)
(* number a socket shows is that of some price of its market that was read *)
(* already, older ones again included.  Only numbers are shown: of which   *)
(* market the price itself is, this feed does not say.                     *)
(***************************************************************************)
EXTENDS Integers

CONSTANTS
  Sockets,     \* the price sockets
  Markets,     \* the markets prices are read of
  Fed          \* Fed[p]: the market of p, one of Markets, for those sockets that have one

VARIABLES
  quotes,      \* quotes[m]: how many prices of market m were read
  shown,       \* shown[p]: the number of the last price the socket of p showed
  calm         \* whether nothing has disturbed the feed

vars == <<quotes, shown, calm>>

Init ==
  /\ quotes = [m \in Markets |-> 0]
  /\ shown = [p \in Sockets |-> 0]
  /\ calm = TRUE

Read(m) ==
  /\ quotes' = [quotes EXCEPT ![m] = @ + 1]
  /\ UNCHANGED <<shown, calm>>

ShowNext(p) ==
  /\ shown[p] < quotes[Fed[p]]
  /\ shown' = [shown EXCEPT ![p] = @ + 1]
  /\ UNCHANGED <<quotes, calm>>

ShowAny(p) ==
  /\ ~calm
  /\ \E q \in 1..quotes[Fed[p]] : shown' = [shown EXCEPT ![p] = q]
  /\ UNCHANGED <<quotes, calm>>

Disturb ==
  /\ calm' = FALSE
  /\ UNCHANGED <<quotes, shown>>

Next ==
  \/ \E m \in Markets : Read(m)
  \/ \E p \in DOMAIN Fed : ShowNext(p) \/ ShowAny(p)
  \/ Disturb

Spec == Init /\ [][Next]_vars
================================================================================
