------------------------------- MODULE Broadcast -------------------------------
(***************************************************************************)
(* tokio::sync::broadcast as this program uses it: a ring that retains the *)
(* last Capacity messages.  The messages ever sent are numbered from 1; a  *)
(* channel is its number of messages sent, a receiver is the number of the *)
(* message it asks for next.  A receiver that has fallen more than         *)
(* Capacity messages behind is told how many it missed (Lagged) and is     *)
(* moved to the oldest message still retained.                             *)
(***************************************************************************)
EXTENDS Integers

CONSTANT Capacity        \* size of the ring

ASSUME CapacityAssumption == Capacity \in Nat \ {0}

\* The oldest message still in the ring after sent messages.
Oldest(sent) == IF sent > Capacity THEN sent - Capacity + 1 ELSE 1

\* recv() on a receiver asking for message n returns ...
Received(n, sent) == n \in Oldest(sent)..sent      \* ... Ok(message n)
Lagged(n, sent)   == n < Oldest(sent)              \* ... Err(Lagged(Missed))
Drained(n, sent)  == n > sent                      \* ... nothing yet, or Err(Closed)

\* The count Err(Lagged(count)) carries.
Missed(n, sent) == Oldest(sent) - n

\* subscribe(): the first message a new receiver will see.
Subscribed(sent) == sent + 1
================================================================================
