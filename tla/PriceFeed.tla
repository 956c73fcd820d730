------------------------------- MODULE PriceFeed -------------------------------
(***************************************************************************)
(* What one price socket promises to the programs connected to it.  Prices *)
(* are published one after another; every viewer moves through them only   *)
(* forwards.  A viewer may skip prices (it only cares about recent ones),  *)
(* but it is never shown an older price after a newer one, or a price that *)
(* was not published.  A price shown twice in a row is a stutter here.     *)
(***************************************************************************)
EXTENDS Integers

CONSTANT Viewers

VARIABLES
  published,   \* how many prices have been published
  view         \* view[v]: number of the last price shown to v, 0 before the first

vars == <<published, view>>

TypeOK == /\ published \in Nat
          /\ view \in [Viewers -> Nat]

Init == /\ published = 0
        /\ view = [v \in Viewers |-> 0]

Publish == /\ published' = published + 1
           /\ UNCHANGED view

Show(v) == /\ \E n \in (view[v] + 1)..published : view' = [view EXCEPT ![v] = n]
           /\ UNCHANGED published

Next == Publish \/ \E v \in Viewers : Show(v)

Spec == Init /\ [][Next]_vars
================================================================================
