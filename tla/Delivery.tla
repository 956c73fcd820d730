------------------------------- MODULE Delivery --------------------------------
(***************************************************************************)
(* What the control socket promises a client: the commands it writes on    *)
(* one connection reach the manager in the order written, each pair once,  *)
(* none left out, up to the first frame that is no command.  Nothing is    *)
(* said of the order between connections.                                  *)
(***************************************************************************)
EXTENDS Naturals, Sequences

CONSTANTS
  Clients,      \* the connections clients will make
  Commands      \* what a client can write, each a [kind, pair]

VARIABLES
  written,      \* written[c]: the frames of connection c
  taken         \* taken[c]: the last of them whose pair the manager took

Init == written = [c \in Clients |-> <<>>] /\ taken = [c \in Clients |-> 0]

NamesPair(cmd) == cmd.kind \in {"add", "remove"}

Write(c) ==
  /\ \E cmd \in Commands : written' = [written EXCEPT ![c] = Append(@, cmd)]
  /\ UNCHANGED taken

\* The next frame that names a pair; only key commands are passed over.
Take(c) ==
  /\ \E n \in taken[c] + 1 .. Len(written[c]) :
       /\ NamesPair(written[c][n])
       /\ \A i \in taken[c] + 1 .. n - 1 : written[c][i].kind = "key"
       /\ taken' = [taken EXCEPT ![c] = n]
  /\ UNCHANGED written

Spec == Init /\ [][\E c \in Clients : Write(c) \/ Take(c)]_<<written, taken>>
================================================================================
