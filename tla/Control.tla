--------------------------------- MODULE Control -------------------------------
(***************************************************************************)
(* From a client's command to a price socket: the control socket           *)
(* (listen_to_control), the channel of pairs and the manager that turns a  *)
(* pair into a price socket and a registration with BinanceExchange.       *)
(*                                                                         *)
(* Every accepted connection has a task of its own, so that commands of    *)
(* different connections interleave.  A client may close its end, or die   *)
(* within a frame, at any time: what it wrote stays readable.              *)
(*                                                                         *)
(* The fatal channel of listen_to_control is left out: sending a pair only *)
(* fails once the manager is gone, and main ends with the manager.         *)
(***************************************************************************)
EXTENDS BinanceExchange, Sequences

CONSTANTS
  Clients,      \* the connections clients will make
  Commands,     \* what a client can write, each a [kind, pair]
  PairsSize,    \* capacity of the channel of pairs
  MaxFrames     \* bound: frames written on one connection

\* The commands that name a pair; a key command, which the server only logs; bytes that
\* are no command; and a frame that its client never completes.
Kinds == {"add", "remove", "key", "garbage", "cut"}

ASSUME CommandsAssumption == Commands \subseteq [kind : Kinds, pair : Pairs]
ASSUME PairsSizeAssumption == PairsSize \in Nat \ {0}
ASSUME MaxFramesAssumption == MaxFrames \in Nat

VARIABLES
  client,         \* client[c]: whether the client has connected and closed its end
  written,        \* written[c]: the frames the client wrote
  server,         \* server[c]: the task of the connection
  read,           \* read[c]: how many of the frames the task has read
  pending,        \* pending[c]: the frame whose pair the task waits to queue, or 0
  queue,          \* the channel of pairs, each as the frame it came in
  price_sockets   \* the pairs ExchangeManager keeps a handler for

\* History, never read by an action.
VARIABLE taken    \* taken[c]: the last frame of c whose pair the manager took

controlVars == <<client, written, server, read, pending, queue, price_sockets, taken>>
vars        == <<exchangeVars, controlVars>>

Init ==
  /\ ExchangeInit
  /\ client = [c \in Clients |-> "away"]
  /\ written = [c \in Clients |-> <<>>]
  /\ server = [c \in Clients |-> "none"]
  /\ read = [c \in Clients |-> 0]
  /\ pending = [c \in Clients |-> 0]
  /\ queue = <<>>
  /\ price_sockets = {}
  /\ taken = [c \in Clients |-> 0]
--------------------------------------------------------------------------------
(* The clients: prompt writes one command for each connection it makes, another *)
(* program as many as it likes.                                                 *)

clientsRest == <<exchangeVars, server, read, pending, queue, price_sockets, taken>>

ClientConnects(c) ==
  /\ client[c] = "away"
  /\ client' = [client EXCEPT ![c] = "open"]
  /\ UNCHANGED <<clientsRest, written>>

\* A frame goes out: its length and the serialized command.  A client whose task is
\* gone gets an error instead.
WriteFrame(c, cmd) ==
  /\ client[c] = "open" /\ server[c] # "gone"
  /\ Len(written[c]) < MaxFrames
  /\ written' = [written EXCEPT ![c] = Append(@, cmd)]
  /\ client' = [client EXCEPT ![c] = IF cmd.kind = "cut" THEN "closed" ELSE @]
  /\ UNCHANGED clientsRest

ClientCloses(c) ==
  /\ client[c] = "open"
  /\ client' = [client EXCEPT ![c] = "closed"]
  /\ UNCHANGED <<clientsRest, written>>
--------------------------------------------------------------------------------
(* control_connection and the task it spawns. *)

tasksRest == <<exchangeVars, client, written, price_sockets, taken>>

Accept(c) ==
  /\ client[c] # "away" /\ server[c] = "none"
  /\ server' = [server EXCEPT ![c] = "reading"]
  /\ UNCHANGED <<tasksRest, read, pending, queue>>

\* A frame that is no command.
Broken(cmd) == cmd.kind \in {"garbage", "cut"}

Unread(c) == read[c] < Len(written[c])
NextFrame(c) == written[c][read[c] + 1]
Reading(c) == server[c] = "reading" /\ pending[c] = 0

\* parse_control_command returns a command; a key command is only logged.
ReadCommand(c) ==
  /\ Reading(c) /\ Unread(c) /\ ~Broken(NextFrame(c))
  /\ read' = [read EXCEPT ![c] = @ + 1]
  /\ pending' = [pending EXCEPT ![c] = IF NextFrame(c).kind = "key" THEN 0 ELSE read[c] + 1]
  /\ UNCHANGED <<tasksRest, server, queue>>

\* The end of the stream, within a frame or between two, or bytes that are no command
\* (an InvalidData error, an Io error as well): the task ends and drops the stream.
ReadFails(c) ==
  /\ Reading(c)
  /\ IF Unread(c) THEN Broken(NextFrame(c)) ELSE client[c] = "closed"
  /\ server' = [server EXCEPT ![c] = "gone"]
  /\ UNCHANGED <<tasksRest, read, pending, queue>>

\* Faulty variant: try_send, a pair is dropped when the channel is full.
QueueOrDrop(c) ==
  /\ pending[c] # 0
  /\ queue' = IF Len(queue) < PairsSize THEN Append(queue, [conn |-> c, n |-> pending[c]]) ELSE queue
  /\ pending' = [pending EXCEPT ![c] = 0]
  /\ UNCHANGED <<tasksRest, server, read>>

\* Faulty variant: the channel is taken for unbounded.
QueueAlways(c) ==
  /\ pending[c] # 0
  /\ queue' = Append(queue, [conn |-> c, n |-> pending[c]])
  /\ pending' = [pending EXCEPT ![c] = 0]
  /\ UNCHANGED <<tasksRest, server, read>>

\* AddPair and RemovePair alike: pairs_sender.send((exchange, pair)), once there is room.
QueuePair(c) ==
  /\ pending[c] # 0
  /\ Len(queue) < PairsSize
  /\ queue' = Append(queue, [conn |-> c, n |-> pending[c]])
  /\ pending' = [pending EXCEPT ![c] = 0]
  /\ UNCHANGED <<tasksRest, server, read>>
--------------------------------------------------------------------------------
(* ExchangeManager::run *)

\* Faulty variant: the exchange only hears of the first pair.
AddSocketOnly(p) ==
  /\ price_sockets' = price_sockets \cup {p}
  /\ IF price_sockets = {} THEN AddPair(p) ELSE UNCHANGED exchangeVars

\* add_pair on a new pair: bridge spawns the price socket, the exchange gets its sender.
AddSocket(p) ==
  /\ price_sockets' = price_sockets \cup {p}
  /\ AddPair(p)

Command(e) == written[e.conn][e.n]

TakePair ==
  /\ queue # <<>>
  /\ queue' = Tail(queue)
  /\ taken' = [taken EXCEPT ![Head(queue).conn] = Head(queue).n]
  /\ LET p == Command(Head(queue)).pair IN
       \/ p \in price_sockets /\ UNCHANGED <<exchangeVars, price_sockets>>
       \/ p \notin price_sockets /\ AddSocket(p)
  /\ UNCHANGED <<client, written, server, read, pending>>
--------------------------------------------------------------------------------
ClientStep(c) ==
  ClientConnects(c) \/ ClientCloses(c) \/ \E cmd \in Commands : WriteFrame(c, cmd)

ServerStep(c) == Accept(c) \/ ReadCommand(c) \/ ReadFails(c) \/ QueuePair(c)

Next ==
  \/ \E c \in Clients : ClientStep(c) \/ ServerStep(c)
  \/ TakePair

Spec == Init /\ [][Next]_vars

\* The runtime polls every task that can go on; the channel of pairs gives room to
\* those who wait for it in turn.  Nothing is assumed of the clients.
Fairness == WF_vars(TakePair) /\ \A c \in Clients : SF_vars(ServerStep(c))

FairSpec == Spec /\ Fairness
--------------------------------------------------------------------------------
(* Properties. *)

TypeOK ==
  /\ ExchangeTypeOK
  /\ client \in [Clients -> {"away", "open", "closed"}]
  /\ written \in [Clients -> Seq(Commands)]
  /\ server \in [Clients -> {"none", "reading", "gone"}]
  /\ read \in [Clients -> Nat] /\ pending \in [Clients -> Nat] /\ taken \in [Clients -> Nat]
  /\ \A c \in Clients :
       Len(written[c]) <= MaxFrames /\ read[c] <= Len(written[c]) /\ pending[c] \in {0, read[c]}
  /\ queue \in Seq([conn : Clients, n : Nat \ {0}]) /\ Len(queue) <= PairsSize
  /\ \A i \in 1..Len(queue) : queue[i].n <= read[queue[i].conn]
  /\ price_sockets \subseteq Pairs

Promise == INSTANCE Delivery

\* The manager gets the pairs of a connection in the order they were written, each once,
\* none left out and nothing that was not completed, whatever other connections do,
\* however full the channel is and wherever the client dies (parse_control_command, the
\* loop of control_connection): Delivery is implemented.
DeliverySpec == Promise!Spec

\* The manager and the exchange agree: the symbols registered are those of the price
\* sockets, each with the sender of a socket that is there, and a websocket runs once
\* there is a socket (ExchangeManager::add_pair, BinanceExchange::add_pair).
SocketsRegistered ==
  /\ Registered = {Symbol[p] : p \in price_sockets}
  /\ \A s \in Registered : pairs[s] \in price_sockets
  /\ price_sockets # {} => interrupt \in running

\* The frame n of c is a command that names p.
Asks(c, n, p) == Promise!NamesPair(written[c][n]) /\ written[c][n].pair = p

\* Between the tasks no command is lost and none is made up: what a task has read has a
\* price socket, or is queued, or in the task's hands; and a pair only has a price socket
\* when the manager took a command that names it, of a client that may be gone by now
\* (control_connection, ExchangeManager::run).
CommandsAccounted ==
  /\ \A p \in Pairs : p \in price_sockets <=> \E c \in Clients : \E n \in 1..taken[c] : Asks(c, n, p)
  /\ \A c \in Clients, p \in Pairs : \A n \in 1..read[c] :
       Asks(c, n, p) =>
         p \in price_sockets \/ n = pending[c] \/ \E i \in 1..Len(queue) : queue[i] = [conn |-> c, n |-> n]

\* A command that a client completed gets its price socket, even if the client leaves
\* at once and every other connection keeps the channel full.
CompletedIsServed ==
  \A c \in Clients, p \in Pairs :
    (\E n \in 1..Len(written[c]) :
       /\ Promise!NamesPair(written[c][n]) /\ written[c][n].pair = p
       /\ \A i \in 1..n : ~Broken(written[c][i])) ~> p \in price_sockets

\* After a RemovePair command the pair has no price socket (control.rs: "Stop listening
\* to a pair command").
RemoveCommandStops ==
  [][TakePair /\ Command(Head(queue)).kind = "remove" => Command(Head(queue)).pair \notin price_sockets']_vars
================================================================================
