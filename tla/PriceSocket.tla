------------------------------ MODULE PriceSocket ------------------------------
(***************************************************************************)
(* One pair's unix socket: the task ExchangeHandler::bridge spawns and the *)
(* tasks it spawns in turn, one per connected client.                      *)
(*                                                                         *)
(* The bridge task is a select! over three loops that share one thread of  *)
(* control and so interleave in any order, one loop iteration at a time:   *)
(*   - the price loop takes prices from the exchange, drops a price equal  *)
(*     to the previous one and broadcasts the others;                      *)
(*   - keep_latest_value copies broadcast messages into a watch channel;   *)
(*   - accept_connections accepts a client, subscribes it to the broadcast *)
(*     and reads the watch for the message to greet it with.               *)
(* A client task writes the greeting, then every message it receives.      *)
(*                                                                         *)
(* A message is represented by its number in log; the watch, the receivers *)
(* and the writes hold such numbers, 0 standing for None.                  *)
(***************************************************************************)
EXTENDS Broadcast, Sequences

CONSTANTS
  Clients,     \* the connections clients will make
  Prices,      \* the (ask, bid) pairs the exchange sends
  Zero,        \* the pair (0., 0.), the price loop's initial last_value
  NaN,         \* a pair with a NaN in it, which f64 finds different from itself
  NoPrice,     \* no price at all, which no pair equals
  MaxSent      \* bound: messages broadcast in one behaviour

ASSUME MaxSentAssumption == MaxSent \in Nat
ASSUME NoPriceAssumption == NoPrice \notin Prices \cup {Zero}

VARIABLES
  socket,      \* where create_unix_socket_listener stands
  file,        \* the socket's path exists in the file system
  last_value,  \* the price loop's last_value
  log,         \* every price broadcast so far, oldest first
  keeper,      \* keep_latest_value's receiver: next message it asks for
  current,     \* the watch channel: the message greeting new clients
  task,        \* task[c]: the task serving connection c
  online,      \* online[c]: the client has not closed its end
  next,        \* next[c]: the task's receiver: next message it asks for
  hold         \* hold[c]: the message the task is writing, 0 when it waits in recv

\* History, never read by an action.
VARIABLES
  offered,     \* the last price taken from the exchange, NoPrice before the first
  seen,        \* seen[c]: last message written to c
  joined,      \* joined[c]: first message c was subscribed to
  delivered,   \* delivered[c]: messages received from the broadcast and written
  lost         \* lost[c]: sum of the counts of the Lagged errors

serverVars == <<socket, file>>
feedVars   == <<last_value, log, offered>>
watchVars  == <<keeper, current>>
clientVars == <<task, online, next, hold, seen, joined, delivered, lost>>
vars       == <<serverVars, feedVars, watchVars, clientVars>>

Sent == Len(log)

\* The phases of create_unix_socket_listener.  Once it has ended, bridge's
\* select! ends too and drops the price loop, the sender and the receiver.
Phases == {"binding", "retrying", "listening", "ended"}

\* Equality of two (f64, f64) tuples.
SamePrice(p, q) == p = q /\ p # NaN

Init ==
  /\ socket = "binding"
  /\ file \in BOOLEAN          \* an earlier server leaves its socket file behind
  /\ last_value = Zero
  /\ log = <<>>
  /\ keeper = 1
  /\ current = 0
  /\ task = [c \in Clients |-> "none"]
  /\ online = [c \in Clients |-> FALSE]
  /\ next = [c \in Clients |-> 1]
  /\ hold = [c \in Clients |-> 0]
  /\ offered = NoPrice
  /\ seen = [c \in Clients |-> 0]
  /\ joined = [c \in Clients |-> 1]
  /\ delivered = [c \in Clients |-> 0]
  /\ lost = [c \in Clients |-> 0]
--------------------------------------------------------------------------------
(* The price loop of ExchangeHandler::bridge. *)

\* Faulty variant: last_value is not updated.
BroadcastPriceOnly(p) == log' = Append(log, p) /\ UNCHANGED last_value

BroadcastPrice(p) == log' = Append(log, p) /\ last_value' = p

\* A price arrives on manager_receiver: dropped when equal to the last one,
\* else remembered and broadcast.
ReceivePrice(p) ==
  /\ socket # "ended"
  /\ offered' = p
  /\ \/ SamePrice(p, last_value) /\ UNCHANGED <<last_value, log>>
     \/ ~SamePrice(p, last_value) /\ Sent < MaxSent /\ BroadcastPrice(p)
  /\ UNCHANGED <<serverVars, watchVars, clientVars>>
--------------------------------------------------------------------------------
(* create_unix_socket_listener and create_socket. *)

\* One pass through create_socket up to its select!: the stale file is removed,
\* the watch channel is created and the path is bound.
Bind ==
  /\ socket = "binding"
  /\ socket' = "listening"
  /\ file' = TRUE
  /\ current' = 0
  /\ UNCHANGED <<feedVars, keeper, clientVars>>

\* exists() fails, or bind() fails after the stale file was removed:
\* UnixSocketError::ConnectionError, tried again after a second.
BindFails ==
  /\ socket = "binding"
  /\ socket' = "retrying"
  /\ file' \in {file, FALSE}
  /\ UNCHANGED <<feedVars, watchVars, clientVars>>

\* The stale file cannot be removed: UnixSocketError::Fatal.
RemoveFails ==
  /\ socket = "binding"
  /\ file
  /\ socket' = "ended"
  /\ UNCHANGED <<file, feedVars, watchVars, clientVars>>

RetryBind ==
  /\ socket = "retrying"
  /\ socket' = "binding"
  /\ UNCHANGED <<file, feedVars, watchVars, clientVars>>

\* stop_sender is fired, or dropped with its ExchangeHandler.
Stop ==
  /\ socket # "ended"
  /\ socket' = "ended"
  /\ UNCHANGED <<file, feedVars, watchVars, clientVars>>
--------------------------------------------------------------------------------
(* keep_latest_value, running while create_socket listens. *)

\* Faulty variant: a receiver that lags is replaced by a new subscription.
AfterLagNew == Subscribed(Sent)

\* Where a loop goes on after Lagged: with its receiver as it is.
AfterLag == Oldest(Sent)

KeepMessage ==
  /\ Received(keeper, Sent)
  /\ current' = keeper
  /\ keeper' = keeper + 1

KeeperLags ==
  /\ Lagged(keeper, Sent)
  /\ keeper' = AfterLag
  /\ UNCHANGED current

KeepLatestValue ==
  /\ socket = "listening"
  /\ KeepMessage \/ KeeperLags
  /\ UNCHANGED <<serverVars, feedVars, clientVars>>
--------------------------------------------------------------------------------
(* accept_connections and the per-client tasks. *)

\* Faulty variant: the client gets the message sent last as well.
FirstMessageLast == Sent

\* Faulty variant: the client gets all that the ring retains as well.
FirstMessageRetained == Oldest(Sent)

\* The first message a client accepted now is subscribed to.
FirstMessage == Subscribed(Sent)

\* accept() yields connection c: handle_single_connection subscribes, borrows the
\* watch and spawns the task, all without an await.
HandleSingleConnection(c) ==
  /\ socket = "listening"
  /\ task[c] = "none"
  /\ task' = [task EXCEPT ![c] = "serving"]
  /\ online' = [online EXCEPT ![c] = TRUE]
  /\ next' = [next EXCEPT ![c] = FirstMessage]
  /\ joined' = [joined EXCEPT ![c] = FirstMessage]
  /\ hold' = [hold EXCEPT ![c] = current]
  /\ UNCHANGED <<serverVars, feedVars, watchVars, seen, delivered, lost>>

\* The task of c waits in receiver.recv().
InRecv(c) == task[c] = "serving" /\ hold[c] = 0

\* Faulty variant: reads the ring without asking whether the slot was overwritten.
RecvMessageUnchecked(c) ==
  /\ InRecv(c)
  /\ next[c] <= Sent
  /\ hold' = [hold EXCEPT ![c] = IF Lagged(next[c], Sent) THEN Sent ELSE next[c]]
  /\ next' = [next EXCEPT ![c] = hold'[c] + 1]
  /\ UNCHANGED <<serverVars, feedVars, watchVars, task, online, seen, joined, delivered, lost>>

\* recv() returns Ok(message).
RecvMessage(c) ==
  /\ InRecv(c)
  /\ Received(next[c], Sent)
  /\ hold' = [hold EXCEPT ![c] = next[c]]
  /\ next' = [next EXCEPT ![c] = next[c] + 1]
  /\ UNCHANGED <<serverVars, feedVars, watchVars, task, online, seen, joined, delivered, lost>>

\* recv() returns Err(Lagged(count)); the count is logged and the loop goes on.
RecvLagged(c) ==
  /\ InRecv(c)
  /\ Lagged(next[c], Sent)
  /\ next' = [next EXCEPT ![c] = AfterLag]
  /\ lost' = [lost EXCEPT ![c] = @ + Missed(next[c], Sent)]
  /\ UNCHANGED <<serverVars, feedVars, watchVars, task, online, hold, seen, joined, delivered>>

\* Faulty variant: a closed channel is treated like a lag and waited on again.
RecvClosedIgnored(c) ==
  /\ InRecv(c)
  /\ Drained(next[c], Sent)
  /\ socket = "ended"
  /\ UNCHANGED vars

\* recv() returns Err(Closed): the bridge task dropped the only sender and every
\* retained message has been received.  The task ends and drops the stream.
RecvClosed(c) ==
  /\ InRecv(c)
  /\ Drained(next[c], Sent)
  /\ socket = "ended"
  /\ task' = [task EXCEPT ![c] = "done"]
  /\ UNCHANGED <<serverVars, feedVars, watchVars, online, next, hold, seen, joined, delivered, lost>>

\* write_all() of the greeting or of a broadcast message succeeds.
WriteMessage(c) ==
  /\ task[c] = "serving"
  /\ hold[c] # 0
  /\ online[c]
  /\ seen' = [seen EXCEPT ![c] = hold[c]]
  /\ delivered' = [delivered EXCEPT ![c] = IF hold[c] < joined[c] THEN @ ELSE @ + 1]
  /\ hold' = [hold EXCEPT ![c] = 0]
  /\ UNCHANGED <<serverVars, feedVars, watchVars, task, online, next, joined, lost>>

\* write_all() fails because the client has gone: the task ends.
WriteFails(c) ==
  /\ task[c] = "serving"
  /\ hold[c] # 0
  /\ ~online[c]
  /\ task' = [task EXCEPT ![c] = "done"]
  /\ hold' = [hold EXCEPT ![c] = 0]
  /\ UNCHANGED <<serverVars, feedVars, watchVars, online, next, seen, joined, delivered, lost>>

\* The client closes its end.  Nothing on the server side notices before a write.
Disconnect(c) ==
  /\ task[c] = "serving"
  /\ online[c]
  /\ online' = [online EXCEPT ![c] = FALSE]
  /\ UNCHANGED <<serverVars, feedVars, watchVars, task, next, hold, seen, joined, delivered, lost>>
--------------------------------------------------------------------------------
SocketStep == Bind \/ BindFails \/ RemoveFails \/ RetryBind \/ Stop \/ KeepLatestValue

\* The steps of the spawned task serving c.
ServeStep(c) ==
  \/ RecvMessage(c) \/ RecvLagged(c) \/ RecvClosed(c)
  \/ WriteMessage(c) \/ WriteFails(c)

ClientStep(c) == HandleSingleConnection(c) \/ ServeStep(c) \/ Disconnect(c)

Next ==
  \/ \E p \in Prices : ReceivePrice(p)
  \/ SocketStep
  \/ \E c \in Clients : ClientStep(c)

Spec == Init /\ [][Next]_vars

\* The runtime polls every task that can go on.  A connected client is assumed to
\* keep reading, so that write_all completes.  Nothing is assumed of prices,
\* connections, disconnections, the stop signal or the file system.
Fairness ==
  /\ WF_vars(KeepLatestValue)
  /\ \A c \in Clients : WF_vars(ServeStep(c))

FairSpec == Spec /\ Fairness
--------------------------------------------------------------------------------
(* Properties. *)

TypeOK ==
  /\ socket \in Phases
  /\ file \in BOOLEAN
  /\ last_value \in Prices \cup {Zero}
  /\ offered \in Prices \cup {NoPrice}
  /\ log \in Seq(Prices)
  /\ keeper \in Nat \ {0}
  /\ current \in Nat
  /\ task \in [Clients -> {"none", "serving", "done"}]
  /\ online \in [Clients -> BOOLEAN]
  /\ next \in [Clients -> Nat \ {0}]
  /\ hold \in [Clients -> Nat]
  /\ seen \in [Clients -> Nat]
  /\ joined \in [Clients -> Nat \ {0}]
  /\ delivered \in [Clients -> Nat]
  /\ lost \in [Clients -> Nat]

\* The watch never greets a client with a message that was not broadcast, and once
\* keep_latest_value has drained the ring, however far it lagged before, the watch
\* holds the message broadcast last (unix_socket.rs, keep_latest_value).
WatchFollowsKeeper ==
  /\ keeper <= Sent + 1
  /\ current < keeper
  /\ socket = "listening" /\ Drained(keeper, Sent) => current = Sent

\* Once a price has been broadcast, the price loop neither swallows a change nor repeats
\* a price: the last message is the price the exchange sent last, and two successive
\* messages differ.  Before that it drops (0, 0), which passes for a repetition of the
\* initial last_value and reaches no client, and nothing else (handler.rs, bridge).
BroadcastIsLossless ==
  /\ log # <<>> => offered = log[Sent]
  /\ log = <<>> => offered \in {NoPrice, Zero}
  /\ \A i \in 2..Sent : ~SamePrice(log[i], log[i - 1])

\* Every message sent after a client was subscribed is accounted for: it has been
\* written, is being written, is still to be received, or was counted in a Lagged
\* error.  The loop of handle_connection_messages loses nothing silently.
NoSilentLoss ==
  \A c \in Clients : task[c] = "serving" =>
    LET writing == IF hold[c] >= joined[c] THEN 1 ELSE 0
    IN  delivered[c] + writing + lost[c] = next[c] - joined[c]

\* Whatever lags and greetings came before, a client that has received at least one
\* broadcast message and whose task waits for more has been sent the newest price.
CaughtUpIsLatest ==
  \A c \in Clients :
    InRecv(c) /\ Drained(next[c], Sent) /\ next[c] > joined[c] => seen[c] = Sent

\* What a client task is about to write, the greeting or a broadcast message, is newer
\* than all it wrote: the two sources of handle_single_connection never overlap.
OnlyNewer == \A c \in Clients : task[c] = "serving" /\ hold[c] # 0 => seen[c] < hold[c]

\* What a client sees is a price feed: forwards only, published prices only.
Feed == INSTANCE PriceFeed WITH Viewers <- Clients, published <- Sent, view <- seen
FeedSpec == Feed!Spec

Serving(c) == task[c] = "serving"

\* A client sent at least one broadcast message reaches the newest price once prices
\* pause, however far it had lagged, unless it disconnects.
EventuallyLatest ==
  \A c \in Clients :
    Serving(c) /\ joined[c] <= Sent ~> (seen[c] = Sent \/ ~online[c])

\* Once the bridge task has ended, every client task drains the ring and ends too:
\* the TODO in accept_connections keeps no handle to abort them with.
StopReleasesClients ==
  \A c \in Clients : socket = "ended" ~> ~Serving(c)

\* EventuallyLatest without its condition: while the socket lives, every client that
\* stays connected reaches the newest price, also one accepted between a broadcast
\* and the keep_latest_value step that copies it (README.md: "writes their
\* (normalized) outcome to unix sockets").
EveryClientLatest ==
  \A c \in Clients :
    Serving(c) ~> (seen[c] = Sent \/ ~online[c] \/ socket = "ended")
--------------------------------------------------------------------------------
(* The inductive invariant behind the safety properties. *)

\* The watch is one message behind the keeper, or the keeper has just lagged and a
\* newer message waits for it.  Nothing is kept before the path is bound.
WatchInv ==
  /\ keeper <= Sent + 1
  /\ current < keeper
  /\ current = keeper - 1 \/ keeper <= Sent
  /\ socket \in {"binding", "retrying"} => keeper = 1 /\ current = 0

\* The price loop: last_value is the last broadcast price and the last one offered, but
\* for the (0, 0) it holds before the first.
FeedInv ==
  /\ offered = last_value \/ (log = <<>> /\ offered = NoPrice)
  /\ last_value = (IF log = <<>> THEN Zero ELSE log[Sent])
  /\ \A i \in 2..Sent : ~SamePrice(log[i], log[i - 1])

\* Where the task of c stands between the message written last (seen), the one
\* being written (hold) and the one it asks for next.
ClientInv(c) ==
  /\ seen[c] <= Sent
  /\ task[c] = "none" => seen[c] = 0 /\ hold[c] = 0 /\ delivered[c] = 0 /\ lost[c] = 0
  /\ task[c] = "serving" =>
       /\ joined[c] <= next[c] /\ next[c] <= Sent + 1
       /\ hold[c] < next[c] /\ seen[c] < next[c]
       /\ hold[c] # 0 => seen[c] < hold[c]
       /\ hold[c] # 0 /\ joined[c] < next[c] => hold[c] = next[c] - 1
       /\ hold[c] = 0 /\ joined[c] < next[c] => seen[c] = next[c] - 1 \/ next[c] <= Sent

SocketInv == WatchInv /\ FeedInv /\ NoSilentLoss /\ \A c \in Clients : ClientInv(c)
================================================================================
