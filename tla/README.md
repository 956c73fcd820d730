# Verification of bittrade-websockets

TLA+ models of the price server in `src/`, checked with TLC on small instances and, for the
properties that matter most, proved with TLAPS for every value of the constants. Paths below
are relative to the repository (`src/…` is its Rust source directory).

- [The system](#the-system) · [Modules](#modules) · [Runs](#runs) · [Bounds](#bounds) ·
  [Fairness](#fairness) · [Proofs](#proofs) · [Findings](#findings) ·
  [Not modelled](#not-modelled) · [Plan](#plan)

## The system

The server keeps one websocket to Binance, and one unix socket per pair to which it writes the
pair's prices. Programs ask for pairs through a control socket.

    prompt / other client                                       consumer programs
          | frames                                                  ^ lines of JSON
          v                                                         |
    control connection task --mpsc(32)--> ExchangeManager    client task (one per connection)
                                            |       |               ^ broadcast(32) + watch
                                            |       +--creates--> bridge task of the pair
                                            v                       ^ mpsc(1024)
                                      BinanceExchange               |
                                            | watch(registry)   pair listener (one per symbol)
                                            v                       ^ broadcast(1024)
    Binance <==websocket==> websocket task: read loop, write loop, pong check
                                            |
                                            +--spawns per connection--> pairs_to_broadcast (router)

Everything in a process runs on a multi-threaded tokio runtime: spawned tasks interleave at any
await point, and the branches of one `select!` interleave within their task. Prompt and server are
the same program: a process asks its user for commands until one of them is `serve`. Processes
meet in the file system only, at the paths of their sockets.

| Component | State | Operations | What is hard | What makes it correct |
|---|---|---|---|---|
| Price socket: bridge task, listener, client tasks (`exchanges/exchange/handler.rs`, `unix_socket.rs`) | `last_value`, broadcast ring, receiver of `keep_latest_value`, watch, one receiver per client | take a price, bind / retry / stop, keep the latest, accept, receive / lag / close, write | accept races the copy to the watch; slow clients lag the ring; the end of the task | nothing lost silently, no change swallowed after the first price, clients see prices forwards and end up with the newest |
| Registry (`exchanges/binance/exchange.rs`) | registry in a watch, stop sender | `add_pair`, `remove_pair`, `stop_public` | sequences of adding and removing; two names of one symbol | only the last pair removed is without a websocket; a sender is never replaced |
| Router and listeners (`pairs_to_broadcast`, `channels/pair.rs`) | version seen, cancellation token, one broadcast receiver per listener | wake, clone, bridge a pair, subscribe; receive, forward, lag, stop | registry changes during a round; reconnections leave routers behind; a full price channel lags the ring | one live listener per registered symbol, its messages forwarded to its socket, each connection subscribes |
| Websocket connection (`…/websocket/public.rs`, `websocket/pong.rs`) | connection, write channel, `last_pong` and its lock, interval, sleep | connect, fail, retry, stop, the three loops | the pong check races the pong; lock held over a full channel; the end of the stream | silence bounded, healthy peers kept, silent peers dropped, a closed connection replaced |
| Control socket and manager (`control/control.rs`, `exchanges/manager.rs`) | connections, channel of pairs, `price_sockets` | accept, parse, queue, `run`, `add_pair` | broken frames, backpressure, dying clients, two names of one symbol | commands of a connection once and in order; manager and exchange agree; a name does not take over another's prices |
| Prompt (`control.rs`, `prompt`) | arguments, actions offered, connection | choose an action, ask for exchange and pair, connect, send | arguments cleared on some paths only; the server dies between connection and command | asks its user after the first turn; sends only to a server it reached |
| Process and file system (`main.rs`, `get_listener`, `create_socket`) | which socket files exist and whose listener they lead to | start, open the control socket, open price sockets, end, be killed | files of killed servers; two servers on one path; a path taken between remove and bind | a server gets to serve on whatever files it finds; only a server that runs at the same time can get in its way |
| Exchange names, Binance messages (`exchange_name.rs`, `binance/messages.rs`) | none | which names convert; how a symbol is spelled in requests and in prices | lower case is asked for, upper case answered, and compared exactly | a name no price is spelled like disturbs no other one |
| Numbers, error types, `commands.rs` | none | conversions | | see [Not modelled](#not-modelled) |

`PROJECT.json` lists the components with their status, every hazard with the line where it
bites, and the source lines each definition stands for.

## Modules

**`Broadcast`** is `tokio::sync::broadcast` as this code uses it, shared by the price socket and
the router: messages are numbered, a channel is a count, a receiver the number it asks for next;
`Lagged` tells a receiver how many it missed and moves it to the oldest message retained.

**`PriceSocket`** is one pair's unix socket. `ReceivePrice` is an iteration of the price loop,
with its comparison of floats (`SamePrice`: a NaN is not itself; the initial `(0, 0)` is `Zero`,
which is not `NoPrice`, the absence of any);
`Bind`, `BindFails`, `RemoveFails`, `RetryBind`, `Stop` are `create_unix_socket_listener` and
`create_socket`; `KeepLatestValue` is the loop that fills the watch; `HandleSingleConnection`
subscribes and reads the watch in one step, as the code does without an await; `RecvMessage`,
`RecvLagged`, `RecvClosed`, `WriteMessage`, `WriteFails` are the client task. A message is its
number in `log`. `seen`, `joined`, `delivered`, `lost` and `offered` are history. A client that
goes away is noticed at a write only, as in the code.

**`PriceFeed`** is the abstract promise of a price socket: prices are published, and each viewer
moves through them forwards. `PriceSocket!FeedSpec` states that the socket implements it
(`published` is the number broadcast, `view` the last message written).

**`BinanceExchange`** is the registry, alone without a next-state relation: the modules that extend
it say who calls its methods. Its methods have no await, so each is one step. A sender is
named by the pair whose socket it feeds, `Symbol` is `get_exchange_matching_pair`. The early
return of `add_pair` and the early return of `remove_pair` on the last pair are disjuncts of
their own. The module also has the end of a stopped websocket task. The second of those returns leaves
the pair registered with no websocket, and `add_pair` then refuses it: `OnlyLastIsUnfed` bounds this to
one pair. `ExchangeManager` never calls `remove_pair`, so it cannot happen today; whoever adds the call
has to look at `exchange.rs:66` first.

**`PairRouter`** extends the registry with what happens between the websocket and the price
sockets. `owner`, `link` and `asked` describe connections; `router[n]` is the task
`pairs_to_broadcast` of connection `n`, with its stages between `changed()`, `borrow()`, the loop
and `after_connection`; `listeners` are the live tasks of `create_pair_listener`, with the message
each holds while it waits for room. A connection that ends leaves its router and listeners
running, since dropping a `JoinHandle` detaches. Symbols have a spelling: `Market` takes the symbol
a pair is registered under to the one Binance writes in its prices, because
`create_binance_subscription_message` asks in lower case and `pair.rs:25` compares exactly. Prices
are numbered for each market; a router drops its clone of the registry at the end
of a round; `book` keeps it on as history, for the properties to compare with the listeners.

**`SymbolFeed`** is the abstract promise of the exchange to the price sockets: the prices of a market
are read one after the other; while all is calm each socket is shown them one after the other; once
a pair is added, a connection replaced or a listener lost, the number a socket shows is that of some
price already read of its market, older ones again included. The feed is one of numbers: that what a
listener forwards is of its own symbol is `ForwardsItsSymbol`. `PairRouter!FeedSpec` states that the router and its listeners
implement it (`shown` is the price a socket took last, `calm` is `Undisturbed`).

**`Websocket`** is the timing of one connection, in whole seconds: time passes only when no loop
has anything to do (`Due`). `TickDue`, `CheckPasses`, `QueuePing` and `CheckFails` are
`pong_check_interval_task`; `checker = "sending"` is the check waiting for room with the read
lock held, `reader = "storing"` the read loop waiting for that lock. `age` is the time since
`last_pong`. The other end is healthy, late, silent, jammed (takes no bytes) or closing.
`FailSlowly` and `FailAtOnce` are the two ways `reconnecting_websocket_connection` goes on.
Content is `PairRouter`'s part, time is this module's.

**`Control`** extends the registry with the control socket and the manager: clients write frames,
some of them broken, and close or die; each connection has a task that holds at most one command;
`TakePair` is one iteration of `ExchangeManager::run` with all of `add_pair`, which has no await
that waits. The code sends `(exchange, pair)` over the channel; the model sends the place of the
frame that named the pair, and uses no more of it than the pair. `taken` is history.

**`Delivery`** is the abstract promise of the control socket, one FIFO for each connection: what is
written is taken in order, once, with nothing but key commands passed over. `Control!DeliverySpec`
states that the control socket implements it (`written` and `taken` are the same).

**`Service`** is the program from its command line on, for several processes that share the file
system. `Start`, the `Choose…` actions, `Connect` and `Send` are the loop of `prompt`;
`CheckControl`, `RemoveControl` and `BindControl` are `get_listener`; `CheckFile`, `RemoveFile`,
`BindFile` and `RetryFile` are the same three system calls in `create_socket` and the retry around
them; `TakePair` is the manager again, here with the fate of its bridge task. Each system call is a
step, so that other processes come in between. `file[path]` is the process whose listener the file
leads to: a file outlives its process, and a prompt that follows it is refused. `met` is history: with whom a server
ran at the same time. `Killed` is a
process that is killed, or a prompt its user cancels, at any point.

The three views of a command meet in `TakePair`: `Control` says how it arrives, `Service` where its
bridge task gets a socket, `PriceSocket` what that socket does; `PairRouter` says where the prices
for it come from.

**`MC…`** modules give the model values, `…Proofs` modules hold the theorems (see
[Proofs](#proofs)). Definitions marked "Faulty variant" are plausible mistakes in the code; each
property is shown to fail when the definition after it is replaced by one of them.

## Runs

| Run | Instance | Shows |
|---|---|---|
| `PriceSocket_served` | 2 clients, ring of 2, 3 broadcasts among `(0,0)` and NaN | types; the watch follows its loop; no loss goes uncounted; a waiting client has the newest price; from the first broadcast on no change is swallowed or repeated, and before it only `(0,0)` is dropped; only newer messages are written; the feed is implemented; a client sent one message reaches the newest; client tasks end |
| `PriceSocket_race` | 1 client, 2 broadcasts | **violated**: a client accepted before the copy to the watch stays behind |
| `PairRouter_safety` | 3 names, one a lower-case spelling; 2 registries, 1 connection, 3 prices, ring of 2, channels of 1 | one listener per symbol; each forwards exactly its symbol's messages to its socket; until something is disturbed, the prices read of a pair are those its socket took, those in its channel and those ahead of its listener, in order and without a gap; `SymbolFeed` is implemented |
| `PairRouter_live` | 2 names added and removed, 2 registries, 2 connections, no traffic | every connection subscribes and listens, also after a reconnection; a router that waits with nothing to wake it serves the newest registry, with the leftovers of a connection about; the exchange is without a websocket only while at most one symbol is registered, the last one removed |
| `PairRouter_lag` | ring of 2, 3 prices | **violated**: a listener not polled in time, or waiting on a slow socket, ends for good |
| `PairRouter_gap` | 2 pairs added, 2 prices | **violated**: a price read while pairs are bridged again is lost |
| `Websocket_timing` | interval 2, timeout 4, channel of 2, round trip 1 | silence is bounded, and only a peer that takes no bytes can hold up an overdue check; a healthy peer never fails a check; a silent one is dropped |
| `Websocket_close` | the same | **violated**: after a Close frame the task hangs |
| `Control_served` | 2 connections of 2 frames, 3 names of 2 symbols, channel of 1 | the control socket implements `Delivery`; each command read is served, queued or held by its task, and no price socket comes from elsewhere; each completed command gets its price socket; manager and exchange agree; a second name does not take over a socket's prices |
| `Control_removal` | add and remove of 1 pair | **violated**: RemovePair acts as AddPair |
| `Service_restart` | 3 processes, each a prompt or a server, 2 pairs, 2 exchanges, 2 commands each | servers serve and get their price sockets on the files of killed ones; a server alone all its life opens its control socket and keeps it; only a server that runs at the same time with the same pair can end, delay or take a price socket; a command sent makes a handler |
| `Service_args` | the same | **violated**: with `add_key`, `remove_key` or an unknown action on its command line the prompt never asks its user |

Deadlock checking is off in every run: the bounds stop every model, and the server is idle when
no client, price, command or connection moves.

## Bounds

Every bound is a constant whose comment starts with "bound".

- Rings hold 1 or 2 messages instead of 32 and 1024, channels 1 or 2. With one more message than
  the ring holds a receiver lags, which is all the code can tell; the proofs cover every size.
- `MaxVersion` 2 has a registry change while a round for the previous one is under way;
  `MaxConns` 2 has a connection beside the leftovers of another.
- The `Websocket` instance scales 5 s / 10 s to 2 / 4. What matters is that the timeout is two
  intervals and that a round trip is shorter than an interval (`TimesAssumption`); the proofs use
  only that. `MaxAge` stops the age once no comparison can tell it apart, `MaxMissed` the number of
  overdue ticks, `Burst` what the peer does in one second (two per second also passes).
- `PairRouter_safety` has three names so that a registry holds a pair beside its lower-case spelling
  and beside another market; three reads overrun the ring of two. Removal is left to
  `PairRouter_live`, as `ExchangeManager` has no call of it.
- `Service_restart` has three processes: two servers that race for a path and a prompt, or a server that
  takes over from a killed one while a third starts. `MaxSends` 2 gives a prompt a turn after its
  first, which is where its arguments matter. A bridge task ends on a Fatal error only when two servers
  are about to remove a file that a third left or made, which takes a prompt beside three servers: three
  processes do not get there, and that part of `PairsApart` rests on its proof (`StaleFilesHarmless`).
- `Control` has two frames per connection, so that one can be broken and the other not, and a
  channel of one, so that it is full whenever it is used.
- `PriceSocket_served` offers `(0, 0)` and NaN only: they are the prices whose comparison is not
  that of distinct model values, and `(0, 0)` after a NaN behaves as any other price.

## Fairness

- Tasks: weak fairness of each task's steps. The runtime polls a task whose future is ready, and
  `select!` polls its branches in random order. It is strong where a task competes for room
  in a channel (`Control`, `Websocket`): tokio gives permits in turn.
- The clock in `Websocket` goes on whenever nothing is due.
- Processes in `Service`: one that has something to do goes on. Which processes are started or
  killed, and what users choose, is not under fairness; `RestartServes`, `CommandServed` and
  `SocketBound` excuse a process that is killed.
- Price clients are assumed to keep reading, so that a write completes (`EventuallyLatest` excuses
  those that disconnect).
- Nothing is assumed of prices, the network, Binance, the file system, operators or clients.

## Proofs

All are proved from the assumptions on the constants stated in the modules.

- `PriceSocketProofs`: the inductive invariant is `TypeOK /\ SocketInv`. `NoSilentLoss` is inductive
  alone, but `CaughtUpIsLatest` needs to know where a task stands between the message written last,
  the one being written and the one asked for (`ClientInv`), and that a task which has received a
  message and now waits has either written the one before or lags; `WatchFollowsKeeper` needs that
  the watch is one message behind the keeper unless that has just lagged (`WatchInv`). From it:
  `TypeCorrect`, `NothingLostSilently`, `WaitingClientIsCurrent`, `GreetingIsBroadcast`,
  `PriceLoopLossless` (with its exception: before the first broadcast `(0, 0)`, and nothing else, may have
  been dropped), `ClientsSeeNewer`, and the refinement `ImplementsFeed`.
- `WebsocketProofs`: `SilenceBounded` says nothing of the time to the next tick, so the invariant is
  the budget `age + wait <= Timeout + Interval` while the wait is positive; `HealthyKept` needs the
  budget of a ping: queued and written in the second of its tick, answered within `Rtt` of it.
  From it: `TypeCorrect`, `SilenceIsBounded`, `HealthyIsKept`. That only a peer that takes no bytes holds
  up an overdue check is the argument that read loop and pong check do not block each other: each
  waits for room in the queue only, or for the other, and the write loop makes room (`OverdueIsJammed`).
- `BinanceExchangeProofs`: lemmas that `add_pair`, `remove_pair` and the end of a websocket keep
  `ExchangeTypeOK`, every sender under the symbol of its socket (`SendersFiled`) and `OnlyLastIsUnfed`,
  whoever calls them; the router's and the control socket's proofs cite them.
- `PairRouterProofs`: the invariant relates a router's place in its round to its listeners.
  `RouterInv` says what a router holds in each stage. `ListenerInv` says that the listeners of a
  round, together with those whose receiver failed, are those of the pairs the round has bridged,
  that those of other rounds are older, and that no identity is used twice: a router that missed
  several registries, or is woken again before it cloned one, still ends with one listener each.
  `ForwardInv` places a listener and the message it holds in its channel, from which the count of
  `ForwardsItsSymbol` is inductive. From it: `TypeCorrect`, `OneListener`, `ForwardsExactly`;
  `UnfedIsLast` (`OnlyLastIsUnfed`) is inductive with the types alone.
- `PairOrderProofs`: `OrderKept`, on top of that. While nothing is disturbed there is one registry,
  one round and one listener (`FirstRound`); nothing is read before it is asked for, by when
  the listener has subscribed (`NothingYet`); a message's place in the channel is its price's number
  (`Numbered`); and the price taken last, those in the channel of the socket, the one held and the
  one asked for are consecutive (`InLine`).
- `PairFeedProofs`: two results on top of those. `CurrentRegistryServed` (`ServesCurrentRegistry`): the
  version a router has marked as seen is that of its clone from `borrow()` on and stays between it and the
  newest one (`RegistrySeen`), so that a router with nothing to wake it has bridged the newest registry.
  `ImplementsSymbolFeed` (`FeedSpec`): every message on the ring, in a listener's hand or in a channel is a
  price of its market that was read, and sits with listeners and sockets of that market only (`Priced`);
  while nothing is disturbed `OrderKept` makes a read by a socket the next price of its market.
- `ControlProofs`: `ImplementsDelivery`, for which every pair read is taken, queued or held
  (`ReadIsKept`) and the frames of a connection are queued in order between those taken and the one
  held (`QueueInOrder`); `ManagerAgrees`, from an invariant that adds that a held stop sender belongs
  to a running task; `NoCommandLost` (`CommandsAccounted`), from `ReadIsKept` and the fact that the manager
  passes over key commands only; `FirstNameKeeps`; `TypeCorrect`.
- `ServiceProofs`: servers that run at the same time have met, and the file at the control path only
  changes under a server's hands when one it has met changes it (`ApartInv`); hence `AloneServes`
  (`ServersApart`). `StaleFilesHarmless` (`PairsApart`) adds that only a server that serves has bridge tasks,
  and that a file about to be removed only goes, and a path about to be bound is only taken, when the
  bridge task of a server it has met does it (`RivalInv`). Both are about live servers and name the culprit among those that ran at the same
  time: a server that was killed before does not count. `TypeCorrect` includes that a prompt sends to a
  server it is connected to only.

Every safety invariant, action property and refinement of a passing run is proved. Model-checked
only: the liveness properties, since the prover does not do liveness under fairness.

## Findings

1. `unix_socket.rs:73` A client accepted between a broadcast and its copy to the watch is
   greeted with an older price, or none, and is not sent the newest until the next change.
2. `control.rs:158` `add_key`, `remove_key` and unknown actions go on with the loop before `args` is
   cleared: given on the command line, they are taken again on each turn, and the prompt never asks.
3. `pair.rs:29` `Lagged` ends a listener as `Closed` does; its pair is silent until the registry
   changes or the websocket reconnects.
4. `public.rs:148` Listeners are cancelled before their successors subscribe; prices in
   between are lost.
5. `public.rs:39` After the Close handshake `read.next()` returns `None` for ever; the loop
   spins without yielding and never reconnects. Nor can the task be stopped then: its stop receiver is
   not polled again.
6. `control.rs:86` A RemovePair command is executed as AddPair.

Worth knowing, without a run that shows it:

- A first price of `(0, 0)` passes for a repetition of the initial value and reaches no client
  (`handler.rs:33`); `BroadcastIsLossless` names it as its one exception.
- The last pair removed stays registered, against the comment at `exchange.rs:64`, its websocket is
  stopped, and `add_pair` refuses to add it again (`exchange.rs:66`). Nothing calls `remove_pair` yet.
- The router and the listeners of a connection go on when it ends or is stopped: they are spawned, and
  no token or handle reaches them (`public.rs:26`). Each reconnection leaves such a set behind.
- A pair whose bridge task ended on a Fatal error cannot be added again (`manager.rs:42`).
- A pair given in lower or mixed case gets a socket that is never fed.
- A second name of a registered symbol gets a socket whose price loop receives `None` for ever, as its
  sender was dropped.
- Of two servers that are told to add the same pair, one takes the socket of the other.

## Not modelled

- `json/deserializers/f64.rs`, the JSON of `exchanges/binance/messages.rs`: stateless parsing; a price
  is an atom. Messages that do not parse are logged and skipped. Of the messages, the spelling of
  symbols is modelled.
- `exchange_name.rs`: that only Binance converts is modelled, `Display` and the conversions to text
  serve paths and logs. Error types are enumerations; `commands.rs` is unused.
- Logging; failures of file system calls that no other process causes (permissions, a missing
  directory).
- `ChannelClosed` branches of the websocket and the fatal channel of the control socket: the
  other ends of those channels live as long as the code that uses them, or the process ends.
- Order across a registry change or a reconnection: an old listener may forward its last
  message after a new one has forwarded. No document promises otherwise.

## Plan

Built so far, in order of importance: the price socket, its refinement and proofs; the registry and
the router with its refinement and proofs of all their invariants; the websocket's timing and proofs; the control
socket with the manager, its refinement and proofs; the processes with prompt, restart and stale
files, and proofs.

What is left:

1. Composition of the router with the price socket's life cycle in one model: the channel to a socket
   whose task has ended is closed, and what its listener sends is lost without a trace (`pair.rs:26`).
2. Composition of the websocket's phases with the router: how long a client sees no price when a
   connection is dropped. Today time is `Websocket`'s, content is `PairRouter`'s.
3. An abstract specification of the whole: a command sent leads to prices at the socket it names.
