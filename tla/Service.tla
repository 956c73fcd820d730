-------------------------------- MODULE Service --------------------------------
(***************************************************************************)
(* The program from its command line on.  A process is a prompt, and stays *)
(* one or becomes a server; processes meet in the file system only, where  *)
(* socket files lead prompts to servers and consumers to price sockets.  A *)
(* process may be killed at any time and leaves its files behind; another  *)
(* one, started on the same paths, has to cope with them.                  *)
(*                                                                         *)
(* A command travels on a connection of its own, so that the commands of   *)
(* one prompt may reach the manager in any order: how they do is Control's *)
(* part, what a price socket does once it listens PriceSocket's.  File     *)
(* system calls only fail here because of another process.                 *)
(***************************************************************************)
EXTENDS Integers, FiniteSets

CONSTANTS
  Processes,     \* the runs of the program, each started once
  Pairs,         \* names of pairs; UNIX_SOCKET_BASE_PATH is the same for all processes
  Exchanges,     \* the names get_exchange offers
  Binance,       \* the only one that converts to an ExchangeName
  CommandLines,  \* what a process can be started with, each an [action, pair]; what a
                 \* command line leaves open is asked of the user: any of them
  NoArgs,        \* no arguments, or none any more
  None,          \* no process, no pair
  MaxSends       \* bound: commands sent by one prompt

Actions == {"serve", "add_pair", "remove_pair", "add_key", "remove_key", "unknown"}

ASSUME ExchangesAssumption == Binance \in Exchanges
ASSUME CommandLinesAssumption == CommandLines \subseteq [action : Actions, pair : Pairs] \cup {NoArgs}
ASSUME MaxSendsAssumption == MaxSends \in Nat

\* The path of the control socket, BITTRADE_SOCKET_PATH; a pair stands for its path.
Control == "control"

ASSUME NamesAssumption ==
  None \notin Processes \cup Pairs /\ Control \notin Pairs /\ NoArgs \notin [action : Actions, pair : Pairs]

VARIABLES
  stage,     \* stage[q]: where process q stands
  args,      \* args[q]: what the prompt still has of its command line
  offered,   \* offered[q]: the actions the prompt offers its user
  command,   \* command[q]: the pair the prompt is about to send, added or removed alike
  peer,      \* peer[q]: the server the prompt is connected to
  sends,     \* sends[q]: commands sent
  transit,   \* transit[r]: pairs sent to server r that its manager has not taken
  bridge,    \* bridge[r][p]: the bridge task server r spawned for p
  file       \* file[path]: the process whose listener the socket file leads to

\* History, never read by an action.
VARIABLE met \* met[q]: the servers that ran while server q did, q among them

promptVars == <<args, offered, command, peer, sends>>
vars       == <<stage, promptVars, transit, bridge, file, met>>

Asking  == {"asking", "connecting", "sending"}
Opening == {"checking", "removing", "binding"}
Serving == Opening \cup {"serving"}
Dead    == {"killed", "failed"}

Init ==
  /\ stage = [q \in Processes |-> "off"]
  /\ args = [q \in Processes |-> NoArgs]
  /\ offered = [q \in Processes |-> Actions \ {"unknown"}]
  /\ command = [q \in Processes |-> None]
  /\ peer = [q \in Processes |-> None]
  /\ sends = [q \in Processes |-> 0]
  /\ transit = [q \in Processes |-> {}]
  /\ bridge = [q \in Processes |-> [p \in Pairs |-> "none"]]
  /\ file = [path \in Pairs \cup {Control} |-> None]
  /\ met = [q \in Processes |-> {}]

\* Where q goes next.
Goto(q, s) == stage' = [stage EXCEPT ![q] = s]
--------------------------------------------------------------------------------
(* prompt *)

Start(q) ==
  /\ stage[q] = "off"
  /\ Goto(q, "asking")
  /\ \E line \in CommandLines : args' = [args EXCEPT ![q] = line]
  /\ UNCHANGED <<offered, command, peer, sends, transit, bridge, file, met>>

\* The action at the top of the loop: the command line's, else one the user selects.
Choice(q) == IF args[q] = NoArgs THEN offered[q] ELSE {args[q].action}

\* Serve is final.
ChooseServe(q) ==
  /\ stage[q] = "asking" /\ "serve" \in Choice(q)
  /\ Goto(q, "checking")
  /\ LET servers == {r \in Processes : stage[r] \in Serving} \cup {q}
     IN  met' = [r \in Processes |-> IF r \in servers THEN met[r] \cup (IF r = q THEN servers ELSE {q}) ELSE met[r]]
  /\ UNCHANGED <<promptVars, transit, bridge, file>>

\* The pair of the command line, else one the user types.
PairChoice(q) == IF args[q] = NoArgs THEN Pairs ELSE {args[q].pair}

\* What comes of an exchange: the others are unimplemented!(), which ends the process.
WithExchange(x) == IF x = Binance THEN "connecting" ELSE "failed"

\* add_pair and remove_pair
ChoosePair(q) ==
  /\ stage[q] = "asking" /\ Choice(q) \cap {"add_pair", "remove_pair"} # {}
  /\ sends[q] < MaxSends
  /\ offered' = [offered EXCEPT ![q] = @ \ {"serve"}]
  /\ \E x \in Exchanges : Goto(q, WithExchange(x))
  /\ \E p \in PairChoice(q) : command' = [command EXCEPT ![q] = p]
  /\ UNCHANGED <<args, peer, sends, transit, bridge, file, met>>

\* Any other action is logged and the loop goes on.
ChooseOther(q) ==
  /\ stage[q] = "asking" /\ Choice(q) \ {"serve", "add_pair", "remove_pair"} # {}
  /\ offered' = [offered EXCEPT ![q] = @ \ {"serve"}]
  /\ UNCHANGED <<stage, args, command, peer, sends, transit, bridge, file, met>>

\* Faulty variant: the prompt goes on without a connection.
ConnectAnyway(q) ==
  /\ stage[q] = "connecting"
  /\ Goto(q, "sending")
  /\ peer' = [peer EXCEPT ![q] = file[Control]]
  /\ UNCHANGED <<args, offered, command, sends, transit, bridge, file, met>>

\* get_stream: without a listener behind the path the process panics.
Connect(q) ==
  /\ stage[q] = "connecting"
  /\ LET r == file[Control] IN
       IF r # None /\ stage[r] = "serving"
       THEN /\ Goto(q, "sending")
            /\ peer' = [peer EXCEPT ![q] = r]
            /\ args' = [args EXCEPT ![q] = NoArgs]
       ELSE Goto(q, "failed") /\ UNCHANGED <<args, peer>>
  /\ UNCHANGED <<offered, command, sends, transit, bridge, file, met>>

\* send_to_socket, and the next turn of the loop; it fails when the server has died.
Send(q) ==
  /\ stage[q] = "sending"
  /\ IF stage[peer[q]] = "serving"
     THEN /\ Goto(q, "asking")
          /\ transit' = [transit EXCEPT ![peer[q]] = @ \cup {command[q]}]
          /\ sends' = [sends EXCEPT ![q] = @ + 1]
     ELSE Goto(q, "failed") /\ UNCHANGED <<transit, sends>>
  /\ peer' = [peer EXCEPT ![q] = None] /\ command' = [command EXCEPT ![q] = None]
  /\ UNCHANGED <<args, offered, bridge, file, met>>
--------------------------------------------------------------------------------
(* main and listen_to_control: opening the control socket. *)

\* Faulty variant: the path is bound without a look at it.
NextForPathUnchecked(path) == "binding"

\* exists(): what comes next for a path about to be bound.
NextForPath(path) == IF file[path] = None THEN "binding" ELSE "removing"

CheckControl(q) ==
  /\ stage[q] = "checking"
  /\ Goto(q, NextForPath(Control))
  /\ UNCHANGED <<promptVars, transit, bridge, file, met>>

\* A file that has gone meanwhile is an error, on which listen_to_control panics.
RemoveControl(q) ==
  /\ stage[q] = "removing"
  /\ Goto(q, IF file[Control] = None THEN "failed" ELSE "binding")
  /\ file' = [file EXCEPT ![Control] = None]
  /\ UNCHANGED <<promptVars, transit, bridge, met>>

BindControl(q) ==
  /\ stage[q] = "binding"
  /\ IF file[Control] = None
     THEN Goto(q, "serving") /\ file' = [file EXCEPT ![Control] = q]
     ELSE Goto(q, "failed") /\ UNCHANGED file
  /\ UNCHANGED <<promptVars, transit, bridge, met>>
--------------------------------------------------------------------------------
(* The manager and its price sockets. *)

\* Faulty variant: a pair whose socket file exists is taken for one that has a handler.
NewPairByFile(q, p) == bridge[q][p] = "none" /\ file[p] = None

\* The pair is not in price_sockets: no handler was ever made, whatever became of it.
NewPair(q, p) == bridge[q][p] = "none"

\* ExchangeManager::run takes one of the commands under way, added or removed alike.
TakePair(q) ==
  /\ stage[q] = "serving"
  /\ \E p \in transit[q] :
       /\ transit' = [transit EXCEPT ![q] = @ \ {p}]
       /\ bridge' = [bridge EXCEPT ![q][p] = IF NewPair(q, p) THEN "checking" ELSE @]
  /\ UNCHANGED <<stage, promptVars, file, met>>

Becomes(q, p, s) == bridge' = [bridge EXCEPT ![q][p] = s]

\* Faulty variant: a file is removed without asking whether there is one.
CheckFileNever(q, p) == bridge[q][p] = "checking" /\ Becomes(q, p, "removing") /\ UNCHANGED file

\* create_socket: exists, remove_file, bind, between which other processes run.
CheckFile(q, p) ==
  /\ bridge[q][p] = "checking"
  /\ Becomes(q, p, NextForPath(p))
  /\ UNCHANGED file

\* A file that has gone meanwhile is a Fatal error, which ends the task.
RemoveFile(q, p) ==
  /\ bridge[q][p] = "removing"
  /\ Becomes(q, p, IF file[p] = None THEN "ended" ELSE "binding")
  /\ file' = [file EXCEPT ![p] = None]

\* A path taken meanwhile is a ConnectionError, tried again after a second.
BindFile(q, p) ==
  /\ bridge[q][p] = "binding"
  /\ IF file[p] = None
     THEN Becomes(q, p, "listening") /\ file' = [file EXCEPT ![p] = q]
     ELSE Becomes(q, p, "retrying") /\ UNCHANGED file

\* Faulty variant: the path is bound again without a look at what took it.
RetryBindOnly(q, p) ==
  /\ bridge[q][p] = "retrying"
  /\ Becomes(q, p, "binding")
  /\ UNCHANGED file

RetryFile(q, p) ==
  /\ bridge[q][p] = "retrying"
  /\ Becomes(q, p, "checking")
  /\ UNCHANGED file

BridgeStep(q, p) ==
  /\ stage[q] = "serving"
  /\ CheckFile(q, p) \/ RemoveFile(q, p) \/ BindFile(q, p) \/ RetryFile(q, p)
  /\ UNCHANGED <<stage, promptVars, transit, met>>
--------------------------------------------------------------------------------
\* The process is killed, or a prompt is cancelled by its user.
Killed(q) ==
  /\ stage[q] \in Asking \cup Serving
  /\ Goto(q, "killed")
  /\ transit' = [transit EXCEPT ![q] = {}]
  /\ UNCHANGED <<promptVars, bridge, file, met>>

Talk(q)  == Connect(q) \/ Send(q)
Open(q)  == CheckControl(q) \/ RemoveControl(q) \/ BindControl(q)

Next ==
  \E q \in Processes :
    \/ Start(q) \/ ChooseServe(q) \/ ChoosePair(q) \/ ChooseOther(q) \/ Killed(q)
    \/ Talk(q) \/ Open(q) \/ TakePair(q)
    \/ \E p \in Pairs : BridgeStep(q, p)

Spec == Init /\ [][Next]_vars

\* A process that has something to do goes on.  Nothing is assumed of users, nor of
\* which processes are started and killed.
Fairness ==
  \A q \in Processes :
    /\ WF_vars(Talk(q) \/ Open(q)) /\ WF_vars(TakePair(q))
    /\ \A p \in Pairs : WF_vars(BridgeStep(q, p))

FairSpec == Spec /\ Fairness
--------------------------------------------------------------------------------
(* Properties. *)

TypeOK ==
  /\ stage \in [Processes -> {"off"} \cup Asking \cup Serving \cup Dead]
  /\ args \in [Processes -> CommandLines \cup {NoArgs}]
  /\ offered \in [Processes -> SUBSET Actions]
  /\ command \in [Processes -> Pairs \cup {None}]
  /\ peer \in [Processes -> Processes \cup {None}]
  /\ sends \in [Processes -> 0..MaxSends]
  /\ \A q \in Processes :
       /\ stage[q] \in {"connecting", "sending"} => command[q] # None /\ sends[q] < MaxSends
       /\ stage[q] = "sending" => peer[q] # None
  /\ transit \in [Processes -> SUBSET Pairs]
  /\ bridge \in [Processes -> [Pairs -> {"none", "checking", "removing", "binding",
                                       "retrying", "listening", "ended"}]]
  /\ file \in [Pairs \cup {Control} -> Processes \cup {None}]
  /\ met \in [Processes -> SUBSET Processes]

\* A live server whose price socket's task ended on a Fatal error, or has to try again, or
\* whose file leads elsewhere, ran at the same time as one that was told to add the same
\* pair: the files that killed servers and prompts leave behind do no harm, and cost no
\* second of waiting (create_socket, ExchangeManager::add_pair).
PairsApart ==
  \A q \in Processes, p \in Pairs :
    stage[q] = "serving" /\ (bridge[q][p] \in {"ended", "retrying"} \/ (bridge[q][p] = "listening" /\ file[p] # q)) =>
      \E r \in met[q] \ {q} : bridge[r][p] # "none"

\* A server that fails to open its control socket, or serves while the file leads
\* elsewhere, so that no prompt reaches it, has met another server: one that was alone all
\* its life copes with whatever file was left at the path (get_listener).
ServersApart ==
  \A q \in Processes :
    q \in met[q] /\ (stage[q] = "failed" \/ (stage[q] = "serving" /\ file[Control] # q)) => met[q] # {q}

\* No server but q.
Alone(q) == \A r \in Processes \ {q} : stage[r] \notin Serving

\* A server that starts, also on the files of one that was killed at any point, gets to
\* serve unless it is killed or meets another one (get_listener).
RestartServes ==
  \A q \in Processes :
    stage[q] = "checking" /\ Alone(q) ~> stage[q] \in {"serving", "killed"} \/ ~Alone(q)

\* A command sent reaches the manager of the server it was sent to, in whatever order,
\* and makes a handler, unless the server is killed (prompt, TakePair).
CommandServed ==
  \A q \in Processes, p \in Pairs :
    p \in transit[q] ~> bridge[q][p] # "none" \/ stage[q] = "killed"

\* No other live server has a handler for p.
Sole(q, p) == \A r \in Processes \ {q} : stage[r] = "serving" => bridge[r][p] = "none"

\* A bridge task gets its socket, whatever earlier servers left at the path, unless
\* another server handles the pair (create_unix_socket_listener).
SocketBound ==
  \A q \in Processes, p \in Pairs :
    bridge[q][p] \in {"checking", "retrying"} /\ Sole(q, p) ~> file[p] = q \/ stage[q] = "killed" \/ ~Sole(q, p)

\* From its second turn on the prompt asks its user (control.rs: "Clear the args vector
\* so we can prompt the user for the action and arguments next time").
AsksAfterFirst ==
  \A q \in Processes : stage[q] = "asking" /\ "serve" \notin offered[q] => args[q] = NoArgs
================================================================================
