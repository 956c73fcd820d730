----------------------------- MODULE ServiceProofs -----------------------------
(***************************************************************************)
(* What stale socket files can do to servers and to their price sockets,   *)
(* for any number of processes, pairs and commands.                        *)
(***************************************************************************)
EXTENDS Service, TLAPS

\* What an action of the prompt or of the control socket leaves alone.
LEMMA PromptStep ==
  ASSUME TypeOK, NEW q \in Processes,
         Start(q) \/ ChooseServe(q) \/ ChoosePair(q) \/ ChooseOther(q) \/ Killed(q) \/ Talk(q) \/ Open(q)
  PROVE  UNCHANGED bridge /\ \A p \in Pairs : file'[p] = file[p]
BY NamesAssumption
DEF TypeOK, Start, ChooseServe, ChoosePair, ChooseOther, Killed, Talk, Open, Connect, Send,
    CheckControl, RemoveControl, BindControl

--------------------------------------------------------------------------------
(* Types *)

LEMMA GotoTyped ==
  ASSUME TypeOK, NEW q \in Processes, NEW s \in {"off"} \cup Asking \cup Serving \cup Dead, Goto(q, s)
  PROVE  stage' \in [Processes -> {"off"} \cup Asking \cup Serving \cup Dead]
BY DEF TypeOK, Goto

LEMMA AskTyped ==
  ASSUME TypeOK, NEW q \in Processes, Start(q) \/ ChooseServe(q) \/ ChoosePair(q) \/ ChooseOther(q)
  PROVE  TypeOK'
<1> USE DEF TypeOK, Asking, Serving, Opening, Dead, Goto
<1>1. CASE Start(q) BY <1>1 DEF Start
<1>2. CASE ChooseServe(q) BY <1>2 DEF ChooseServe, promptVars
<1>3. CASE ChooseOther(q) BY <1>3 DEF ChooseOther
<1>4. CASE ChoosePair(q)
  <2>1. PICK p \in PairChoice(q) : command' = [command EXCEPT ![q] = p]
    BY <1>4 DEF ChoosePair
  <2>2. p \in Pairs /\ p # None
    BY <2>1, CommandLinesAssumption, NamesAssumption DEF PairChoice
  <2>3. stage' \in [Processes -> {"off"} \cup Asking \cup Serving \cup Dead] /\ stage'[q] \in {"connecting", "failed"}
        /\ \A r \in Processes \ {q} : stage'[r] = stage[r]
    BY <1>4 DEF ChoosePair, WithExchange
  <2>4. offered' \in [Processes -> SUBSET Actions]
    BY <1>4 DEF ChoosePair
  <2>5. UNCHANGED <<args, peer, sends, transit, bridge, file, met>> /\ sends[q] < MaxSends
    BY <1>4 DEF ChoosePair
  <2>6. /\ command' \in [Processes -> Pairs \cup {None}] /\ command'[q] = p
        /\ \A r \in Processes \ {q} : command'[r] = command[r]
    BY <2>1, <2>2
  <2>7. ASSUME NEW r \in Processes
        PROVE  /\ stage'[r] \in {"connecting", "sending"} => command'[r] # None /\ sends[r] < MaxSends
               /\ stage'[r] = "sending" => peer[r] # None
    <3>1. CASE r = q
      BY <3>1, <2>2, <2>3, <2>5, <2>6
    <3>2. CASE r # q
      BY <3>2, <2>3, <2>6
    <3> QED BY <3>1, <3>2
  <2>8. \A r \in Processes :
          /\ (stage[r] \in {"connecting", "sending"} => command[r] # None /\ sends[r] < MaxSends)'
          /\ (stage[r] = "sending" => peer[r] # None)'
    BY <2>5, <2>7
  <2>9. (/\ args \in [Processes -> CommandLines \cup {NoArgs}]
         /\ peer \in [Processes -> Processes \cup {None}]
         /\ sends \in [Processes -> 0..MaxSends]
         /\ transit \in [Processes -> SUBSET Pairs]
         /\ bridge \in [Processes -> [Pairs -> {"none", "checking", "removing", "binding",
                                              "retrying", "listening", "ended"}]]
         /\ file \in [Pairs \cup {Control} -> Processes \cup {None}]
         /\ met \in [Processes -> SUBSET Processes])'
    BY <2>5
  <2> HIDE DEF Asking, Serving, Opening, Dead
  <2> QED BY <2>3, <2>4, <2>6, <2>8, <2>9
<1> QED BY <1>1, <1>2, <1>3, <1>4

LEMMA TalkTyped ==
  ASSUME TypeOK, NEW q \in Processes, Talk(q) \/ Open(q) \/ Killed(q)
  PROVE  TypeOK'
<1> USE DEF TypeOK, Asking, Serving, Opening, Dead, Goto
<1>1. CASE Connect(q) BY <1>1, NamesAssumption DEF Connect
<1>2. CASE Send(q)
  <2>1. /\ stage' \in [Processes -> {"off"} \cup Asking \cup Serving \cup Dead] /\ stage'[q] \in {"asking", "failed"}
        /\ \A r \in Processes \ {q} : stage'[r] = stage[r]
    BY <1>2 DEF Send
  <2>2. /\ peer' \in [Processes -> Processes \cup {None}] /\ command' \in [Processes -> Pairs \cup {None}]
        /\ \A r \in Processes \ {q} : peer'[r] = peer[r] /\ command'[r] = command[r]
    BY <1>2 DEF Send
  <2>3. stage[q] = "sending" /\ peer[q] \in Processes /\ command[q] \in Pairs /\ sends[q] < MaxSends
    BY <1>2 DEF Send
  <2>4. transit' \in [Processes -> SUBSET Pairs]
    <3>1. transit' = [transit EXCEPT ![peer[q]] = @ \cup {command[q]}] \/ UNCHANGED transit
      BY <1>2 DEF Send
    <3>2. transit \in [Processes -> SUBSET Pairs]
      OBVIOUS
    <3> HIDE DEF TypeOK, Asking, Serving, Opening, Dead, Goto
    <3> QED BY <3>1, <3>2, <2>3
  <2>5. /\ sends' \in [Processes -> 0..MaxSends]
        /\ \A r \in Processes \ {q} : sends'[r] = sends[r]
    <3>1. sends' = [sends EXCEPT ![q] = @ + 1] \/ UNCHANGED sends
      BY <1>2 DEF Send
    <3>2. sends \in [Processes -> 0..MaxSends]
      OBVIOUS
    <3> HIDE DEF TypeOK, Asking, Serving, Opening, Dead, Goto
    <3> QED BY <3>1, <3>2, <2>3, MaxSendsAssumption
  <2>6. UNCHANGED <<args, offered, bridge, file, met>>
    BY <1>2 DEF Send
  <2>7. ASSUME NEW r \in Processes
        PROVE  /\ stage'[r] \in {"connecting", "sending"} => command'[r] # None /\ sends'[r] < MaxSends
               /\ stage'[r] = "sending" => peer'[r] # None
    BY <2>1, <2>2, <2>5
  <2> HIDE DEF Asking, Serving, Opening, Dead
  <2>8. \A r \in Processes :
          /\ (stage[r] \in {"connecting", "sending"} => command[r] # None /\ sends[r] < MaxSends)'
          /\ (stage[r] = "sending" => peer[r] # None)'
    BY <2>7
  <2>9. (/\ args \in [Processes -> CommandLines \cup {NoArgs}]
         /\ offered \in [Processes -> SUBSET Actions]
         /\ bridge \in [Processes -> [Pairs -> {"none", "checking", "removing", "binding",
                                              "retrying", "listening", "ended"}]]
         /\ file \in [Pairs \cup {Control} -> Processes \cup {None}]
         /\ met \in [Processes -> SUBSET Processes])'
    BY <2>6
  <2> QED BY <2>1, <2>2, <2>4, <2>5, <2>8, <2>9
<1>3. CASE CheckControl(q) BY <1>3 DEF CheckControl, NextForPath, promptVars
<1>4. CASE RemoveControl(q) BY <1>4 DEF RemoveControl, promptVars
<1>5. CASE BindControl(q) BY <1>5 DEF BindControl, promptVars
<1>6. CASE Killed(q) BY <1>6 DEF Killed, promptVars
<1> QED BY <1>1, <1>2, <1>3, <1>4, <1>5, <1>6 DEF Talk, Open

LEMMA BridgeTyped ==
  ASSUME TypeOK, NEW q \in Processes, TakePair(q) \/ \E p \in Pairs : BridgeStep(q, p)
  PROVE  TypeOK'
<1> USE DEF TypeOK
<1>1. CASE TakePair(q) BY <1>1 DEF TakePair, promptVars
<1>2. ASSUME NEW p \in Pairs, BridgeStep(q, p) PROVE TypeOK'
  <2>1. UNCHANGED <<stage, promptVars, transit, met>>
    BY <1>2 DEF BridgeStep
  <2>2. file' \in [Pairs \cup {Control} -> Processes \cup {None}]
    BY <1>2 DEF BridgeStep, CheckFile, RemoveFile, BindFile, RetryFile
  <2>3. \E s \in {"checking", "removing", "binding", "retrying", "listening", "ended"} : Becomes(q, p, s)
    BY <1>2 DEF BridgeStep, CheckFile, RemoveFile, BindFile, RetryFile, NextForPath
  <2> QED BY <2>1, <2>2, <2>3 DEF Becomes, promptVars
<1> QED BY <1>1, <1>2

\* The state stays well typed: in particular a prompt only sends to a server it is
\* connected to.
THEOREM TypeCorrect == Spec => []TypeOK
<1>1. Init => TypeOK
  BY MaxSendsAssumption DEF Init, TypeOK
<1>2. TypeOK /\ [Next]_vars => TypeOK'
  <2>1. CASE UNCHANGED vars
    BY <2>1 DEF vars, promptVars, TypeOK
  <2> QED BY <2>1, AskTyped, TalkTyped, BridgeTyped DEF Next
<1> QED BY <1>1, <1>2, PTL DEF Spec
--------------------------------------------------------------------------------
(* Who met whom *)

\* Another server ran while server q did.
HasMet(q) == met[q] \ {q} # {}

\* ServersApart, and what makes it inductive: servers that run together have met, and
\* the control file only changes under a server's hands when another one changes it.
ApartInv ==
  /\ \A q, r \in Processes : stage[q] \in Serving /\ stage[r] \in Serving => r \in met[q]
  /\ \A q \in Processes :
       /\ q \in met[q] => stage[q] \in Serving \cup Dead
       /\ stage[q] = "removing" /\ file[Control] = None => HasMet(q)
       /\ stage[q] = "binding" /\ file[Control] # None => HasMet(q)
       /\ stage[q] = "serving" /\ file[Control] # q => HasMet(q)
       /\ q \in met[q] /\ stage[q] = "failed" => HasMet(q)

\* Only serve adds a process to what servers met, and nothing takes one away.
LEMMA MetGrows ==
  ASSUME TypeOK, [Next]_vars
  PROVE  \A q \in Processes : met[q] \subseteq met'[q]
<1>1. CASE UNCHANGED met
  BY <1>1
<1>2. CASE \E q \in Processes : ChooseServe(q)
  BY <1>2 DEF ChooseServe, TypeOK
<1>3. UNCHANGED met \/ \E q \in Processes : ChooseServe(q)
  BY DEF Next, vars, Start, ChoosePair, ChooseOther, Killed, Talk, Open, Connect, Send, CheckControl,
         RemoveControl, BindControl, TakePair, BridgeStep
<1> QED BY <1>1, <1>2, <1>3

\* A process that leaves the prompt for good, or moves about in it, has not met anyone.
LEMMA AskKeepsApart ==
  ASSUME TypeOK, ApartInv, NEW q \in Processes, Start(q) \/ ChoosePair(q) \/ ChooseOther(q) \/ Talk(q)
  PROVE  ApartInv'
<1>1. /\ stage[q] \notin Serving \cup Dead /\ stage'[q] \notin Serving
      /\ \A r \in Processes \ {q} : stage'[r] = stage[r]
      /\ stage'[q] # "removing" /\ stage'[q] # "binding" /\ stage'[q] # "serving"
  BY DEF Start, ChoosePair, ChooseOther, Talk, Connect, Send, WithExchange, Goto, TypeOK, Asking, Serving, Opening, Dead
<1>2. UNCHANGED <<met, file>>
  BY DEF Start, ChoosePair, ChooseOther, Talk, Connect, Send
<1>3. q \notin met[q]
  BY <1>1 DEF ApartInv
<1> QED BY <1>1, <1>2, <1>3 DEF ApartInv, HasMet

LEMMA ServeKeepsApart ==
  ASSUME TypeOK, ApartInv, NEW q \in Processes, ChooseServe(q)
  PROVE  ApartInv'
<1>1. /\ stage[q] = "asking" /\ stage'[q] = "checking"
      /\ \A r \in Processes \ {q} : stage'[r] = stage[r]
      /\ UNCHANGED file
  BY DEF ChooseServe, Goto, TypeOK
<1>2. /\ q \in met'[q]
      /\ \A r \in Processes \ {q} : stage[r] \in Serving => r \in met'[q] /\ met'[r] = met[r] \cup {q}
      /\ \A r \in Processes \ {q} : stage[r] \notin Serving => met'[r] = met[r]
  BY DEF ChooseServe, TypeOK
<1>3. stage'[q] \in Serving
  BY <1>1 DEF Serving, Opening
<1>4. ASSUME NEW r \in Processes, NEW t \in Processes, stage'[r] \in Serving, stage'[t] \in Serving
      PROVE  t \in met'[r]
  BY <1>1, <1>2, <1>4 DEF ApartInv
<1>5. ASSUME NEW r \in Processes
      PROVE  /\ r \in met'[r] => stage'[r] \in Serving \cup Dead
             /\ stage'[r] = "removing" /\ file'[Control] = None => HasMet(r)'
             /\ stage'[r] = "binding" /\ file'[Control] # None => HasMet(r)'
             /\ stage'[r] = "serving" /\ file'[Control] # r => HasMet(r)'
             /\ r \in met'[r] /\ stage'[r] = "failed" => HasMet(r)'
  <2>1. CASE r = q
    BY <2>1, <1>1, <1>3
  <2>2. CASE r # q /\ stage[r] \in Serving
    BY <2>2, <1>1, <1>2 DEF HasMet
  <2>3. CASE r # q /\ stage[r] \notin Serving
    BY <2>3, <1>1, <1>2 DEF ApartInv, HasMet
  <2> QED BY <2>1, <2>2, <2>3
<1> QED BY <1>4, <1>5 DEF ApartInv

\* A server that opens its control socket, its rivals looking on.
LEMMA OpenKeepsApart ==
  ASSUME TypeOK, ApartInv, NEW q \in Processes, Open(q)
  PROVE  ApartInv'
<1>1. /\ stage[q] \in Opening /\ stage'[q] \in Serving \cup {"failed"}
      /\ \A r \in Processes \ {q} : stage'[r] = stage[r]
      /\ UNCHANGED met
  BY DEF Open, CheckControl, RemoveControl, BindControl, NextForPath, Goto, TypeOK, Serving, Opening
<1>2. /\ stage'[q] = "removing" => file'[Control] # None
      /\ stage'[q] = "binding" => file'[Control] = None
      /\ stage'[q] = "serving" => file'[Control] = q
      /\ stage'[q] = "failed" => HasMet(q)
  BY DEF Open, CheckControl, RemoveControl, BindControl, NextForPath, Goto, TypeOK, ApartInv
<1>3. \A r \in Processes \ {q} : stage[r] \in Serving => HasMet(r)
  BY <1>1 DEF ApartInv, HasMet, Serving
<1>4. ASSUME NEW r \in Processes
      PROVE  /\ r \in met'[r] => stage'[r] \in Serving \cup Dead
             /\ stage'[r] = "removing" /\ file'[Control] = None => HasMet(r)'
             /\ stage'[r] = "binding" /\ file'[Control] # None => HasMet(r)'
             /\ stage'[r] = "serving" /\ file'[Control] # r => HasMet(r)'
             /\ r \in met'[r] /\ stage'[r] = "failed" => HasMet(r)'
  <2>1. CASE r = q
    BY <2>1, <1>1, <1>2 DEF HasMet, Dead
  <2>2. CASE r # q
    BY <2>2, <1>1, <1>3 DEF ApartInv, HasMet, Serving, Opening
  <2> QED BY <2>1, <2>2
<1>5. \A r \in Processes : stage'[r] \in Serving => stage[r] \in Serving
  BY <1>1 DEF Serving
<1> QED BY <1>1, <1>4, <1>5 DEF ApartInv

\* The manager and its price sockets leave the control file alone, and so does a kill.
LEMMA RunKeepsApart ==
  ASSUME TypeOK, ApartInv, NEW q \in Processes,
         Killed(q) \/ TakePair(q) \/ \E p \in Pairs : BridgeStep(q, p)
  PROVE  ApartInv'
<1>1. UNCHANGED met /\ file'[Control] = file[Control]
  BY NamesAssumption
  DEF Killed, TakePair, BridgeStep, CheckFile, RemoveFile, BindFile, RetryFile, TypeOK
<1>2. \A r \in Processes : stage'[r] = stage[r] \/ stage'[r] = "killed"
  BY DEF Killed, TakePair, BridgeStep, Goto, TypeOK
<1>3. "killed" \in Dead /\ "killed" \notin Serving
  BY DEF Dead, Serving, Opening
<1> QED BY <1>1, <1>2, <1>3 DEF ApartInv, HasMet

LEMMA ServersMeet == Spec => []ApartInv
<1>1. Init => ApartInv
  BY DEF Init, ApartInv, Serving, Opening
<1>2. TypeOK /\ ApartInv /\ [Next]_vars => ApartInv'
  <2> SUFFICES ASSUME TypeOK, ApartInv, [Next]_vars PROVE ApartInv'
    OBVIOUS
  <2>1. CASE UNCHANGED vars
    BY <2>1 DEF vars, ApartInv, HasMet
  <2> QED BY <2>1, AskKeepsApart, ServeKeepsApart, OpenKeepsApart, RunKeepsApart DEF Next
<1> QED BY <1>1, <1>2, TypeCorrect, PTL DEF Spec

\* Whatever a killed server left at the path, a server that is alone all its life opens
\* its control socket and keeps it: only another server, running at the same time, can
\* make it fail or take the path from it.
THEOREM AloneServes == Spec => []ServersApart
<1>1. TypeOK /\ ApartInv => ServersApart
  BY DEF ApartInv, ServersApart, HasMet
<1> QED BY <1>1, ServersMeet, TypeCorrect, PTL
--------------------------------------------------------------------------------
(* Price sockets *)

\* Another server, of those q met, was told to add p.
Rival(q, p) == \E r \in met[q] \ {q} : bridge[r][p] # "none"

\* PairsApart, and what makes it inductive: only a server that serves makes bridge tasks,
\* a file about to be removed only goes when another server's task removes it, and a path
\* about to be bound is only taken when another server's task binds it.
RivalInv ==
  \A q \in Processes, p \in Pairs :
    /\ bridge[q][p] # "none" => stage[q] \in {"serving", "killed"}
    /\ stage[q] = "serving" =>
         /\ bridge[q][p] = "removing" /\ file[p] = None => Rival(q, p)
         /\ bridge[q][p] = "binding" /\ file[p] # None => Rival(q, p)
         /\ bridge[q][p] \in {"ended", "retrying"} => Rival(q, p)
         /\ bridge[q][p] = "listening" /\ file[p] # q => Rival(q, p)

\* Rivals stay rivals: a handler once made is never forgotten.
LEMMA RivalsStay ==
  ASSUME TypeOK, [Next]_vars,
         \A r \in Processes, p \in Pairs : bridge[r][p] # "none" => bridge'[r][p] # "none"
  PROVE  \A q \in Processes, p \in Pairs : Rival(q, p) => Rival(q, p)'
<1>1. \A q \in Processes : met[q] \subseteq met'[q]
  BY MetGrows
<1> QED BY <1>1 DEF Rival, TypeOK

LEMMA PromptKeepsRivals ==
  ASSUME TypeOK, RivalInv, [Next]_vars, NEW q \in Processes,
         Start(q) \/ ChooseServe(q) \/ ChoosePair(q) \/ ChooseOther(q) \/ Killed(q) \/ Talk(q) \/ Open(q)
  PROVE  RivalInv'
<1>1. UNCHANGED bridge /\ \A p \in Pairs : file'[p] = file[p]
  BY PromptStep
<1>2. /\ \A r \in Processes \ {q} : stage'[r] = stage[r]
      /\ stage[q] = "serving" => stage'[q] \in {"serving", "killed"}
      /\ stage[q] # "killed"
  BY DEF Start, ChooseServe, ChoosePair, ChooseOther, Killed, Talk, Open, Connect, Send, CheckControl,
         RemoveControl, BindControl, NextForPath, WithExchange, Goto, TypeOK, Asking, Serving, Opening
<1>3. \A r \in Processes, p \in Pairs : Rival(r, p) => Rival(r, p)'
  BY <1>1, RivalsStay
<1>4. ASSUME NEW p \in Pairs, stage[q] # "serving"
      PROVE  bridge[q][p] = "none"
  BY <1>2, <1>4 DEF RivalInv
<1>5. ASSUME NEW r \in Processes, NEW p \in Pairs
      PROVE  /\ bridge[r][p] # "none" => stage'[r] \in {"serving", "killed"}
             /\ stage'[r] = "serving" =>
                  /\ bridge[r][p] = "removing" /\ file[p] = None => Rival(r, p)
                  /\ bridge[r][p] = "binding" /\ file[p] # None => Rival(r, p)
                  /\ bridge[r][p] \in {"ended", "retrying"} => Rival(r, p)
                  /\ bridge[r][p] = "listening" /\ file[p] # r => Rival(r, p)
  <2>1. CASE r = q
    BY <2>1, <1>2, <1>4 DEF RivalInv
  <2>2. CASE r # q
    BY <2>2, <1>2 DEF RivalInv
  <2> QED BY <2>1, <2>2
<1> QED BY <1>1, <1>3, <1>5 DEF RivalInv

LEMMA TakeKeepsRivals ==
  ASSUME TypeOK, RivalInv, [Next]_vars, NEW q \in Processes, TakePair(q) PROVE RivalInv'
<1>1. \A r \in Processes, p \in Pairs :
        \/ bridge'[r][p] = bridge[r][p]
        \/ bridge[r][p] = "none" /\ bridge'[r][p] = "checking" /\ stage[r] = "serving"
  BY DEF TakePair, TypeOK, NewPair
<1>2. UNCHANGED <<file, stage>>
  BY DEF TakePair
<1>3. \A r \in Processes, p \in Pairs : Rival(r, p) => Rival(r, p)'
  BY <1>1, RivalsStay
<1> QED BY <1>1, <1>2, <1>3 DEF RivalInv

LEMMA BridgeKeepsRivals ==
  ASSUME TypeOK, ApartInv, RivalInv, [Next]_vars, NEW q \in Processes, NEW p \in Pairs, BridgeStep(q, p)
  PROVE  RivalInv'
<1>1. bridge[q][p] # "none" /\ bridge'[q][p] # "none" /\ stage[q] = "serving" /\ UNCHANGED <<stage, met>>
  BY DEF BridgeStep, CheckFile, RemoveFile, BindFile, RetryFile, Becomes, NextForPath, TypeOK
<1>2. /\ \A r \in Processes, p2 \in Pairs : r # q \/ p2 # p => bridge'[r][p2] = bridge[r][p2]
      /\ \A p2 \in Pairs \ {p} : file'[p2] = file[p2]
  BY DEF BridgeStep, CheckFile, RemoveFile, BindFile, RetryFile, Becomes, TypeOK
<1>3. \A r \in Processes, p2 \in Pairs : Rival(r, p2) => Rival(r, p2)'
  BY <1>1, <1>2, RivalsStay
<1>4. \A r \in Processes \ {q} : stage[r] = "serving" => Rival(r, p)'
  BY <1>1 DEF Rival, ApartInv, Serving
<1>5. /\ bridge'[q][p] = "removing" /\ file'[p] = None => Rival(q, p)
      /\ bridge'[q][p] = "binding" /\ file'[p] # None => Rival(q, p)
      /\ bridge'[q][p] \in {"ended", "retrying"} => Rival(q, p)
      /\ bridge'[q][p] = "listening" /\ file'[p] # q => Rival(q, p)
  BY DEF BridgeStep, CheckFile, RemoveFile, BindFile, RetryFile, Becomes, NextForPath, TypeOK, RivalInv
<1>6. ASSUME NEW r \in Processes, NEW p2 \in Pairs
      PROVE  /\ bridge'[r][p2] # "none" => stage'[r] \in {"serving", "killed"}
             /\ stage'[r] = "serving" =>
                  /\ bridge'[r][p2] = "removing" /\ file'[p2] = None => Rival(r, p2)'
                  /\ bridge'[r][p2] = "binding" /\ file'[p2] # None => Rival(r, p2)'
                  /\ bridge'[r][p2] \in {"ended", "retrying"} => Rival(r, p2)'
                  /\ bridge'[r][p2] = "listening" /\ file'[p2] # r => Rival(r, p2)'
  <2>1. CASE r = q /\ p2 = p
    BY <2>1, <1>1, <1>3, <1>5
  <2>2. CASE r # q /\ p2 = p
    BY <2>2, <1>1, <1>2, <1>4 DEF RivalInv
  <2>3. CASE p2 # p
    BY <2>3, <1>1, <1>2, <1>3 DEF RivalInv
  <2> QED BY <2>1, <2>2, <2>3
<1> QED BY <1>6 DEF RivalInv

\* The files that killed servers and prompts leave behind do no harm to a live server's
\* price socket: only a server that ran at the same time and was told to add the same
\* pair can end it, make it wait or take its path.
THEOREM StaleFilesHarmless == Spec => []PairsApart
<1>1. Init => RivalInv
  BY DEF Init, RivalInv
<1>2. TypeOK /\ ApartInv /\ RivalInv /\ [Next]_vars => RivalInv'
  <2> SUFFICES ASSUME TypeOK, ApartInv, RivalInv, [Next]_vars PROVE RivalInv'
    OBVIOUS
  <2>1. CASE UNCHANGED vars
    BY <2>1 DEF vars, RivalInv, Rival
  <2> QED BY <2>1, PromptKeepsRivals, TakeKeepsRivals, BridgeKeepsRivals DEF Next
<1>3. RivalInv => PairsApart
  BY DEF RivalInv, PairsApart, Rival
<1> QED BY <1>1, <1>2, <1>3, ServersMeet, TypeCorrect, PTL DEF Spec
================================================================================
