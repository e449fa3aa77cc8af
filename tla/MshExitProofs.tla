---------------------------- MODULE MshExitProofs ----------------------------
(***************************************************************************)
(* Proofs about MshExit: type correctness; that msh leaves no java process *)
(* behind unless main panics or an excuse has occurred; and that a request *)
(* to end is never lost and the manager takes few statements to heed it.   *)
(***************************************************************************)
EXTENDS MshExit, TLAPS

(* main has passed the first update check. *)
Past == {"input", "listen", "accept", "nil"}

(* The statements between the receipt of a signal and os.Exit. *)
Frozen == {"starting", "stopping", "stop", "second", "switch", "wg", "exit"}

(* Nothing is started before the manager relays signals. *)
Startup ==
  /\ ~mgrActive => state = "offline" /\ live = {} /\ ~fresh
  /\ at["mgr"] \notin {"none", "sgm", "notify"} => notified
  /\ at["mgr"] \notin {"none", "sgm", "notify", "active"} => mgrActive
  /\ mgrActive => notified
  /\ reqSent => mgrActive
  /\ at["main"] \in Past => mgrActive
  /\ at["main"] = "warm" => mgrActive
  /\ then["main"] = "nil" => mgrActive
  /\ at["input"] # "none" => mgrActive
  /\ at["sgm"] \notin {"none", "request"} => mgrActive
  /\ at["main"] = "terminate" => then["main"] \in {"launch", "nil"}
  /\ at["main"] = "send" => mgrActive /\ then["main"] \in {"launch", "nil"}
  /\ \A g \in {"main", "sgm"} : at[g] \notin {"freeze", "starting", "stopping", "stop"}
  /\ then["sgm"] \in {"none", "select"}

(* An OFFLINE that is published is the end of the process. *)
Ended == state = "offline" /\ ~fresh => live = {}

(* What the manager has already achieved at each of its statements. *)
Shutdown ==
  /\ at["mgr"] \in {"freeze", "starting", "stopping", "stop"} => then["mgr"] = "second"
  /\ at["mgr"] \in Frozen => ~fresh
  /\ at["mgr"] = "stopping" => state \in {"stopping", "offline"}
  /\ at["mgr"] = "stop" => state \in {"online", "stopping", "offline"}
  /\ at["mgr"] = "second" => live = {} \/ state = "stopping" \/ (state = "online" /\ told)
  /\ at["mgr"] \in {"switch", "wg"} => live = {} \/ state = "stopping"
  /\ at["mgr"] = "exit" => live = {}

Clean == msh \in {"exit0", "exit1", "killed"} => live = {}

(* What holds as long as no excuse has occurred, and the invariant. *)
Kept == Startup /\ Ended /\ Shutdown /\ Clean
IInv == excuse = "none" => Kept

-----------------------------------------------------------------------------
(* The four ways a goroutine moves keep the control state typed. *)
ControlOK == at \in [Goroutines -> Ats] /\ then \in [Goroutines -> Ats]

(* Calls and returns stay in the domains. *)
LEMMA ControlType ==
  ASSUME ControlOK, NEW g \in Goroutines, NEW to \in Ats, NEW next \in Ats
  PROVE  /\ \A from : Step(g, from, to) => at' \in [Goroutines -> Ats]
         /\ Return(g) => at' \in [Goroutines -> Ats]
         /\ Call(g, to, next) => ControlOK'
         /\ \A from : \A h \in Goroutines :
              Launches(g, from, to, h, next) => at' \in [Goroutines -> Ats]
  BY DEF ControlOK, Step, Return, Call, Launches

(* Every variable stays in its domain, whatever the constants. *)
THEOREM TypeCorrect == Spec => []TypeOK
<1> DEFINE ServerOK == state \in Life!States /\ live \in SUBSET Servers
                       /\ fresh \in BOOLEAN /\ told \in BOOLEAN
           ProgOK == /\ sigExit \in 0..1 /\ notified \in BOOLEAN /\ mgrActive \in BOOLEAN
                     /\ reqSent \in BOOLEAN
                     /\ msh \in {"running", "exit0", "exit1", "panicked", "killed"}
           ExcuseOK == excuse \in {"none", "careless", "started"}
<1>0. TypeOK <=> ServerOK /\ ControlOK /\ ProgOK /\ ExcuseOK
  BY DEF TypeOK, ControlOK
<1>1. Init => TypeOK
  <2>1. {"config", "none"} \subseteq Ats
    BY DEF Ats
  <2>2. Init => ControlOK
    BY <2>1 DEF Init, ControlOK
  <2>3. Init => ServerOK
    BY DEF Init, Life!Init, Life!States
  <2>4. Init => ProgOK
    <3>1. Init => sigExit = 0 /\ notified = FALSE /\ mgrActive = FALSE /\ reqSent = FALSE
                  /\ msh = "running"
      BY DEF Init
    <3>2. 0 \in 0..1
      OBVIOUS
    <3> QED BY <3>1, <3>2, Zenon
  <2>5. Init => ExcuseOK
    BY DEF Init
  <2> QED BY <1>0, <2>2, <2>3, <2>4, <2>5
<1>2. TypeOK /\ [Next]_vars => TypeOK'
  <2>e. ExcuseOK /\ [Next]_vars => ExcuseOK'
    BY DEF Next, History, vars
  <2> SUFFICES ASSUME ServerOK, ControlOK, ProgOK, [Next]_vars
               PROVE  ServerOK' /\ ControlOK' /\ ProgOK'
    BY <1>0, <2>e DEF TypeOK, ControlOK
  <2> DEFINE Typed == ServerOK' /\ ControlOK' /\ ProgOK'
  <2>g. /\ {"main", "mgr", "sgm", "input"} = Goroutines
        /\ {"gone", "launch", "reqSent", "warm", "input", "listen", "accept",
             "nil", "sgm", "notify", "active", "recv", "second", "switch", "wg", "exit",
             "select", "request", "read", "quit", "freeze", "starting", "stopping", "stop",
             "terminate", "send"} \subseteq Ats
    BY DEF Goroutines, Ats
  <2>0. CASE UNCHANGED vars
    BY <2>0 DEF vars, server, pc, prog, ControlOK
  <2>1. CASE ServerStep
    BY <2>1 DEF ServerStep, PublishStarting, PublishOnline, PublishStopping, Die, PublishOffline,
      Life!Publish, Life!Die, Life!Offline, Life!States, pc, prog, ControlOK
  <2>2. ASSUME NEW g \in {"mgr", "input"}, Freeze(g) \/ Poll(g) \/ Stop(g) PROVE Typed
    BY <2>2, <2>g, ControlType DEF Freeze, Poll, Stop, server, prog, ControlOK
  <2>3. ASSUME NEW g \in Goroutines, Terminate(g) \/ Send(g) PROVE Typed
    <3>1. CASE Terminate(g)
      BY <2>3, <3>1, <2>g, ControlType DEF Terminate, server, ControlOK
    <3>2. CASE Send(g)
      BY <2>3, <3>2, <2>g, ControlType DEF Send, server, ControlOK
    <3> QED BY <2>3, <3>1, <3>2
  <2>4. CASE MgrStart \/ Notify \/ Activate
    BY <2>4, <2>g, ControlType DEF MgrStart, Notify, Activate, server, prog, ControlOK
  <2>c. CASE Receive
    BY <2>c, <2>g, ControlType DEF Receive, server, ControlOK
  <2>a. CASE Second \/ Switch \/ Wait \/ Exit
    BY <2>a, <2>g, ControlType DEF Second, Switch, Wait, Exit, server, pc, prog, ControlOK
  <2>5. CASE Request \/ EndOfSegment \/ LastRequest
    BY <2>5, <2>g, ControlType DEF Request, EndOfSegment, LastRequest, server, pc, prog, ControlOK
  <2>6. WarmMS => ServerOK'
    BY DEF WarmMS, Life!Launch, server
  <2>7. CASE LoadConfig \/ LaunchMgr \/ AwaitReqSent \/ LaunchInput
    BY <2>7, <2>g, ControlType DEF LoadConfig, LaunchMgr, AwaitReqSent, LaunchInput, server, prog, ControlOK
  <2>b. CASE Listen \/ AcceptNil
    BY <2>b, <2>g, ControlType DEF Listen, AcceptNil, server, pc, prog, ControlOK
  <2>8. CASE PreWarm \/ Join \/ TypeStart
    BY <2>8, <2>6, <2>g, ControlType DEF PreWarm, Join, TypeStart, pc, prog, ControlOK
  <2>9. CASE Type \/ Quit
    BY <2>9, <2>g, ControlType DEF Type, Quit, server, prog, ControlOK
  <2>d. CASE Signal
    BY <2>d DEF Signal, server, pc, ControlOK
  <2> QED
    BY <2>0, <2>1, <2>2, <2>3, <2>4, <2>5, <2>7, <2>8, <2>9, <2>a, <2>b, <2>c, <2>d, <2>g
    DEF Next, MgrStep, SgmStep, MainStep, InputStep
<1> QED BY <1>1, <1>2, PTL DEF Spec
-----------------------------------------------------------------------------
(* Without an excuse after a step, there was none before and none occurs. *)
LEMMA NoExcuse ==
  ASSUME History, excuse' = "none"
  PROVE  excuse = "none" /\ ~Started /\ ~Careless
  BY DEF History

(* The invariant holds initially, *)
LEMMA IInvInit == Init => IInv
  BY DEF Init, Life!Init, IInv, Kept, Startup, Ended, Shutdown, Clean, Past, Frozen, Goroutines

(* and without an excuse the server keeps it, *)
LEMMA ServerInv == ASSUME TypeOK, Kept, msh = "running", ~Started, ~Careless, ServerStep PROVE Kept'
<1> USE DEF Kept, Startup, Ended, Shutdown, Clean, Frozen, pc, prog, Past
<1>1. CASE PublishStarting
  BY <1>1 DEF PublishStarting, Life!Publish
<1>2. CASE PublishOnline
  BY <1>2 DEF PublishOnline, Life!Publish
<1>3. CASE PublishStopping
  BY <1>3 DEF PublishStopping, Life!Publish
<1>4. CASE Die
  BY <1>4 DEF Die, Life!Die
<1>5. CASE PublishOffline
  BY <1>5 DEF PublishOffline, Life!Offline
<1> QED BY <1>1, <1>2, <1>3, <1>4, <1>5 DEF ServerStep

(* FreezeMS(true), in the manager and in the console. *)
LEMMA FreezeInv ==
  ASSUME TypeOK, Kept, msh = "running", ~Started, ~Careless, NEW g \in {"mgr", "input"},
         Freeze(g) \/ Poll(g) \/ Stop(g)
  PROVE  Kept'
<1> USE DEF Kept, TypeOK, Goroutines, Startup, Ended, Shutdown, Clean, Frozen, Past, Started, Careless, Leaves, Ending, prog,
        server, Step, Return
<1>1. CASE Freeze(g)
  BY <1>1 DEF Freeze, Life!States
<1>2. CASE Poll(g)
  BY <1>2 DEF Poll, Life!States
<1>3. CASE Stop(g)
  BY <1>3 DEF Stop
<1> QED BY <1>1, <1>2, <1>3

(* AutoTerminate keeps it, *)
LEMMA TerminateInv ==
  ASSUME TypeOK, Kept, msh = "running", ~Started, ~Careless, NEW g \in {"main", "sgm", "input"},
         Terminate(g) \/ Send(g)
  PROVE  Kept'
<1> USE DEF Kept, TypeOK, Goroutines, Startup, Ended, Shutdown, Clean, Frozen, Past, Started, Careless, Leaves, Ending,
        server, Step, Return
<1>1. CASE Terminate(g)
  BY <1>1 DEF Terminate
<1>2. CASE Send(g)
  BY <1>2 DEF Send
<1> QED BY <1>1, <1>2

(* the manager, *)
LEMMA MgrInv ==
  ASSUME TypeOK, Kept, msh = "running", ~Started, ~Careless,
         MgrStart \/ Notify \/ Activate \/ Receive \/ Second \/ Switch \/ Wait \/ Exit
  PROVE  Kept'
<1> USE DEF Kept, TypeOK, Goroutines, Startup, Ended, Shutdown, Clean, Frozen, Past, Started, Careless, Leaves, Ending,
        server, pc, prog, Step, Call, Launches
<1>1. CASE MgrStart
  BY <1>1 DEF MgrStart
<1>2. CASE Notify
  BY <1>2 DEF Notify
<1>3. CASE Activate
  BY <1>3 DEF Activate
<1>4. CASE Receive
  BY <1>4 DEF Receive
<1>5. CASE Second
  BY <1>5 DEF Second
<1>6. CASE Switch
  BY <1>6 DEF Switch
<1>7. CASE Wait
  BY <1>7 DEF Wait
<1>8. CASE Exit
  BY <1>8 DEF Exit
<1> QED BY <1>1, <1>2, <1>3, <1>4, <1>5, <1>6, <1>7, <1>8

(* main, *)
LEMMA MainInv ==
  ASSUME TypeOK, Kept, msh = "running", ~Started, ~Careless,
         LoadConfig \/ LaunchMgr \/ AwaitReqSent \/ PreWarm \/ LaunchInput \/ Listen \/ AcceptNil
  PROVE  Kept'
<1> USE DEF Kept, TypeOK, Goroutines, Startup, Ended, Shutdown, Clean, Frozen, Past, Started, Careless, Leaves, Ending,
        server, pc, prog, Step, Call, Launches
<1>1. CASE LoadConfig
  BY <1>1 DEF LoadConfig
<1>2. CASE LaunchMgr
  BY <1>2 DEF LaunchMgr
<1>3. CASE AwaitReqSent
  BY <1>3 DEF AwaitReqSent
<1>4. CASE PreWarm
  BY <1>4 DEF PreWarm, WarmMS, Life!Launch
<1>5. CASE LaunchInput
  BY <1>5 DEF LaunchInput
<1>6. CASE Listen
  BY <1>6 DEF Listen
<1>7. CASE AcceptNil
  BY <1>7 DEF AcceptNil
<1> QED BY <1>1, <1>2, <1>3, <1>4, <1>5, <1>6, <1>7

(* and everybody else. *)
LEMMA OtherInv ==
  ASSUME TypeOK, Kept, msh = "running", ~Started, ~Careless,
         Request \/ EndOfSegment \/ LastRequest \/ Signal \/ Join \/ Type \/ TypeStart \/ Quit
  PROVE  Kept'
<1> USE DEF Kept, TypeOK, Goroutines, Startup, Ended, Shutdown, Clean, Frozen, Past, Started, Careless, Leaves, Ending,
        server, pc, prog, Step, Call
<1>1. CASE Request
  BY <1>1 DEF Request
<1>2. CASE EndOfSegment
  BY <1>2 DEF EndOfSegment
<1>3. CASE Signal
  BY <1>3 DEF Signal
<1>4. CASE Join
  BY <1>4 DEF Join, WarmMS, Life!Launch
<1>5. CASE Type
  BY <1>5 DEF Type
<1>6. CASE Quit
  BY <1>6 DEF Quit
<1>7. CASE LastRequest
  BY <1>7 DEF LastRequest
<1>8. CASE TypeStart
  BY <1>8 DEF TypeStart, WarmMS, Life!Launch
<1> QED BY <1>1, <1>2, <1>3, <1>4, <1>5, <1>6, <1>7, <1>8

(* msh leaves no java process behind unless main panics or an excuse occurs. *)
THEOREM CleanExitCorrect == Spec => []CleanExit
<1>1. TypeOK /\ IInv /\ [Next]_vars => IInv'
  <2> SUFFICES ASSUME TypeOK, IInv, [Next]_vars, excuse' = "none" PROVE Kept'
    BY DEF IInv
  <2>0. CASE UNCHANGED vars
    BY <2>0 DEF vars, server, pc, prog, IInv, Kept, Startup, Ended, Shutdown, Clean
  <2>1. CASE Next
    <3>1. excuse = "none" /\ ~Started /\ ~Careless
      BY <2>1, NoExcuse DEF Next
    <3> QED BY <2>1, <3>1, ServerInv, FreezeInv, TerminateInv, MgrInv, MainInv, OtherInv
      DEF IInv, Next, MgrStep, SgmStep, MainStep, InputStep
  <2> QED BY <2>0, <2>1
<1>2. IInv => CleanExit
  BY DEF IInv, Kept, Clean, CleanExit
<1> QED BY IInvInit, TypeCorrect, <1>1, <1>2, PTL DEF Spec

-----------------------------------------------------------------------------
(* The statements of the manager before it ends msh. *)
Rest ==
  IF at["mgr"] = "none" THEN 12
  ELSE IF at["mgr"] = "sgm" THEN 11
  ELSE IF at["mgr"] = "notify" THEN 10
  ELSE IF at["mgr"] = "active" THEN 9
  ELSE IF at["mgr"] = "recv" THEN 8
  ELSE IF at["mgr"] = "freeze" THEN 7
  ELSE IF at["mgr"] = "starting" THEN 6
  ELSE IF at["mgr"] \in {"stopping", "stop"} THEN 5
  ELSE IF at["mgr"] = "second" THEN 4
  ELSE IF at["mgr"] = "switch" THEN 3
  ELSE IF at["mgr"] = "wg" THEN 2 ELSE 1

(* There is one manager, one segment manager and one console, each launched
   once, and the only FreezeMS of the manager is followed by the wait for the
   server. *)
Once ==
  /\ at["mgr"] = "none" => ~mgrActive
  /\ at["mgr"] \in {"none", "sgm"} => at["sgm"] = "none"
  /\ at["main"] \in {"config", "launch"} => at["mgr"] = "none"
  /\ at["main"] \in {"config", "launch", "reqSent", "warm", "input"} => at["input"] = "none"
  /\ at["main"] = "terminate" /\ then["main"] = "launch" => at["mgr"] = "none" /\ at["input"] = "none"
  /\ at["main"] = "send" => then["main"] = "nil"
  /\ at["main"] = "terminate" => then["main"] \in {"launch", "nil"}
  /\ at["input"] = "none" => then["input"] # "quit"
  /\ at["mgr"] \in {"freeze", "starting", "stopping", "stop"} => then["mgr"] = "second"

(* What a step preserves, what becomes of a request to end, and of the manager. *)
Told == Ending => Ending' \/ msh' # "running"
Onward ==
  /\ MgrStep /\ msh' = "running" => Rest' < Rest
  /\ Rest' <= Rest
Moves == Once' /\ Told /\ Onward

(* Each goroutine's steps: those that leave the control state alone, *)
LEMMA IdleMoves ==
  ASSUME TypeOK, Once, UNCHANGED <<pc, sigExit, mgrActive>>, ~MgrStep \/ msh' # "running"
  PROVE  Moves
  BY DEF Moves, Once, Told, Onward, Rest, Ending, pc

(* FreezeMS(true), *)
LEMMA FreezeMoves ==
  ASSUME TypeOK, Once, NEW g \in {"mgr", "input"}, Freeze(g) \/ Poll(g) \/ Stop(g),
         g = "input" => ~MgrStep
  PROVE  Moves
<1> USE DEF Moves, Once, Told, Onward, Rest, Ending, TypeOK, Goroutines, prog, Step, Return
<1>1. CASE Freeze(g)
  BY <1>1 DEF Freeze
<1>2. CASE Poll(g)
  BY <1>2 DEF Poll
<1>3. CASE Stop(g)
  BY <1>3 DEF Stop
<1> QED
  BY <1>1, <1>2, <1>3

(* AutoTerminate, *)
LEMMA TerminateMoves ==
  ASSUME TypeOK, Once, NEW g \in {"main", "sgm", "input"}, Terminate(g) \/ Send(g), ~MgrStep
  PROVE  Moves
<1> USE DEF Moves, Once, Told, Onward, Rest, Ending, TypeOK, Goroutines, Step, Return
<1>1. CASE Terminate(g)
  BY <1>1 DEF Terminate
<1>2. CASE Send(g)
  BY <1>2 DEF Send
<1> QED
  BY <1>1, <1>2

(* the manager, *)
LEMMA MgrMoves ==
  ASSUME TypeOK, Once, MgrStart \/ Notify \/ Activate \/ Receive \/ Second \/ Switch \/ Wait
  PROVE  Moves
<1> USE DEF Moves, Once, Told, Onward, Rest, Ending, TypeOK, Goroutines, prog, Step, Call, Launches
<1>1. CASE MgrStart
  BY <1>1 DEF MgrStart
<1>2. CASE Notify
  BY <1>2 DEF Notify
<1>3. CASE Activate
  BY <1>3 DEF Activate
<1>4. CASE Receive
  BY <1>4 DEF Receive
<1>5. CASE Second
  BY <1>5 DEF Second
<1>6. CASE Switch
  BY <1>6 DEF Switch
<1>7. CASE Wait
  BY <1>7 DEF Wait
<1> QED
  BY <1>1, <1>2, <1>3, <1>4, <1>5, <1>6, <1>7

(* and everybody else. *)
LEMMA OtherMoves ==
  ASSUME TypeOK, Once, ~MgrStep,
         \/ LoadConfig \/ LaunchMgr \/ AwaitReqSent \/ PreWarm \/ LaunchInput \/ Listen
         \/ Request \/ EndOfSegment \/ Signal \/ Type \/ Quit
  PROVE  Moves
<1> USE DEF Moves, Once, Told, Onward, Rest, Ending, TypeOK, Goroutines, prog, pc, Step, Call, Launches
<1>1. CASE LoadConfig
  BY <1>1 DEF LoadConfig
<1>2. CASE LaunchMgr
  BY <1>2 DEF LaunchMgr
<1>3. CASE AwaitReqSent
  BY <1>3 DEF AwaitReqSent
<1>4. CASE PreWarm
  BY <1>4 DEF PreWarm
<1>5. CASE LaunchInput
  BY <1>5 DEF LaunchInput
<1>6. CASE Listen
  BY <1>6 DEF Listen
<1>7. CASE Request \/ EndOfSegment
  BY <1>7 DEF Request, EndOfSegment
<1>8. CASE Signal
  BY <1>8 DEF Signal
<1>9. CASE Type \/ Quit
  BY <1>9 DEF Type, Quit
<1> QED
  BY <1>1, <1>2, <1>3, <1>4, <1>5, <1>6, <1>7, <1>8, <1>9

(* A request to end is never lost, whether it is a signal that finds the buffer
   of sigExit full, the console, a failed start-up or the update server that
   asks: until msh has ended somebody is about to end it.  And MshMgr is short:
   each statement brings it nearer to os.Exit, and nobody sends it back or
   launches it again (MshMgr, AutoTerminate). *)
THEOREM ToldForGood ==
  Spec => [][/\ Ending => Ending' \/ msh' # "running"
             /\ MgrStep /\ msh' = "running" => Rest' < Rest
             /\ Rest' <= Rest]_vars
<1>1. Init => Once
  BY DEF Init, Once, Goroutines
<1>2. TypeOK /\ Once /\ Next => Moves
  <2> SUFFICES ASSUME TypeOK, Once, Next PROVE Moves
    OBVIOUS
  <2>1. CASE MgrStep
    <3>1. CASE Exit
      BY <3>1, IdleMoves, <2>1 DEF Exit
    <3> QED
      BY <2>1, <3>1, MgrMoves, FreezeMoves DEF MgrStep
  <2>2. CASE ~MgrStep
    <3>1. ServerStep \/ LastRequest \/ Join \/ TypeStart \/ AcceptNil => UNCHANGED <<pc, sigExit, mgrActive>>
      BY DEF ServerStep, PublishStarting, PublishOnline, PublishStopping, Die, PublishOffline,
         LastRequest, Join, TypeStart, AcceptNil, prog
    <3>2. CASE ServerStep \/ LastRequest \/ Join \/ TypeStart \/ AcceptNil
      BY <2>2, <3>1, <3>2, IdleMoves
    <3> QED
      BY <2>2, <3>2, FreezeMoves, TerminateMoves, OtherMoves
      DEF Next, SgmStep, MainStep, InputStep
  <2> QED
    BY <2>1, <2>2
<1>3. Once /\ UNCHANGED vars => Once'
  BY DEF Once, vars, pc, prog
<1>4. [Next]_vars /\ TypeOK /\ Once => Once'
  BY <1>2, <1>3 DEF Moves
<1>5. [Next]_vars /\ TypeOK /\ Once =>
        [/\ Ending => Ending' \/ msh' # "running"
         /\ MgrStep /\ msh' = "running" => Rest' < Rest
         /\ Rest' <= Rest]_vars
  BY <1>2 DEF Moves, Told, Onward
<1> QED
  BY <1>1, <1>4, <1>5, TypeCorrect, PTL DEF Spec
=============================================================================
