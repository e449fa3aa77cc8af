------------------------------- MODULE MshExit -------------------------------
(***************************************************************************)
(* How msh starts and ends: main, the msh manager and AutoTerminate of     *)
(* lib/progmgr, the segment manager as far as it signals main and ends     *)
(* msh, the console of lib/input, and the signals of the operating system. *)
(*                                                                         *)
(* The minecraft server is seen through Lifecycle, which ServCtrl          *)
(* implements as long as nobody starts it twice.  WarmMS is one step,      *)
(* FreezeMS(true) is its switch, its two polling loops and the write of    *)
(* the stop command.                                                       *)
(***************************************************************************)
EXTENDS Integers

CONSTANTS
  Servers,       \* java processes, for Lifecycle
  SuspendAllow,  \* Msh.SuspendAllow: main pre-warms the server
  Commands,      \* what is typed: a subset of AllCommands
  Responses,     \* what the update server answers: a subset of AllResponses
  Faults         \* what may happen: a subset of AllFaults

AllCommands  == {"start", "freeze", "exit", "interrupt", "eof"}
AllResponses == {"ok", "forbidden", "other", "error"}
AllFaults    == {"signal", "listen", "crash", "refuse"}

Goroutines   == {"main", "mgr", "sgm", "input"}

ASSUME MshExitAssumption ==
  /\ Servers # {}
  /\ Commands \subseteq AllCommands /\ Responses \subseteq AllResponses
  /\ Faults \subseteq AllFaults
  /\ SuspendAllow \in BOOLEAN

VARIABLES
  state, live,  \* Stats.Status and the java processes, as in Lifecycle
  fresh,        \* launched, and waitForExit has not published STARTING
  told,         \* the process has a stop command to obey
  at, then,     \* at[g]: statement of goroutine g; then[g]: where it goes on
                \* when FreezeMS or AutoTerminate returns
  sigExit,      \* msh.sigExit: how many signals its buffer holds
  notified,     \* signal.Notify was called
  mgrActive,    \* msh.mgrActive
  reqSent,      \* ReqSent holds a value
  msh,          \* "running", or how the program ended
  excuse        \* history: "none", "careless" or "started" (see History)

server == <<state, live, fresh, told>>
pc     == <<at, then>>
prog   == <<sigExit, notified, mgrActive, reqSent, msh>>
vars   == <<server, pc, prog, excuse>>

Life == INSTANCE Lifecycle WITH Instances <- Servers

Ats == {"none", "gone", "config", "launch", "reqSent", "warm", "input",
        "listen", "accept", "nil", "sgm", "notify", "active", "recv",
        "second", "switch", "wg", "exit", "select", "request", "read", "quit",
        "freeze", "starting", "stopping", "stop", "terminate", "send"}

(* Every variable stays in its domain; the buffer of sigExit is one. *)
TypeOK ==
  /\ state \in Life!States /\ live \in SUBSET Servers
  /\ fresh \in BOOLEAN /\ told \in BOOLEAN
  /\ at \in [Goroutines -> Ats] /\ then \in [Goroutines -> Ats]
  /\ sigExit \in 0..1 /\ notified \in BOOLEAN /\ mgrActive \in BOOLEAN
  /\ reqSent \in BOOLEAN
  /\ msh \in {"running", "exit0", "exit1", "panicked", "killed"}
  /\ excuse \in {"none", "careless", "started"}

Init ==
  /\ Life!Init /\ fresh = FALSE /\ told = FALSE
  /\ at = [g \in Goroutines |-> IF g = "main" THEN "config" ELSE "none"]
  /\ then = [g \in Goroutines |-> "none"]
  /\ sigExit = 0 /\ notified = FALSE /\ mgrActive = FALSE /\ reqSent = FALSE
  /\ msh = "running" /\ excuse = "none"

-----------------------------------------------------------------------------
(* Control *)

Step(g, from, to)    == at[g] = from /\ at' = [at EXCEPT ![g] = to]
Call(g, f, next)     == at' = [at EXCEPT ![g] = f] /\ then' = [then EXCEPT ![g] = next]
Return(g)            == at' = [at EXCEPT ![g] = then[g]]
Launches(g, from, to, h, start) ==
  at[g] = from /\ at' = [at EXCEPT ![g] = to, ![h] = start]

(* Somebody or something has asked msh to end. *)
Ending ==
  \/ sigExit > 0
  \/ at["mgr"] \in {"freeze", "starting", "stopping", "stop", "second", "switch", "wg", "exit"}
  \/ \E g \in Goroutines : at[g] \in {"quit", "terminate", "send"}
  \/ at["input"] # "read" /\ then["input"] = "quit"

-----------------------------------------------------------------------------
(* The server, its printers and its waitForExit *)

PublishStarting ==
  /\ fresh /\ fresh' = FALSE
  /\ Life!Publish("offline", "starting")
  /\ UNCHANGED <<told, pc, prog>>

PublishOnline == Life!Publish("starting", "online") /\ UNCHANGED <<fresh, told, pc, prog>>

PublishStopping ==
  /\ told
  /\ Life!Publish("online", "stopping")
  /\ UNCHANGED <<fresh, told, pc, prog>>

Die ==
  /\ state = "stopping" \/ "crash" \in Faults
  /\ Life!Die
  /\ told' = FALSE
  /\ UNCHANGED <<fresh, pc, prog>>

PublishOffline == Life!Offline /\ UNCHANGED <<fresh, told, pc, prog>>

ServerStep ==
  PublishStarting \/ PublishOnline \/ PublishStopping \/ Die \/ PublishOffline

WarmMS ==
  IF state = "offline" /\ live = {} /\ ~fresh
  THEN Life!Launch /\ fresh' = TRUE /\ UNCHANGED told
  ELSE UNCHANGED server

-----------------------------------------------------------------------------
(* FreezeMS(true), called by the manager and the console.  Under SuspendAllow
   the process is resumed first, which fails when it is gone. *)

Freeze(g) ==
  /\ at[g] = "freeze"
  /\ \/ state = "starting" /\ Step(g, "freeze", "starting")
     \/ state = "online" /\ Step(g, "freeze", "stop")
     \/ state = "stopping" /\ Step(g, "freeze", "stopping")
     \/ state = "offline" /\ Return(g)
     \/ SuspendAllow /\ state # "offline" /\ live = {} /\ Return(g)
  /\ UNCHANGED <<server, then, prog>>

(* A mistaken Poll: the loop waits for ONLINE alone. *)
PollForOnline(g) ==
  /\ \/ state = "online" /\ Step(g, "starting", "stop")
     \/ at[g] = "stopping" /\ state # "stopping" /\ Return(g)
  /\ UNCHANGED <<server, then, prog>>

Poll(g) ==
  /\ \/ state = "online" /\ Step(g, "starting", "stop")
     \/ at[g] = "starting" /\ state \in {"stopping", "offline"} /\ Return(g)
     \/ at[g] = "stopping" /\ state # "stopping" /\ Return(g)
  /\ UNCHANGED <<server, then, prog>>

(* Execute("stop") is refused when MajorError is set, when a soft freeze has
   suspended the process, when the status has moved on or the process died. *)
Stop(g) ==
  /\ at[g] = "stop"
  /\ \/ state = "online" /\ live # {} /\ told' = TRUE
     \/ ("refuse" \in Faults \/ state # "online" \/ live = {}) /\ UNCHANGED told
  /\ Return(g)
  /\ UNCHANGED <<state, live, fresh, then, prog>>

-----------------------------------------------------------------------------
(* AutoTerminate, called by main, the segment manager and the console *)

Terminate(g) ==
  /\ at[g] = "terminate"
  /\ \/ mgrActive /\ Step(g, "terminate", "send") /\ UNCHANGED msh
     \/ ~mgrActive /\ msh' = "exit1" /\ UNCHANGED at
  /\ UNCHANGED <<server, then, sigExit, notified, mgrActive, reqSent>>

(* A mistaken Send: the channel has no capacity limit. *)
SendAlways(g) ==
  /\ at[g] = "send"
  /\ sigExit' = sigExit + 1
  /\ Return(g)
  /\ UNCHANGED <<server, then, notified, mgrActive, reqSent, msh>>

Send(g) ==
  /\ at[g] = "send"
  /\ sigExit = 0 /\ sigExit' = 1
  /\ Return(g)
  /\ UNCHANGED <<server, then, notified, mgrActive, reqSent, msh>>

-----------------------------------------------------------------------------
(* MshMgr *)

MgrStart ==
  /\ Launches("mgr", "sgm", "notify", "sgm", "request")
  /\ UNCHANGED <<server, then, prog>>

Notify ==
  /\ Step("mgr", "notify", "active")
  /\ notified' = TRUE
  /\ UNCHANGED <<server, then, sigExit, mgrActive, reqSent, msh>>

Activate ==
  /\ Step("mgr", "active", "recv")
  /\ mgrActive' = TRUE
  /\ UNCHANGED <<server, then, sigExit, notified, reqSent, msh>>

Receive ==
  /\ at["mgr"] = "recv" /\ sigExit > 0
  /\ sigExit' = sigExit - 1
  /\ Call("mgr", "freeze", "second")
  /\ UNCHANGED <<server, notified, mgrActive, reqSent, msh>>

(* The last statistics: a goroutine of its own, and nobody reads the answer. *)
LastRequest ==
  /\ at["mgr"] \in {"second", "switch", "wg", "exit"}
  /\ reqSent' = TRUE
  /\ UNCHANGED <<server, pc, sigExit, notified, mgrActive, msh>>

(* The second the manager gives the server to log that it is stopping. *)
Second ==
  /\ Step("mgr", "second", "switch")
  /\ UNCHANGED <<server, then, prog>>

(* A mistaken Switch: the manager does not wait for a server that stops. *)
SwitchNoWait ==
  /\ Step("mgr", "switch", "exit")
  /\ UNCHANGED <<server, then, prog>>

Switch ==
  /\ IF state = "stopping" THEN Step("mgr", "switch", "wg") ELSE Step("mgr", "switch", "exit")
  /\ UNCHANGED <<server, then, prog>>

(* ServTerm.Wg.Wait(): the printers have read the end of the pipes. *)
Wait ==
  /\ live = {}
  /\ Step("mgr", "wg", "exit")
  /\ UNCHANGED <<server, then, prog>>

Exit ==
  /\ at["mgr"] = "exit"
  /\ msh' = "exit0"
  /\ UNCHANGED <<server, pc, sigExit, notified, mgrActive, reqSent>>

(* The runtime drops a signal when the channel is full; before Notify a
   signal ends the program. *)
Signal ==
  /\ "signal" \in Faults
  /\ IF notified THEN sigExit' = 1 /\ UNCHANGED msh
     ELSE msh' = "killed" /\ UNCHANGED sigExit
  /\ UNCHANGED <<server, pc, notified, mgrActive, reqSent>>

MgrStep ==
  \/ MgrStart \/ Notify \/ Activate \/ Receive \/ Second \/ Switch \/ Wait \/ Exit
  \/ Freeze("mgr") \/ Poll("mgr") \/ Stop("mgr")

-----------------------------------------------------------------------------
(* The segment manager: its first request, and one at the end of a segment *)

EndOfSegment ==
  /\ Step("sgm", "select", "request")
  /\ UNCHANGED <<server, then, prog>>

(* A mistaken Request: main is told only of an answer. *)
RequestAnswered ==
  /\ at["sgm"] = "request"
  /\ \E r \in Responses :
       /\ IF r = "forbidden" THEN Call("sgm", "terminate", "select")
          ELSE Step("sgm", "request", "select") /\ UNCHANGED then
       /\ reqSent' = (reqSent \/ r # "error")
  /\ UNCHANGED <<server, sigExit, notified, mgrActive, msh>>

Request ==
  /\ at["sgm"] = "request"
  /\ \E r \in Responses :
       IF r = "forbidden" THEN Call("sgm", "terminate", "select")
       ELSE Step("sgm", "request", "select") /\ UNCHANGED then
  /\ reqSent' = TRUE
  /\ UNCHANGED <<server, sigExit, notified, mgrActive, msh>>

SgmStep == Request \/ Terminate("sgm") \/ Send("sgm")

-----------------------------------------------------------------------------
(* main *)

LoadConfig ==
  /\ at["main"] = "config"
  /\ \/ Step("main", "config", "launch") /\ UNCHANGED then
     \/ Call("main", "terminate", "launch")
  /\ UNCHANGED <<server, prog>>

LaunchMgr ==
  /\ Launches("main", "launch", "reqSent", "mgr", "sgm")
  /\ UNCHANGED <<server, then, prog>>

AwaitReqSent ==
  /\ reqSent /\ reqSent' = FALSE
  /\ Step("main", "reqSent", IF SuspendAllow THEN "warm" ELSE "input")
  /\ UNCHANGED <<server, then, sigExit, notified, mgrActive, msh>>

PreWarm ==
  /\ Step("main", "warm", "input")
  /\ WarmMS
  /\ UNCHANGED <<then, prog>>

LaunchInput ==
  /\ Launches("main", "input", "listen", "input", "read")
  /\ UNCHANGED <<server, then, prog>>

(* When the listener cannot be opened AutoTerminate returns once the signal
   is sent, and main goes on to call Accept on nil. *)
Listen ==
  /\ at["main"] = "listen"
  /\ \/ Step("main", "listen", "accept") /\ UNCHANGED then
     \/ "listen" \in Faults /\ Call("main", "terminate", "nil")
  /\ UNCHANGED <<server, prog>>

AcceptNil ==
  /\ at["main"] = "nil"
  /\ msh' = "panicked"
  /\ UNCHANGED <<server, pc, sigExit, notified, mgrActive, reqSent>>

MainStep ==
  \/ LoadConfig \/ LaunchMgr \/ AwaitReqSent \/ PreWarm \/ LaunchInput
  \/ Listen \/ AcceptNil \/ Terminate("main") \/ Send("main")

(* A client joins while the server is not online: HandlerClientConn. *)
Join ==
  /\ at["main"] = "accept"
  /\ WarmMS
  /\ UNCHANGED <<pc, prog>>

-----------------------------------------------------------------------------
(* GetInput *)

Type ==
  /\ at["input"] = "read"
  /\ \/ "freeze" \in Commands /\ Call("input", "freeze", "read")
     \/ "exit" \in Commands /\ Call("input", "freeze", "quit")
     \/ "interrupt" \in Commands /\ Call("input", "terminate", "gone")
     \/ "eof" \in Commands /\ Step("input", "read", "gone") /\ UNCHANGED then
  /\ UNCHANGED <<server, prog>>

TypeStart ==
  /\ at["input"] = "read"
  /\ "start" \in Commands
  /\ WarmMS
  /\ UNCHANGED <<pc, prog>>

Quit ==
  /\ at["input"] = "quit"
  /\ Call("input", "terminate", "read")
  /\ UNCHANGED <<server, prog>>

InputStep ==
  \/ Quit \/ Terminate("input") \/ Send("input")
  \/ Freeze("input") \/ Poll("input") \/ Stop("input")

-----------------------------------------------------------------------------
(* What msh does not handle while it ends.  Started: somebody starts the
   server meanwhile.  Careless, in this order: the first update check is
   answered before MshMgr is in its loop; MshMgr freezes a server whose STARTING
   is not published yet; its stop command is refused; the server does not log
   within a second that it stops. *)
Started  == Ending /\ live = {} /\ live' # {}
Leaves(g, a) == at[g] = a /\ at'[g] # a
Careless ==
  \/ Leaves("sgm", "request") /\ ~mgrActive
  \/ Leaves("mgr", "freeze") /\ fresh
  \/ Leaves("mgr", "stop") /\ live # {} /\ ~told'
  \/ Leaves("mgr", "second") /\ told /\ state = "online"

History ==
  excuse' = IF Started \/ excuse = "started" THEN "started"
            ELSE IF Careless THEN "careless" ELSE excuse

Next ==
  /\ msh = "running"
  /\ \/ ServerStep \/ MgrStep \/ SgmStep \/ MainStep \/ InputStep
     \/ EndOfSegment \/ LastRequest \/ Signal \/ Join \/ Type \/ TypeStart
  /\ History

Spec == Init /\ [][Next]_vars

(* The Go scheduler runs every goroutine, waitForExit among them, and an HTTP
   request ends within its timeout of four seconds.  The server has to do
   nothing: it may boot, log or exit never.  Nobody has to type, join or send a
   signal. *)
Runs(A) == msh = "running" /\ A /\ History

Fairness ==
  /\ WF_vars(Runs(MgrStep)) /\ WF_vars(Runs(SgmStep))
  /\ WF_vars(Runs(MainStep)) /\ WF_vars(Runs(InputStep))
  /\ WF_vars(Runs(PublishStarting)) /\ WF_vars(Runs(PublishOffline))

FairSpec == Spec /\ Fairness
-----------------------------------------------------------------------------
(* Properties *)

(* msh leaves no java process behind: MshMgr freezes the server and, when it
   is stopping, waits for it before it calls os.Exit (progmgr.go:56-84).  It
   may only when main panics or after one of the excuses. *)
CleanExit == msh \in {"exit0", "exit1", "killed"} /\ excuse = "none" => live = {}

(* The java process lives and is never logged to be up, or to be down. *)
Stuck == live # {} /\ state \in {"starting", "stopping"}

(* Once msh is asked to end, by a signal, the console, a failed start-up or the
   update server, it ends: the signal waits in sigExit, AutoTerminate does not
   block for ever and FreezeMS(true) returns.  There are two exceptions:
   somebody keeps starting the server, and a server that boots for ever or
   never exits, for which FreezeMS and MshMgr wait without limit
   (servctrl.go:88, 159, progmgr.go:72). *)
ExitsWhenTold == []<>~Stuck => (Ending ~> msh # "running" \/ excuse = "started")

(* main does not wait for ever for the first update check (main.go:62): whatever
   is answered, and whatever the server does, it gets to open its listener, or
   msh ends. *)
MainStarts == <>(at["main"] = "listen" \/ msh # "running")
=============================================================================
