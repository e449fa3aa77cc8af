------------------------------- MODULE ServCtrl -------------------------------
(***************************************************************************)
(* lib/servctrl with the package variables of lib/servstats, and the part  *)
(* of lib/conn that joins a player: every goroutine that warms, freezes,   *)
(* watches or kills the minecraft server.                                  *)
(*                                                                         *)
(* The code synchronises none of these variables.  One action is one read  *)
(* or write of a shared variable, one system call, or a run of them whose  *)
(* halves no other goroutine tells apart (README, "Grain").  op[g] is the  *)
(* function the goroutine g is in and at[g] the statement it has reached.  *)
(***************************************************************************)
EXTENDS MinecraftServer, FiniteSets

CONSTANTS
  Operators,       \* goroutines of main, lib/input and lib/progmgr that call
                   \* WarmMS or FreezeMS(true)
  Timers,          \* bound: time.AfterFunc timers, each with its goroutine
  Killers,         \* bound: killMSifOnlineAfterTimeout goroutines
  NoTimer,         \* the initial time.NewTimer, which runs nothing
  MaxConn,         \* bound: distance of ConnCount from zero
  SuspendAllow,    \* Msh.SuspendAllow
  SuspendRefresh,  \* Msh.SuspendRefresh > 0
  AllowKill        \* Commands.StopServerAllowKill

Refreshers == IF SuspendAllow /\ SuspendRefresh THEN {"refresher"} \X Instances ELSE {}
Threads    == Clients \cup Operators \cup Timers \cup Killers \cup Refreshers

ASSUME ServCtrlAssumption ==
  /\ Timers # {} /\ NoTimer \notin Timers
  /\ MaxConn \in Nat /\ AllowKill \in Nat
  /\ {SuspendAllow, SuspendRefresh} \subseteq BOOLEAN
  /\ Clients \cap (Operators \cup Timers \cup Killers \cup Refreshers) = {}
  /\ Operators \cap (Timers \cup Killers \cup Refreshers) = {}
  /\ Timers \cap (Killers \cup Refreshers) = {} /\ Killers \cap Refreshers = {}

VARIABLES
  status, suspended, majorError, connCount,  \* servstats.Stats
  freezeTimer,  \* servstats.Stats.FreezeTimer
  pending,      \* timers that have neither fired nor been stopped
  isActive,     \* ServTerm.IsActive
  cur,          \* ServTerm.cmd: the instance loaded last, 0 when there is none
  printer,      \* printer[i]: the printerOutErr goroutines of instance i
  waiter,       \* waiter[i]: the waitForExit goroutine of instance i
  op, at, num,  \* function, statement and integer local of each goroutine
  msh,          \* "running", or "panicked" after a nil dereference
  flaws         \* history, read by no action: the races lost so far (Lost)

stats == <<status, suspended, majorError, connCount>>
timer == <<freezeTimer, pending>>
term  == <<isActive, cur>>
watch == <<printer, waiter>>
pc    == <<op, at, num>>
code  == <<serverVars, stats, timer, term, watch, pc, msh>>
vars  == <<serverVars, stats, timer, term, watch, pc, msh, flaws>>

Ops   == {"idle", "warm", "join", "freeze", "starting", "stopping",
          "resumeStop", "kill", "proxy"}
Ats   == {"idle", "switch", "active", "load", "exec", "resume", "resumed",
          "denied", "disarm", "arm", "dial", "count", "suspend", "suspended",
          "undone", "await", "offline", "write", "poll", "send", "inc",
          "relay", "dec"}
PrinterAts == {"none", "launch", "read", "online", "stopping", "major",
               "disarm", "arm", "gone"}
WaiterAts  == {"none", "init", "starting", "wg", "cmd", "down", "clear", "inactive", "gone"}
Flaws      == {"twice", "unwaited", "missed", "early", "refused", "stray", "misread"}

(* Every variable stays in its domain. *)
TypeOK ==
  /\ ServerTypeOK
  /\ status \in {"offline", "starting", "online", "stopping"}
  /\ suspended \in BOOLEAN /\ majorError \in BOOLEAN /\ connCount \in Int
  /\ freezeTimer \in Timers \cup {NoTimer} /\ pending \in SUBSET Timers
  /\ isActive \in BOOLEAN /\ cur \in 0..MaxStarts
  /\ printer \in [Instances -> PrinterAts]
  /\ waiter \in [Instances -> WaiterAts]
  /\ op \in [Threads -> Ops] /\ at \in [Threads -> Ats] /\ num \in [Threads -> Int]
  /\ msh \in {"running", "panicked"} /\ flaws \subseteq Flaws

Init ==
  /\ ServerInit
  /\ status = "offline" /\ suspended = FALSE /\ majorError = FALSE
  /\ connCount = 0
  /\ freezeTimer = NoTimer /\ pending = {}
  /\ isActive = FALSE /\ cur = 0
  /\ printer = [i \in Instances |-> "none"]
  /\ waiter = [i \in Instances |-> "none"]
  /\ op = [g \in Threads |-> "idle"] /\ at = [g \in Threads |-> "idle"]
  /\ num = [g \in Threads |-> 0]
  /\ msh = "running" /\ flaws = {}

-----------------------------------------------------------------------------
(* Control *)

Goto(g, o, a) == op' = [op EXCEPT ![g] = o] /\ at' = [at EXCEPT ![g] = a]
Return(g)     == Goto(g, "idle", "idle")
In(g, os, a)  == op[g] \in os /\ at[g] = a

Forced(g) == g \in Operators

(* WarmMS returns: the refresher goes on to freeze, a JOIN seen ONLINE dials. *)
WarmReturns(g, ok) ==
  IF g \in Refreshers THEN Goto(g, "freeze", "switch")
  ELSE IF ok /\ op[g] = "join" THEN Goto(g, "join", "dial")
  ELSE Return(g)

(* Where each function goes on once the process is resumed. *)
AfterResume(g, o) ==
  CASE o \in {"warm", "join"} -> "disarm"
    [] o = "starting"         -> IF Forced(g) THEN "await" ELSE "disarm"
    [] o = "stopping"         -> "await"
    [] o = "resumeStop"       -> "write"
    [] OTHER                  -> "poll"   \* kill

ResumeFirst(g, o) ==
  Goto(g, o, IF SuspendAllow THEN "resume" ELSE AfterResume(g, o))

(* cmd.Process is set, and its process group still takes signals: a process
   that has exited does until cmd.Wait reaps it. *)
HasProcess == cur # 0 /\ proc[cur] \in {"alive", "dead"}
Signalable == HasProcess /\ (Alive(cur) \/ waiter[cur] \in {"init", "starting", "wg", "cmd"})

Panics == ~HasProcess /\ msh' = "panicked"
          /\ UNCHANGED <<serverVars, stats, timer, term, watch, pc>>

CheckMSWarm == ~majorError /\ isActive /\ status = "online" /\ ~suspended

(* Execute writes the command to the stdin of a process that reads it. *)
Executes == CheckMSWarm /\ cur # 0 /\ Alive(cur)

-----------------------------------------------------------------------------
(* FreezeMSSchedule, in two statements *)

(* A mistaken StopTimer that also clears the variable. *)
StopTimerToNil == pending' = pending \ {freezeTimer} /\ freezeTimer' = "nil"

StopTimer  == pending' = pending \ {freezeTimer} /\ UNCHANGED freezeTimer
AfterFunc(t) == freezeTimer' = t /\ pending' = pending \cup {t}

FreeTimers == {t \in Timers \ pending : op[t] = "idle"}

Disarm(g) ==
  /\ at[g] = "disarm"
  /\ StopTimer
  /\ Goto(g, op[g], "arm")
  /\ UNCHANGED <<serverVars, stats, term, watch, num, msh>>

(* A timer goroutine is on its last statement here: it may be used again. *)
Arm(g) ==
  /\ at[g] = "arm"
  /\ \E t \in FreeTimers \cup ({g} \cap Timers) : AfterFunc(t)
  /\ IF op[g] \in {"warm", "join"} THEN WarmReturns(g, TRUE) ELSE Return(g)
  /\ UNCHANGED <<serverVars, stats, term, watch, num, msh>>

Fire(t) ==
  /\ t \in pending
  /\ op[t] = "idle"
  /\ pending' = pending \ {t}
  /\ Goto(t, "freeze", "switch")
  /\ UNCHANGED <<serverVars, stats, freezeTimer, term, watch, num, msh>>

-----------------------------------------------------------------------------
(* WarmMS *)

WarmMS(g) ==
  /\ In(g, {"warm", "join"}, "switch")
  /\ \/ majorError /\ WarmReturns(g, FALSE) /\ UNCHANGED suspended
     \/ /\ ~majorError /\ status = "offline"
        /\ suspended' = FALSE
        /\ Goto(g, op[g], "active")
     \/ ~majorError /\ status # "offline" /\ ResumeFirst(g, op[g]) /\ UNCHANGED suspended
  /\ UNCHANGED <<serverVars, status, majorError, connCount, timer, term, watch, num, msh>>

TermStart(g) ==
  /\ at[g] = "active"
  /\ Goto(g, op[g], IF isActive THEN "disarm" ELSE "load")
  /\ UNCHANGED <<serverVars, stats, timer, term, watch, num, msh>>

StartFails(g) == majorError' = TRUE /\ WarmReturns(g, FALSE)

TermLoad(g) ==
  /\ at[g] = "load"
  /\ cur < MaxStarts
  /\ \/ /\ cur' = cur + 1
        /\ proc' = [proc EXCEPT ![cur + 1] = "unstarted"]
        /\ printer' = [printer EXCEPT ![cur + 1] = "launch"]
        /\ Goto(g, op[g], "exec")
        /\ UNCHANGED majorError
     \/ /\ "startfail" \in Faults
        /\ StartFails(g)
        /\ \/ UNCHANGED <<cur, proc>>         \* no command can be built
           \/ /\ cur' = cur + 1               \* a pipe of the new one fails
              /\ proc' = [proc EXCEPT ![cur + 1] = "failed"]
        /\ UNCHANGED printer
  /\ UNCHANGED <<frozen, phase, stopCmd, out, link, players, status, suspended,
                 connCount, timer, isActive, waiter, num, msh>>

CmdStart(g) ==
  /\ at[g] = "exec"
  /\ \/ /\ proc[cur] = "unstarted"
        /\ proc' = [proc EXCEPT ![cur] = "alive"]
        /\ waiter' = [waiter EXCEPT ![cur] = "init"]
        /\ Goto(g, op[g], "disarm")
        /\ UNCHANGED majorError
     \/ /\ "startfail" \in Faults \/ proc[cur] # "unstarted"
        /\ proc' = [proc EXCEPT ![cur] = IF @ = "unstarted" THEN "failed" ELSE @]
        /\ StartFails(g)
        /\ UNCHANGED waiter
  /\ UNCHANGED <<frozen, phase, stopCmd, out, link, players, status, suspended,
                 connCount, timer, term, printer, num, msh>>

-----------------------------------------------------------------------------
(* Signals: the system call and the assignment of Stats.Suspended *)

Resume(g) ==
  /\ at[g] = "resume"
  /\ \/ /\ Signalable
        /\ frozen' = frozen \ {cur}
        /\ Goto(g, op[g], "resumed")
        /\ UNCHANGED <<proc, phase, stopCmd, out, link, players, stats, timer, term, watch, num, msh>>
     \/ /\ HasProcess /\ ~Signalable
        /\ Goto(g, op[g], "denied")
        /\ UNCHANGED <<serverVars, stats, timer, term, watch, num, msh>>
     \/ Panics

(* A mistaken ResumeFlag: a WarmMS that resumes the server schedules nothing. *)
ResumeFlagNoSchedule(g) ==
  /\ at[g] \in {"resumed", "denied"}
  /\ suspended' = (at[g] = "denied")
  /\ IF op[g] \in {"warm", "join"} THEN WarmReturns(g, at[g] = "resumed")
     ELSE IF at[g] = "resumed" \/ op[g] = "kill" THEN Goto(g, op[g], AfterResume(g, op[g]))
     ELSE Return(g)
  /\ UNCHANGED <<serverVars, status, majorError, connCount, timer, term, watch, num, msh>>

ResumeFlag(g) ==
  /\ at[g] \in {"resumed", "denied"}
  /\ suspended' = (at[g] = "denied")
  /\ IF at[g] = "resumed" \/ op[g] = "kill" THEN Goto(g, op[g], AfterResume(g, op[g]))
     ELSE IF op[g] \in {"warm", "join"} THEN WarmReturns(g, FALSE)
     ELSE Return(g)
  /\ UNCHANGED <<serverVars, status, majorError, connCount, timer, term, watch, num, msh>>

Suspend(g) ==
  /\ at[g] = "suspend"
  /\ \/ /\ Signalable
        /\ frozen' = IF Alive(cur) THEN frozen \cup {cur} ELSE frozen
        /\ Goto(g, op[g], "suspended")
        /\ UNCHANGED <<proc, phase, stopCmd, out, link, players, stats, timer, term, watch, num, msh>>
     \/ /\ HasProcess /\ ~Signalable
        /\ Goto(g, op[g], "undone")
        /\ UNCHANGED <<serverVars, stats, timer, term, watch, num, msh>>
     \/ Panics

SuspendFlag(g) ==
  /\ at[g] \in {"suspended", "undone"}
  /\ suspended' = (at[g] = "suspended")
  /\ Return(g)
  /\ UNCHANGED <<serverVars, status, majorError, connCount, timer, term, watch, num, msh>>

-----------------------------------------------------------------------------
(* FreezeMS *)

FreezeMS(g) ==
  /\ In(g, {"freeze"}, "switch")
  /\ \/ status = "starting" /\ ResumeFirst(g, "starting")
     \/ status = "online" /\ Forced(g) /\ ResumeFirst(g, "resumeStop")
     \/ status = "online" /\ ~Forced(g) /\ Goto(g, "freeze", "count")
     \/ status = "stopping" /\ ResumeFirst(g, "stopping")
     \/ status = "offline" /\ Goto(g, "stopping", "offline")
  /\ UNCHANGED <<serverVars, stats, timer, term, watch, num, msh>>

(* Server info or the list command when the server answers, else ConnCount.
   Execute("list") reads whatever lastOut carries: a line of another command
   that holds a number passes for the answer. *)
PlayerCounts ==
  {connCount} \cup
  (IF CheckMSWarm /\ cur # 0 /\ Running(cur) /\ phase[cur] = "up"
   THEN {Cardinality(players[cur])} ELSE {}) \cup
  (IF CheckMSWarm THEN {0, 1} ELSE {})

CountPlayerSafe(g) ==
  /\ at[g] = "count"
  /\ \E n \in PlayerCounts :
       IF n > 0 THEN Return(g)
       ELSE IF SuspendAllow THEN Goto(g, "freeze", "suspend")
       ELSE ResumeFirst(g, "resumeStop")
  /\ UNCHANGED <<serverVars, stats, timer, term, watch, num, msh>>

(* A mistaken Await: the fallthrough from STARTING to ONLINE is missing. *)
AwaitNoFallthrough(g) ==
  /\ at[g] = "await"
  /\ \/ op[g] = "starting" /\ status # "starting" /\ Return(g)
     \/ op[g] = "stopping" /\ status # "stopping" /\ Goto(g, "stopping", "offline")
  /\ UNCHANGED <<serverVars, stats, timer, term, watch, num, msh>>

(* The two polling loops of FreezeMS. *)
Await(g) ==
  /\ at[g] = "await"
  /\ \/ op[g] = "starting" /\ status = "online" /\ ResumeFirst(g, "resumeStop")
     \/ op[g] = "starting" /\ status \in {"stopping", "offline"} /\ Return(g)
     \/ op[g] = "stopping" /\ status # "stopping" /\ Goto(g, "stopping", "offline")
  /\ UNCHANGED <<serverVars, stats, timer, term, watch, num, msh>>

OfflineCase(g) ==
  /\ at[g] = "offline"
  /\ suspended' = FALSE
  /\ Return(g)
  /\ UNCHANGED <<serverVars, status, majorError, connCount, timer, term, watch, num, msh>>

(* Execute("stop"), then go killMSifOnlineAfterTimeout(). *)
ExecuteStop(g) ==
  /\ at[g] = "write"
  /\ IF Executes
     THEN /\ stopCmd' = stopCmd \cup {cur}
          /\ IF AllowKill = 0 THEN Return(g) /\ UNCHANGED num
             ELSE \E k \in Killers :
               /\ op[k] = "idle"
               /\ op' = [op EXCEPT ![g] = "idle", ![k] = "kill"]
               /\ at' = [at EXCEPT ![g] = "idle",
                                   ![k] = IF SuspendAllow THEN "resume" ELSE "poll"]
               /\ num' = [num EXCEPT ![k] = AllowKill]
     ELSE Return(g) /\ UNCHANGED <<stopCmd, num>>
  /\ UNCHANGED <<proc, frozen, phase, out, link, players, stats, timer, term, watch, msh>>

(* A mistaken KillPoll: the countdown ends without a kill. *)
KillPollGivesUp(k) ==
  /\ at[k] = "poll"
  /\ \/ (status = "offline" \/ num[k] = 0) /\ Return(k) /\ num' = [num EXCEPT ![k] = 0]
     \/ num[k] > 0 /\ status # "offline" /\ num' = [num EXCEPT ![k] = @ - 1]
        /\ UNCHANGED <<op, at>>
  /\ UNCHANGED <<serverVars, stats, timer, term, watch, msh>>

KillPoll(k) ==
  /\ at[k] = "poll"
  /\ \/ num[k] > 0 /\ status = "offline" /\ Return(k) /\ num' = [num EXCEPT ![k] = 0]
     \/ num[k] > 0 /\ status # "offline" /\ num' = [num EXCEPT ![k] = @ - 1]
        /\ UNCHANGED <<op, at>>
     \/ num[k] = 0 /\ Goto(k, "kill", "send") /\ UNCHANGED num
  /\ UNCHANGED <<serverVars, stats, timer, term, watch, msh>>

(* After save-all and ten seconds of sleep. *)
KillSend(k) ==
  /\ at[k] = "send"
  /\ \/ /\ HasProcess
        /\ IF Alive(cur) THEN Dies(cur) ELSE UNCHANGED serverVars
        /\ Return(k)
        /\ UNCHANGED <<stats, timer, term, watch, num, msh>>
     \/ Panics

-----------------------------------------------------------------------------
(* printerOutErr *)

Printer(i, from, to) == printer[i] = from /\ printer' = [printer EXCEPT ![i] = to]
Added(i) == printer[i] \notin {"none", "launch", "gone"}

PrinterStart(i) ==
  /\ Printer(i, "launch", "read")
  /\ UNCHANGED <<serverVars, stats, timer, term, waiter, pc, msh>>

(* A mistaken LineCase: a lost connection schedules nothing. *)
LineCaseNoLost(line) ==
  CASE status = "starting" /\ line = "done"       -> "online"
    [] status = "online" /\ line = "stopping"     -> "stopping"
    [] status = "online" /\ line = "unresponsive" -> "major"
    [] OTHER                                      -> "read"

(* What a line leads to, by the status read when it is scanned. *)
LineCase(line) ==
  CASE status = "starting" /\ line = "done"       -> "online"
    [] status = "online" /\ line = "lost"         -> "disarm"
    [] status = "online" /\ line = "stopping"     -> "stopping"
    [] status = "online" /\ line = "unresponsive" -> "major"
    [] OTHER                                      -> "read"

PrinterScan(i) ==
  /\ out[i] # <<>>
  /\ Printer(i, "read", LineCase(Head(out[i])))
  /\ out' = [out EXCEPT ![i] = Tail(@)]
  /\ UNCHANGED <<proc, frozen, phase, stopCmd, link, players, stats, timer, term, waiter, pc, msh>>

PrinterEOF(i) ==
  /\ out[i] = <<>>
  /\ proc[i] \in {"dead", "failed"}
  /\ Printer(i, "read", "gone")
  /\ UNCHANGED <<serverVars, stats, timer, term, waiter, pc, msh>>

PrinterStatus(i) ==
  /\ \/ Printer(i, "online", "disarm") /\ status' = "online" /\ UNCHANGED majorError
     \/ Printer(i, "stopping", "read") /\ status' = "stopping" /\ UNCHANGED majorError
     \/ Printer(i, "major", "read") /\ majorError' = TRUE /\ UNCHANGED status
  /\ UNCHANGED <<serverVars, suspended, connCount, timer, term, waiter, pc, msh>>

PrinterSchedule(i) ==
  /\ \/ Printer(i, "disarm", "arm") /\ StopTimer
     \/ Printer(i, "arm", "read") /\ \E t \in FreeTimers : AfterFunc(t)
  /\ UNCHANGED <<serverVars, stats, term, waiter, pc, msh>>

-----------------------------------------------------------------------------
(* waitForExit and the suspension refresher it launches *)

Waiter(i, from, to) == waiter[i] = from /\ waiter' = [waiter EXCEPT ![i] = to]

WaiterActive(i) ==
  /\ Waiter(i, "init", "starting")
  /\ isActive' = TRUE
  /\ UNCHANGED <<serverVars, stats, timer, cur, printer, pc, msh>>

WaiterStarting(i) ==
  /\ Waiter(i, "starting", "wg")
  /\ status' = "starting" /\ suspended' = FALSE /\ connCount' = 0
  /\ UNCHANGED <<serverVars, majorError, timer, term, printer, pc, msh>>

(* A mistaken WaiterWg: nothing waits for the pipes and the process. *)
WaiterWgNoWait(i) ==
  /\ Waiter(i, "wg", "down")
  /\ UNCHANGED <<serverVars, stats, timer, term, printer, pc, msh>>

(* ServTerm.Wg is shared by all instances and printerOutErr adds to it. *)
WaiterWg(i) ==
  /\ Waiter(i, "wg", "cmd")
  /\ \A j \in Instances : ~Added(j)
  /\ UNCHANGED <<serverVars, stats, timer, term, printer, pc, msh>>

(* ServTerm.cmd.Wait(), of the command loaded last. *)
WaiterReap(i) ==
  /\ Waiter(i, "cmd", "down")
  /\ cur # 0 /\ ~Alive(cur)
  /\ UNCHANGED <<serverVars, stats, timer, term, printer, pc, msh>>

WaiterOffline(i) ==
  /\ Waiter(i, "down", "clear")
  /\ status' = "offline"
  /\ UNCHANGED <<serverVars, suspended, majorError, connCount, timer, term, printer, pc, msh>>

WaiterClear(i) ==
  /\ Waiter(i, "clear", "inactive")
  /\ suspended' = FALSE /\ connCount' = 0
  /\ UNCHANGED <<serverVars, status, majorError, timer, term, printer, pc, msh>>

WaiterEnd(i) ==
  /\ Waiter(i, "inactive", "gone")
  /\ isActive' = FALSE
  /\ UNCHANGED <<serverVars, stats, timer, cur, printer, pc, msh>>

(* The refresher returns at once unless it has something to refresh;
   select may still take a tick that is due when the stop is already sent. *)
RefresherTick(i) ==
  LET g == <<"refresher", i>> IN
  /\ SuspendAllow /\ SuspendRefresh
  /\ waiter[i] \in {"wg", "cmd", "down"}
  /\ op[g] = "idle"
  /\ ~majorError /\ status # "offline" /\ suspended
  /\ Goto(g, "warm", "switch")
  /\ UNCHANGED <<serverVars, stats, timer, term, watch, num, msh>>

-----------------------------------------------------------------------------
(* Who calls WarmMS and FreezeMS: JOIN requests and operators *)

Join(c) ==
  /\ op[c] = "idle"
  /\ ~majorError
  /\ Goto(c, IF status = "online" THEN "join" ELSE "warm", "switch")
  /\ UNCHANGED <<serverVars, stats, timer, term, watch, num, msh>>

Operate(o) ==
  /\ op[o] = "idle"
  /\ \E f \in {"warm", "freeze"} : Goto(o, f, "switch")
  /\ UNCHANGED <<serverVars, stats, timer, term, watch, num, msh>>

(* openProxy, up to the load of ConnCount++ in forwardTCP. *)
Dial(c) ==
  /\ at[c] = "dial"
  /\ \/ /\ connCount \in -MaxConn..MaxConn
        /\ \E i \in Instances :
             /\ Alive(i) /\ phase[i] # "down"
             /\ link' = [link EXCEPT ![c] = i]
        /\ num' = [num EXCEPT ![c] = connCount]
        /\ Goto(c, "proxy", "inc")
     \/ /\ \A i \in Instances : ~(Alive(i) /\ phase[i] \in {"up", "hung"})
        /\ Return(c)
        /\ UNCHANGED <<link, num>>
  /\ UNCHANGED <<proc, frozen, phase, stopCmd, out, players, stats, timer, term, watch, msh>>

(* A mistaken StoreConnCount: a disconnection schedules nothing. *)
StoreConnCountNoSchedule(c) ==
  /\ \/ at[c] = "inc" /\ connCount' = num[c] + 1 /\ Goto(c, "proxy", "relay")
     \/ at[c] = "dec" /\ connCount' = num[c] - 1 /\ Return(c)
  /\ num' = [num EXCEPT ![c] = 0]
  /\ UNCHANGED <<serverVars, status, suspended, majorError, timer, term, watch, msh>>

(* The store of ConnCount++ and of ConnCount-- in forwardTCP. *)
StoreConnCount(c) ==
  /\ \/ at[c] = "inc" /\ connCount' = num[c] + 1 /\ Goto(c, "proxy", "relay")
     \/ at[c] = "dec" /\ connCount' = num[c] - 1 /\ Goto(c, "proxy", "disarm")
  /\ num' = [num EXCEPT ![c] = 0]
  /\ UNCHANGED <<serverVars, status, suspended, majorError, timer, term, watch, msh>>

(* A read or write of forwardTCP fails: the client left, the server ended,
   or ten seconds passed without data. *)
HangUp(c) ==
  /\ at[c] = "relay"
  /\ link' = [link EXCEPT ![c] = 0]
  /\ num' = [num EXCEPT ![c] = connCount]
  /\ Goto(c, "proxy", "dec")
  /\ UNCHANGED <<proc, frozen, phase, stopCmd, out, players, stats, timer, term, watch, msh>>

-----------------------------------------------------------------------------
Server(A) == A /\ UNCHANGED <<stats, timer, term, watch, pc, msh>>

(* The statements a goroutine runs without waiting for anybody outside msh. *)
ThreadStep(g) ==
  \/ WarmMS(g) \/ TermStart(g) \/ TermLoad(g) \/ CmdStart(g)
  \/ Resume(g) \/ ResumeFlag(g) \/ Suspend(g) \/ SuspendFlag(g)
  \/ FreezeMS(g) \/ CountPlayerSafe(g) \/ Await(g) \/ OfflineCase(g)
  \/ ExecuteStop(g) \/ Disarm(g) \/ Arm(g)

PrinterStep(i) ==
  PrinterStart(i) \/ PrinterScan(i) \/ PrinterEOF(i) \/ PrinterStatus(i) \/ PrinterSchedule(i)

WaiterStep(i) ==
  \/ WaiterActive(i) \/ WaiterStarting(i) \/ WaiterWg(i) \/ WaiterReap(i)
  \/ WaiterOffline(i) \/ WaiterClear(i) \/ WaiterEnd(i)

KillerStep(k) == KillPoll(k) \/ KillSend(k)
ClientStep(c) == Dial(c) \/ StoreConnCount(c)

-----------------------------------------------------------------------------
(* The history: which statement of the code was overtaken, where it does its
   harm.  Every one is a step of Next, and no step waits to avoid it. *)

Shutters == {"stopping", "kill"}

Twice ==     \* IsActive is read before the start under way has set it
  /\ \E g \in Threads : at[g] = "active" /\ at'[g] = "load"
  /\ \/ \E h \in Threads : at[h] \in {"load", "exec"}
     \/ \E i \in Instances : waiter[i] = "init"

Unwaited ==  \* Wg.Wait returns before the printer has called Wg.Add
  \E i \in Instances :
    waiter[i] = "wg" /\ waiter'[i] = "cmd" /\ printer[i] = "launch"

Missed ==    \* "Done" is scanned while the status is not STARTING
  /\ status # "starting"
  /\ \E i \in Instances :
       out[i] # <<>> /\ Head(out[i]) = "done" /\ out'[i] = Tail(out[i])

Early ==     \* a soft freeze reads OFFLINE of a process that was just started
  /\ cur # 0 /\ waiter[cur] \in {"init", "starting"} /\ status = "offline"
  /\ \E g \in Threads \ Operators :
       In(g, {"freeze"}, "switch") /\ at'[g] = "offline"

Refused ==   \* a stop is refused: since its resume somebody has set Suspended
  /\ suspended /\ ~Executes
  /\ \E g \in Threads : at[g] = "write" /\ at'[g] = "idle"

Stray ==     \* a late resume wakes a suspended server nobody is stopping
  /\ status = "online" /\ cur \in frozen \ stopCmd
  /\ \E g \in Threads : In(g, Shutters, "resume") /\ at'[g] = "resumed"

Misread ==   \* the answer to another command counts players of an empty server
  /\ connCount <= 0 /\ cur # 0 /\ players[cur] = {}
  /\ \E g \in Threads : at[g] = "count" /\ at'[g] = "idle"

Lost(f) ==
  \/ f = "twice" /\ Twice
  \/ f = "unwaited" /\ Unwaited
  \/ f = "missed" /\ Missed
  \/ f = "early" /\ Early
  \/ f = "refused" /\ Refused
  \/ f = "stray" /\ Stray
  \/ f = "misread" /\ Misread

(* What a new freeze timer makes up for. *)
MadeUp == IF pending' \subseteq pending THEN {} ELSE {"early", "refused", "stray", "misread"}

History == flaws' = (flaws \ MadeUp) \cup {f \in Flaws : Lost(f)}

-----------------------------------------------------------------------------
Steps ==
  /\ msh = "running"
  /\ \/ Server(ServerNext)
     \/ \E g \in Threads : ThreadStep(g)
     \/ \E i \in Instances : PrinterStep(i) \/ WaiterStep(i) \/ RefresherTick(i)
     \/ \E t \in Timers : Fire(t)
     \/ \E k \in Killers : KillerStep(k)
     \/ \E o \in Operators : Operate(o)
     \/ \E c \in Clients : Join(c) \/ ClientStep(c) \/ HangUp(c)

Next == Steps /\ History

Spec == Init /\ [][Next]_vars

(* The Go scheduler runs every goroutine that can run, an armed timer fires,
   a proxy of a dead server reads an error, and a healthy server that is not
   frozen boots, obeys, exits and notices lost connections.  Nobody has to
   join, operate, leave or fail. *)
Runs(A) == msh = "running" /\ A

Fairness ==
  /\ \A g \in Threads : WF_code(Runs(ThreadStep(g)))
  /\ \A i \in Instances : WF_code(Runs(PrinterStep(i))) /\ WF_code(Runs(WaiterStep(i)))
  /\ \A t \in Timers : WF_code(Runs(Fire(t)))
  /\ \A k \in Killers : WF_code(Runs(KillerStep(k)))
  /\ \A c \in Clients :
       /\ WF_code(Runs(ClientStep(c)))
       /\ WF_code(Runs(link[c] # 0 /\ ~Alive(link[c]) /\ HangUp(c)))
  /\ \A i \in Instances :
       /\ WF_code(Runs(Server(Boot(i) \/ Obey(i) \/ Exit(i))))
       /\ \A c \in Clients : WF_code(Runs(Server(Drop(i, c))))

FairSpec == Spec /\ Fairness
-----------------------------------------------------------------------------
(* Properties that hold *)

(* None of the races fs was lost on the way. *)
Without(fs) == flaws \cap fs = {}

(* Every start found IsActive set by the one before, and was waited for. *)
Ordered == Without({"twice", "unwaited"})

(* Stats.Status follows the life of the process in order, and OFFLINE is
   published only of a process that has ended: termStart, printerOutErr and
   waitForExit together implement Lifecycle, unless two starters pass the
   check of IsActive or Wg.Wait returns before Wg.Add. *)
Lifecycle == INSTANCE Lifecycle
  WITH state <- status, live <- {i \in Instances : Alive(i)}

LifecycleSpec ==
  /\ Lifecycle!Init
  /\ [][Ordered' => Lifecycle!Next]_<<status, {i \in Instances : Alive(i)}>>

(* No goroutine has a statement left to run until a timer fires, the server
   does something or somebody comes. *)
Quiet ==
  /\ \A g \in Threads : op[g] = "idle"
  /\ \A i \in Instances :
       /\ printer[i] \in {"none", "read", "gone"} /\ out[i] = <<>>
       /\ waiter[i] \in {"none", "wg", "cmd", "gone"}

(* An empty server that is awake, answers and was not told to stop has a
   freeze timer running, whatever order WarmMS, FreezeMS, the refresher, the
   printers and the proxies call FreezeMSSchedule in and however many servers
   there were before.  The six ways to lose the timer are named: somebody will
   come back to freeze the server unless one of them has happened. *)
NeverForgotten ==
  /\ Quiet
  /\ Ordered /\ Without({"early", "refused", "stray", "misread"})
  /\ status \in {"starting", "online"} /\ ~majorError
  /\ Running(cur) /\ phase[cur] \in {"boot", "up"} /\ cur \notin stopCmd
  /\ players[cur] = {}
  => pending # {}

(* Once clients and operators stop coming, the server is again and again not
   running: it is stopped, or suspended between two refreshes (FreezeMS,
   suspendRefresher), unless one of the races is lost. *)
Hibernating == \A i \in Instances : ~Running(i)
EmptyServerHibernates ==
  <>[](\A g \in Clients \cup Operators : op[g] = "idle") => []<>(Hibernating \/ flaws # {})

(* A server that was sent "stop" ends, even if it hangs or is suspended in
   between, when StopServerAllowKill is set (killMSifOnlineAfterTimeout). *)
StopIsFinal ==
  \A i \in Instances : i \in stopCmd ~> ~Alive(i) \/ msh = "panicked" \/ ~Ordered

(* FreezeMS(true), called on a server that starts or is online, ends it, unless
   it stops responding, its "Done" was missed, or the stop is refused because
   a soft freeze has suspended the server after it was resumed for the stop. *)
FreezeCommandStops ==
  \A o \in Operators, i \in Instances :
    In(o, {"freeze"}, "switch") /\ Alive(i) /\ status \in {"starting", "online"}
      ~> ~Alive(i) \/ msh = "panicked" \/ majorError \/ ~Ordered \/ ~Without({"missed", "refused"})

-----------------------------------------------------------------------------
(* Statements of comments that the code does not keep *)

(* "If server terminal is already active it returns without doing anything"
   (servctrl-cmd.go:147): termStart never leaves msh with two minecraft servers
   alive. *)
SingleServer == \A i, j \in Instances : Alive(i) /\ Alive(j) => i = j

(* "waits for the specified time and then if the server is still online, kills
   the server process" (servctrl.go:234): the kill that follows a stop never
   hits a server that was not told to stop. *)
KillSparesTheNext ==
  [][\A k \in Killers : KillSend(k) /\ HasProcess /\ Alive(cur) => cur \in stopCmd]_vars
=============================================================================
