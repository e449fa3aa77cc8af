---------------------------- MODULE ServCtrlProofs ----------------------------
(***************************************************************************)
(* Proofs about ServCtrl, for any number of clients, operators, timers and *)
(* starts, with suspension or without: type correctness and the number of  *)
(* steps of a killer; until a start loses one of its two races (Ordered),  *)
(* that at most one server lives, that the status published implements     *)
(* Lifecycle and that a server told to stop has a killer; and unless one   *)
(* of six races is lost, that an empty server that is awake has a freeze   *)
(* timer running, or ConnCount counts a client who is not there.           *)
(***************************************************************************)
EXTENDS ServCtrl, FiniteSetTheorems, TLAPS

Launching == {"load", "exec"}
Gone      == {"none", "gone"}

(* Instances are used in order, and only the last one is in use. *)
Order ==
  \A i \in Instances :
    /\ i > cur => proc[i] = "none" /\ printer[i] = "none" /\ waiter[i] = "none"
    /\ i <= cur => proc[i] # "none"
    /\ i < cur => waiter[i] \in Gone /\ proc[i] \in {"dead", "failed"}

(* The printer and the waiter of an instance follow its process. *)
Watched ==
  \A i \in Instances :
    /\ printer[i] = "none" => proc[i] \in {"none", "failed"}
    /\ printer[i] = "gone" => proc[i] \in {"dead", "failed"}
    /\ out[i] # <<>> => proc[i] \in {"alive", "dead"}
    /\ waiter[i] = "none" <=> proc[i] \in {"none", "unstarted", "failed"}
    /\ printer[i] \in {"online", "stopping", "major", "disarm", "arm"} => waiter[i] = "wg"
    /\ waiter[i] \in {"cmd", "down", "clear", "inactive", "gone"} =>
         printer[i] = "gone" /\ proc[i] = "dead"
    /\ out[i] # <<>> => printer[i] # "gone"

(* The status and IsActive agree with the waiter of the last instance. *)
Published ==
  /\ status = "offline" <=>
       (cur = 0 \/ waiter[cur] \in {"none", "init", "starting", "clear", "inactive", "gone"})
  /\ cur # 0 /\ waiter[cur] \in {"starting", "wg", "cmd", "down", "clear", "inactive"} => isActive
  /\ \A i \in Instances : printer[i] = "online" => status = "starting"
  /\ \A i \in Instances : printer[i] = "stopping" => status = "online"

(* At most one goroutine is between loading a command and starting it, and it
   found no process there. *)
Launch ==
  /\ \A g, h \in Threads : at[g] \in Launching /\ at[h] \in Launching => g = h
  /\ \A g \in Threads : at[g] = "load" => cur = 0 \/ waiter[cur] \in Gone
  /\ \A g \in Threads : at[g] = "exec" => cur # 0 /\ proc[cur] = "unstarted"
  /\ \A i \in Instances : proc[i] = "unstarted" => \E g \in Threads : at[g] = "exec"

IInv == Order /\ Watched /\ Published /\ Launch

(* Which function a goroutine can be in, by the statement it is at. *)
Placed ==
  \A g \in Threads :
    /\ op[g] = "idle" <=> at[g] = "idle"
    /\ at[g] = "write" => op[g] = "resumeStop"
    /\ at[g] = "await" => (op[g] = "starting" /\ Forced(g)) \/ op[g] = "stopping"
    /\ at[g] \in {"resume", "resumed", "denied"} =>
         op[g] \in {"warm", "join", "starting", "stopping", "resumeStop", "kill"}
-----------------------------------------------------------------------------
(* Type correctness *)

(* The sets of goroutines are parts of Threads, and the bounds are numbers. *)
LEMMA ThreadsOK ==
  /\ Clients \subseteq Threads /\ Operators \subseteq Threads
  /\ Timers \subseteq Threads /\ Killers \subseteq Threads
  /\ \A i \in Instances : SuspendAllow /\ SuspendRefresh => <<"refresher", i>> \in Threads
  /\ MaxStarts \in Nat \ {0} /\ AllowKill \in Nat
  BY ServerAssumption, ServCtrlAssumption DEF Threads, Refreshers

(* Moving a goroutine to a known statement keeps the control state typed. *)
LEMMA GotoType ==
  ASSUME op \in [Threads -> Ops], at \in [Threads -> Ats],
         NEW g \in Threads, NEW o \in Ops, NEW a \in Ats, Goto(g, o, a)
  PROVE  op' \in [Threads -> Ops] /\ at' \in [Threads -> Ats]
  BY DEF Goto

(* The functions that choose the next statement choose a known one. *)
LEMMA ContinuationType ==
  ASSUME op \in [Threads -> Ops], at \in [Threads -> Ats], NEW g \in Threads
  PROVE  /\ Return(g) => op' \in [Threads -> Ops] /\ at' \in [Threads -> Ats]
         /\ \A ok \in BOOLEAN : WarmReturns(g, ok) =>
              op' \in [Threads -> Ops] /\ at' \in [Threads -> Ats]
         /\ \A o \in {"warm", "join", "starting", "stopping", "resumeStop", "kill"} :
              /\ AfterResume(g, o) \in Ats
              /\ ResumeFirst(g, o) => op' \in [Threads -> Ops] /\ at' \in [Threads -> Ats]
  BY DEF Return, WarmReturns, ResumeFirst, AfterResume, Goto, Ops, Ats

(* The process of the server keeps its types. *)
LEMMA ServerType ==
  ASSUME ServerTypeOK, ServerNext PROVE ServerTypeOK'
<1> USE DEF ServerTypeOK, Lines
<1>1. ASSUME NEW i \in Instances, Boot(i) PROVE ServerTypeOK'
  BY <1>1 DEF Boot, Logs
<1>2. ASSUME NEW i \in Instances, Obey(i) PROVE ServerTypeOK'
  BY <1>2 DEF Obey, Logs
<1>7. ASSUME NEW i \in Instances, SelfStop(i) PROVE ServerTypeOK'
  BY <1>7 DEF SelfStop, Logs
<1>3. ASSUME NEW i \in Instances, Exit(i) \/ Crash(i) PROVE ServerTypeOK'
  BY <1>3 DEF Exit, Crash, Dies
<1>4. ASSUME NEW i \in Instances, Hang(i) PROVE ServerTypeOK'
  <2>a. ASSUME Logs(i, "unresponsive") PROVE out' \in [Instances -> Seq(Lines)]
    BY <2>a DEF Logs
  <2>b. ASSUME UNCHANGED out PROVE out' \in [Instances -> Seq(Lines)]
    BY <2>b
  <2>1. out' \in [Instances -> Seq(Lines)]
    BY <1>4, <2>a, <2>b DEF Hang
  <2>2. phase' \in [Instances -> {"boot", "up", "down", "hung"}]
    BY <1>4 DEF Hang
  <2>3. UNCHANGED <<proc, frozen, stopCmd, link, players>>
    BY <1>4 DEF Hang
  <2> QED BY <2>1, <2>2, <2>3
<1>5. ASSUME NEW i \in Instances, NEW c \in Clients, Admit(i, c) PROVE ServerTypeOK'
  BY <1>5 DEF Admit
<1>6. ASSUME NEW i \in Instances, NEW c \in Clients, Drop(i, c) PROVE ServerTypeOK'
  BY <1>6 DEF Drop, Logs
<1> QED BY <1>1, <1>2, <1>3, <1>4, <1>5, <1>6, <1>7 DEF ServerNext, Faulty
(* The statements of the goroutines keep every type; grouped by the part of
   the state they write. *)
LEMMA ControlType ==
  ASSUME TypeOK, flaws' \subseteq Flaws, NEW g \in Threads,
         Disarm(g) \/ Arm(g) \/ FreezeMS(g) \/ CountPlayerSafe(g) \/ Await(g) \/ TermStart(g)
  PROVE  TypeOK'
<1> USE DEF TypeOK
<1>1. CASE Disarm(g)
  BY <1>1, GotoType DEF Disarm, StopTimer, Ats, ServerTypeOK, serverVars, stats, term, watch
<1>2. CASE Arm(g)
  BY <1>2, ContinuationType
  DEF Arm, AfterFunc, FreeTimers, ServerTypeOK, serverVars, stats, term, watch
<1>3. CASE FreezeMS(g)
  BY <1>3, GotoType, ContinuationType
  DEF FreezeMS, Ops, Ats, ServerTypeOK, serverVars, stats, timer, term, watch
<1>4. CASE CountPlayerSafe(g)
  BY <1>4, GotoType, ContinuationType
  DEF CountPlayerSafe, Ops, Ats, ServerTypeOK, serverVars, stats, timer, term, watch
<1>5. CASE Await(g)
  BY <1>5, GotoType, ContinuationType
  DEF Await, Ops, Ats, ServerTypeOK, serverVars, stats, timer, term, watch
<1>6. CASE TermStart(g)
  BY <1>6, GotoType
  DEF TermStart, Ops, Ats, ServerTypeOK, serverVars, stats, timer, term, watch
<1> QED BY <1>1, <1>2, <1>3, <1>4, <1>5, <1>6

(* The steps of a goroutine that change the status keep the types, *)
LEMMA StatsType ==
  ASSUME TypeOK, flaws' \subseteq Flaws, NEW g \in Threads,
         WarmMS(g) \/ TermLoad(g) \/ CmdStart(g) \/ OfflineCase(g) \/ SuspendFlag(g) \/ ResumeFlag(g)
  PROVE  TypeOK'
<1> USE DEF TypeOK, ServerTypeOK
<1>1. CASE WarmMS(g)
  <2>1. op' \in [Threads -> Ops] /\ at' \in [Threads -> Ats]
    BY <1>1, GotoType, ContinuationType DEF WarmMS, In, Ops, Ats
  <2> QED BY <1>1, <2>1 DEF WarmMS, serverVars, timer, term, watch
<1>2. CASE TermLoad(g)
  <2>1. op' \in [Threads -> Ops] /\ at' \in [Threads -> Ats]
    BY <1>2, GotoType, ContinuationType DEF TermLoad, StartFails, Ats
  <2>2. cur' \in 0..MaxStarts
    BY <1>2, ThreadsOK DEF TermLoad
  <2> QED BY <1>2, <2>1, <2>2, ThreadsOK
    DEF TermLoad, StartFails, PrinterAts, Instances, timer
<1>3. CASE CmdStart(g)
  <2>1. op' \in [Threads -> Ops] /\ at' \in [Threads -> Ats]
    BY <1>3, GotoType, ContinuationType DEF CmdStart, StartFails, Ats
  <2>2. /\ proc' \in [Instances -> {"none", "unstarted", "alive", "failed", "dead"}]
        /\ waiter' \in [Instances -> WaiterAts]
    BY <1>3 DEF CmdStart, StartFails, WaiterAts
  <2> QED BY <1>3, <2>1, <2>2 DEF CmdStart, StartFails, timer, term
<1>4. CASE OfflineCase(g)
  BY <1>4, ContinuationType DEF OfflineCase, serverVars, timer, term, watch
<1>5. CASE SuspendFlag(g)
  BY <1>5, ContinuationType DEF SuspendFlag, serverVars, timer, term, watch
<1>6. CASE ResumeFlag(g)
  <2>1. AfterResume(g, op[g]) \in Ats
    BY DEF AfterResume, Ats
  <2>2. op' \in [Threads -> Ops] /\ at' \in [Threads -> Ats]
    BY <1>6, <2>1, GotoType, ContinuationType DEF ResumeFlag
  <2> QED BY <1>6, <2>2 DEF ResumeFlag, serverVars, timer, term, watch
<1> QED BY <1>1, <1>2, <1>3, <1>4, <1>5, <1>6

(* those that send a signal or write the stop, *)
LEMMA SignalType ==
  ASSUME TypeOK, flaws' \subseteq Flaws, NEW g \in Threads, Resume(g) \/ Suspend(g) \/ ExecuteStop(g)
  PROVE  TypeOK'
<1> USE DEF TypeOK, ServerTypeOK
<1>0. ASSUME Panics PROVE TypeOK'
  BY <1>0 DEF Panics, serverVars, stats, timer, term, watch, pc
<1>c. HasProcess \/ (cur # 0 /\ Alive(cur)) => cur \in Instances
  BY ThreadsOK DEF HasProcess, Instances
<1>1. CASE Resume(g)
  <2>1. CASE Panics
    BY <2>1, <1>0
  <2>2. CASE ~Panics
    <3>1. op' \in [Threads -> Ops] /\ at' \in [Threads -> Ats]
      BY <1>1, <2>2, GotoType DEF Resume, Ats
    <3>2. UNCHANGED <<proc, phase, stopCmd, out, link, players, stats, timer, term, watch, num, msh>>
          /\ frozen' \in SUBSET Instances
      BY <1>1, <2>2 DEF Resume, serverVars
    <3> QED BY <3>1, <3>2 DEF stats, timer, term, watch
  <2> QED BY <2>1, <2>2
<1>2. CASE Suspend(g)
  <2>1. CASE Panics
    BY <2>1, <1>0
  <2>2. CASE ~Panics
    <3>1. op' \in [Threads -> Ops] /\ at' \in [Threads -> Ats]
      BY <1>2, <2>2, GotoType DEF Suspend, Ats
    <3>2. UNCHANGED <<proc, phase, stopCmd, out, link, players, stats, timer, term, watch, num, msh>>
          /\ frozen' \in SUBSET Instances
      BY <1>2, <2>2, <1>c DEF Suspend, Signalable, serverVars
    <3> QED BY <3>1, <3>2 DEF stats, timer, term, watch
  <2> QED BY <2>1, <2>2
<1>3. CASE ExecuteStop(g)
  <2>1. stopCmd' \in SUBSET Instances
    BY <1>3, <1>c DEF ExecuteStop, Executes
  <2>2. /\ op' \in [Threads -> Ops] /\ at' \in [Threads -> Ats]
        /\ num' \in [Threads -> Int]
    <3>1. CASE Return(g) /\ UNCHANGED num
      BY <3>1, ContinuationType
    <3>2. CASE ~(Return(g) /\ UNCHANGED num)
      <4>1. PICK k \in Killers :
              /\ op' = [op EXCEPT ![g] = "idle", ![k] = "kill"]
              /\ at' = [at EXCEPT ![g] = "idle",
                                  ![k] = IF SuspendAllow THEN "resume" ELSE "poll"]
              /\ num' = [num EXCEPT ![k] = AllowKill]
        BY <1>3, <3>2 DEF ExecuteStop
      <4>2. k \in Threads
        BY ThreadsOK
      <4>3. op' \in [Threads -> Ops]
        BY <4>1, <4>2 DEF Ops
      <4>4. at' \in [Threads -> Ats]
        BY <4>1, <4>2 DEF Ats
      <4>5. num' \in [Threads -> Int]
        BY <4>1, <4>2, ThreadsOK
      <4> QED BY <4>3, <4>4, <4>5
    <3> QED BY <3>1, <3>2
  <2> QED BY <1>3, <2>1, <2>2 DEF ExecuteStop, stats, timer, term, watch
<1> QED BY <1>1, <1>2, <1>3

(* those of the goroutines that come and go, *)
LEMMA TimerKillerClientType ==
  ASSUME TypeOK, flaws' \subseteq Flaws,
         \/ \E t \in Timers : Fire(t)
         \/ \E k \in Killers : KillerStep(k)
         \/ \E o \in Operators : Operate(o)
         \/ \E i \in Instances : RefresherTick(i)
         \/ \E c \in Clients : Join(c) \/ ClientStep(c) \/ HangUp(c)
  PROVE  TypeOK'
<1> USE ThreadsOK DEF TypeOK
<1>0. ASSUME Panics PROVE TypeOK'
  BY <1>0 DEF Panics, serverVars, stats, timer, term, watch, pc, ServerTypeOK
<1>1. ASSUME NEW t \in Timers, Fire(t) PROVE TypeOK'
  BY <1>1, GotoType DEF Fire, Ops, Ats, ServerTypeOK, serverVars, stats, term, watch
<1>2. ASSUME NEW k \in Killers, KillPoll(k) PROVE TypeOK'
  <2>1. op' \in [Threads -> Ops] /\ at' \in [Threads -> Ats]
    BY <1>2, GotoType, ContinuationType DEF KillPoll, Ops, Ats
  <2>2. num' \in [Threads -> Int]
    BY <1>2 DEF KillPoll
  <2> QED BY <1>2, <2>1, <2>2 DEF KillPoll, ServerTypeOK, serverVars, stats, timer, term, watch
<1>3. ASSUME NEW k \in Killers, KillSend(k) PROVE TypeOK'
  <2>1. CASE Panics
    BY <2>1, <1>0
  <2>2. CASE ~Panics
    <3>1. op' \in [Threads -> Ops] /\ at' \in [Threads -> Ats]
      BY <1>3, <2>2, ContinuationType DEF KillSend
    <3>2. ServerTypeOK'
      BY <1>3, <2>2 DEF KillSend, Dies, ServerTypeOK, serverVars
    <3> QED BY <1>3, <2>2, <3>1, <3>2 DEF KillSend, stats, timer, term, watch
  <2> QED BY <2>1, <2>2
<1>4. ASSUME NEW o \in Operators, Operate(o) PROVE TypeOK'
  BY <1>4, GotoType DEF Operate, Ops, Ats, ServerTypeOK, serverVars, stats, timer, term, watch
<1>5. ASSUME NEW i \in Instances, RefresherTick(i) PROVE TypeOK'
  BY <1>5, GotoType DEF RefresherTick, Ops, Ats, ServerTypeOK, serverVars, stats, timer, term, watch
<1>6. ASSUME NEW c \in Clients, Join(c) PROVE TypeOK'
  BY <1>6, GotoType DEF Join, Ops, Ats, ServerTypeOK, serverVars, stats, timer, term, watch
<1>7. ASSUME NEW c \in Clients, Dial(c) PROVE TypeOK'
  <2>1. op' \in [Threads -> Ops] /\ at' \in [Threads -> Ats]
    BY <1>7, GotoType, ContinuationType DEF Dial, Ops, Ats
  <2>2. num' \in [Threads -> Int] /\ link' \in [Clients -> Instances \cup {0}]
    BY <1>7 DEF Dial, ServerTypeOK
  <2> QED BY <1>7, <2>1, <2>2 DEF Dial, ServerTypeOK, stats, timer, term, watch
<1>8. ASSUME NEW c \in Clients, StoreConnCount(c) PROVE TypeOK'
  <2>1. op' \in [Threads -> Ops] /\ at' \in [Threads -> Ats]
    BY <1>8, GotoType DEF StoreConnCount, Ops, Ats
  <2>2. num' \in [Threads -> Int] /\ connCount' \in Int
    BY <1>8 DEF StoreConnCount
  <2> QED BY <1>8, <2>1, <2>2 DEF StoreConnCount, ServerTypeOK, serverVars, timer, term, watch
<1>9. ASSUME NEW c \in Clients, HangUp(c) PROVE TypeOK'
  <2>1. op' \in [Threads -> Ops] /\ at' \in [Threads -> Ats]
    BY <1>9, GotoType DEF HangUp, Ops, Ats
  <2>2. num' \in [Threads -> Int] /\ link' \in [Clients -> Instances \cup {0}]
    BY <1>9 DEF HangUp, ServerTypeOK
  <2> QED BY <1>9, <2>1, <2>2 DEF HangUp, ServerTypeOK, stats, timer, term, watch
<1> QED
  BY <1>1, <1>2, <1>3, <1>4, <1>5, <1>6, <1>7, <1>8, <1>9 DEF KillerStep, ClientStep

(* and those of the printers and the waiters. *)
LEMMA WatchType ==
  ASSUME TypeOK, flaws' \subseteq Flaws, NEW i \in Instances, PrinterStep(i) \/ WaiterStep(i)
  PROVE  TypeOK'
<1> USE DEF TypeOK, PrinterAts, WaiterAts, Printer, Waiter, pc
<1>1. CASE PrinterStart(i)
  BY <1>1 DEF PrinterStart, ServerTypeOK, serverVars, stats, timer, term
<1>2. CASE PrinterScan(i)
  <2>1. LineCase(Head(out[i])) \in {"online", "disarm", "stopping", "major", "read"}
    BY DEF LineCase
  <2>2. printer' \in [Instances -> PrinterAts]
    BY <1>2, <2>1 DEF PrinterScan
  <2>3. out' \in [Instances -> Seq(Lines)]
    BY <1>2 DEF PrinterScan, ServerTypeOK
  <2> QED BY <1>2, <2>2, <2>3 DEF PrinterScan, ServerTypeOK, stats, timer, term
<1>3. CASE PrinterEOF(i)
  BY <1>3 DEF PrinterEOF, ServerTypeOK, serverVars, stats, timer, term
<1>4. CASE PrinterStatus(i)
  BY <1>4 DEF PrinterStatus, ServerTypeOK, serverVars, timer, term
<1>5. CASE PrinterSchedule(i)
  BY <1>5 DEF PrinterSchedule, StopTimer, AfterFunc, FreeTimers, ServerTypeOK, serverVars, stats, term
<1>a. CASE WaiterActive(i)
  <2>1. isActive' \in BOOLEAN
    BY <1>a DEF WaiterActive
  <2>2. waiter' \in [Instances -> WaiterAts]
    BY <1>a DEF WaiterActive
  <2> QED BY <1>a, <2>1, <2>2 DEF WaiterActive, ServerTypeOK, serverVars, stats, timer
<1>6. CASE WaiterStarting(i)
  <2>1. suspended' \in BOOLEAN
    BY <1>6 DEF WaiterStarting
  <2>3. connCount' \in Int
    <3>1. connCount' = 0
      BY <1>6 DEF WaiterStarting
    <3> QED BY <3>1
  <2>2. waiter' \in [Instances -> WaiterAts]
    BY <1>6 DEF WaiterStarting
  <2> QED BY <1>6, <2>1, <2>2, <2>3 DEF WaiterStarting, ServerTypeOK, serverVars, timer, term
<1>7. CASE WaiterWg(i) \/ WaiterReap(i)
  BY <1>7 DEF WaiterWg, WaiterReap, ServerTypeOK, serverVars, stats, timer, term
<1>8. CASE WaiterOffline(i)
  BY <1>8 DEF WaiterOffline, ServerTypeOK, serverVars, timer, term
<1>9. CASE WaiterClear(i)
  <2>1. suspended' \in BOOLEAN
    BY <1>9 DEF WaiterClear
  <2>2. connCount' \in Int
    <3>1. connCount' = 0
      BY <1>9 DEF WaiterClear
    <3> QED BY <3>1
  <2> QED BY <1>9, <2>1, <2>2 DEF WaiterClear, ServerTypeOK, serverVars, timer, term
<1>10. CASE WaiterEnd(i)
  <2>1. isActive' \in BOOLEAN
    BY <1>10 DEF WaiterEnd
  <2> QED BY <1>10, <2>1 DEF WaiterEnd, ServerTypeOK, serverVars, stats, timer
<1> QED
  BY <1>1, <1>2, <1>3, <1>4, <1>5, <1>a, <1>6, <1>7, <1>8, <1>9, <1>10 DEF PrinterStep, WaiterStep

(* Every step keeps the types. *)
LEMMA TypeStep == TypeOK /\ [Next]_vars => TypeOK'
<1> SUFFICES ASSUME TypeOK, [Next]_vars PROVE TypeOK'
  OBVIOUS
<1>0. flaws' \subseteq Flaws
  BY DEF Next, History, vars, TypeOK
<1>1. CASE Server(ServerNext)
  <2>1. ServerTypeOK'
    BY <1>1, ServerType DEF Server, TypeOK
  <2> QED BY <1>0, <1>1, <2>1 DEF Server, TypeOK, stats, timer, term, watch, pc
<1>2. ASSUME NEW g \in Threads, ThreadStep(g) PROVE TypeOK'
  BY <1>0, <1>2, ControlType, StatsType, SignalType DEF ThreadStep
<1>3. ASSUME NEW i \in Instances, PrinterStep(i) \/ WaiterStep(i) PROVE TypeOK'
  BY <1>0, <1>3, WatchType
<1>4. CASE UNCHANGED vars
  BY <1>4 DEF vars, TypeOK, ServerTypeOK, serverVars, stats, timer, term, watch, pc
<1> QED
  BY <1>0, <1>1, <1>2, <1>3, <1>4, TimerKillerClientType DEF Next, Steps

(* Every variable of msh and of the server stays in its domain, whatever the
   interleaving. *)
THEOREM TypeCorrect == Spec => []TypeOK
<1>1. Init => TypeOK
  <2> SUFFICES ASSUME Init PROVE TypeOK
    OBVIOUS
  <2>1. ServerTypeOK
    BY DEF Init, ServerInit, ServerTypeOK
  <2>2. op \in [Threads -> Ops] /\ at \in [Threads -> Ats] /\ num \in [Threads -> Int]
    BY DEF Init, Ops, Ats
  <2>3. printer \in [Instances -> PrinterAts] /\ waiter \in [Instances -> WaiterAts]
    BY DEF Init, PrinterAts, WaiterAts
  <2>4. suspended \in BOOLEAN /\ majorError \in BOOLEAN /\ isActive \in BOOLEAN
    BY DEF Init
  <2>5. connCount \in Int /\ cur \in 0..MaxStarts
    BY ThreadsOK DEF Init
  <2> QED BY <2>1, <2>2, <2>3, <2>4, <2>5 DEF Init, TypeOK
<1> QED BY <1>1, TypeStep, PTL DEF Spec
-----------------------------------------------------------------------------
(* The statements a goroutine can be at *)

(* A goroutine moves itself only. *)
OnlyMoves(g) == \A h \in Threads : h # g => op'[h] = op[h] /\ at'[h] = at[h]

(* The ways a goroutine moves leave the others where they are. *)
LEMMA OnlyGoes ==
  ASSUME TypeOK, NEW g \in Threads
  PROVE  /\ \A o, a : Goto(g, o, a) => OnlyMoves(g) /\ op'[g] = o /\ at'[g] = a
         /\ Return(g) => OnlyMoves(g) /\ at'[g] = "idle"
         /\ \A ok : WarmReturns(g, ok) => OnlyMoves(g)
         /\ \A o : ResumeFirst(g, o) => OnlyMoves(g) /\ op'[g] = o /\ at'[g] \in {"resume", AfterResume(g, o)}
         /\ \A o : ResumeFirst(g, o) /\ ~SuspendAllow => at'[g] = AfterResume(g, o)
<1>1. \A o, a : Goto(g, o, a) => OnlyMoves(g) /\ op'[g] = o /\ at'[g] = a
  BY DEF Goto, OnlyMoves, TypeOK
<1> QED
  BY <1>1 DEF Return, WarmReturns, ResumeFirst

(* Every step leaves the goroutines where they can be. *)
LEMMA PlacedStep == ASSUME TypeOK, Placed, [Next]_vars PROVE Placed'
<1>1. ASSUME NEW g \in Threads, NEW o, NEW a, Goto(g, o, a),
             o = "idle" <=> a = "idle", a # "write" \/ o = "resumeStop",
             a = "await" => (o = "starting" /\ Forced(g)) \/ o = "stopping",
             a \in {"resume", "resumed", "denied"} =>
               o \in {"warm", "join", "starting", "stopping", "resumeStop", "kill"}
      PROVE  Placed'
  <2>1. OnlyMoves(g) /\ op'[g] = o /\ at'[g] = a
    BY <1>1, OnlyGoes
  <2> QED BY <1>1, <2>1 DEF Placed, OnlyMoves, Forced
<1>2. ASSUME NEW g \in Threads, Return(g) PROVE Placed'
  BY <1>1, <1>2 DEF Return
<1>3. ASSUME NEW g \in Threads, NEW ok, WarmReturns(g, ok) PROVE Placed'
  BY <1>1, <1>2, <1>3 DEF WarmReturns
<1>4. ASSUME NEW g \in Threads, NEW o \in {"warm", "join", "starting", "stopping", "resumeStop", "kill"},
             ResumeFirst(g, o) \/ Goto(g, o, AfterResume(g, o))
      PROVE  Placed'
  <2>1. /\ AfterResume(g, o) \in {"disarm", "await", "write", "poll"}
        /\ AfterResume(g, o) = "write" => o = "resumeStop"
        /\ AfterResume(g, o) = "await" => (o = "starting" /\ Forced(g)) \/ o = "stopping"
    BY DEF AfterResume
  <2>2. ASSUME Goto(g, o, AfterResume(g, o)) PROVE Placed'
    BY <1>1, <2>1, <2>2
  <2>3. ASSUME Goto(g, o, "resume") PROVE Placed'
    BY <1>1, <2>3
  <2> QED BY <1>4, <2>2, <2>3 DEF ResumeFirst
<1>5. ASSUME UNCHANGED <<op, at>> PROVE Placed'
  BY <1>5 DEF Placed, Forced
<1>6. ASSUME NEW g \in Threads, ThreadStep(g) PROVE Placed'
  <2>0. at[g] # "idle" => op[g] # "idle"
    BY DEF Placed
  <2>1. CASE WarmMS(g)
    BY <2>1, <1>1, <1>3, <1>4 DEF WarmMS, In
  <2>2. CASE TermStart(g) \/ TermLoad(g) \/ CmdStart(g)
    BY <2>0, <2>2, <1>1, <1>3 DEF TermStart, TermLoad, CmdStart, StartFails
  <2>3. CASE Resume(g) \/ ResumeFlag(g)
    <3>1. op[g] \in {"warm", "join", "starting", "stopping", "resumeStop", "kill"}
      BY <2>3, <1>5 DEF Placed, Resume, ResumeFlag
    <3>2. CASE Resume(g)
      BY <3>1, <3>2, <1>1, <1>5 DEF Resume, Panics, pc
    <3>3. CASE ResumeFlag(g)
      BY <3>1, <3>3, <1>2, <1>3, <1>4 DEF ResumeFlag
    <3> QED BY <2>3, <3>2, <3>3
  <2>4. CASE Suspend(g)
    BY <2>0, <2>4, <1>1, <1>5 DEF Suspend, Panics, pc
  <2>5. CASE FreezeMS(g) \/ CountPlayerSafe(g) \/ Await(g)
    BY <2>5, <1>1, <1>2, <1>4 DEF FreezeMS, CountPlayerSafe, Await
  <2>6. CASE SuspendFlag(g) \/ OfflineCase(g)
    BY <2>6, <1>2 DEF SuspendFlag, OfflineCase
  <2>7. CASE ExecuteStop(g)
    <3>1. ASSUME NEW k \in Killers,
                 op' = [op EXCEPT ![g] = "idle", ![k] = "kill"],
                 at' = [at EXCEPT ![g] = "idle", ![k] = IF SuspendAllow THEN "resume" ELSE "poll"]
          PROVE  Placed'
      BY <3>1, ThreadsOK DEF Placed, Forced, TypeOK
    <3> QED BY <2>7, <3>1, <1>2 DEF ExecuteStop
  <2>8. CASE Disarm(g) \/ Arm(g)
    BY <2>0, <2>8, <1>1, <1>2, <1>3 DEF Disarm, Arm
  <2> QED BY <1>6, <2>1, <2>2, <2>3, <2>4, <2>5, <2>6, <2>7, <2>8 DEF ThreadStep
<1>7. ASSUME NEW t \in Timers, Fire(t) PROVE Placed'
  BY <1>1, <1>7, ThreadsOK DEF Fire
<1>8. ASSUME NEW k \in Killers, KillerStep(k) PROVE Placed'
  BY <1>1, <1>2, <1>5, <1>8, ThreadsOK DEF KillerStep, KillPoll, KillSend, Panics, pc
<1>9. ASSUME NEW o \in Operators, Operate(o) PROVE Placed'
  BY <1>1, <1>9, ThreadsOK DEF Operate
<1>10. ASSUME NEW c \in Clients, Join(c) \/ ClientStep(c) \/ HangUp(c) PROVE Placed'
  BY <1>1, <1>2, <1>10, ThreadsOK DEF Join, ClientStep, Dial, StoreConnCount, HangUp
<1>11. ASSUME NEW i \in Instances, PrinterStep(i) \/ WaiterStep(i) PROVE Placed'
  BY <1>5, <1>11 DEF PrinterStep, PrinterStart, PrinterScan, PrinterEOF, PrinterStatus, PrinterSchedule,
     WaiterStep, WaiterActive, WaiterStarting, WaiterWg, WaiterReap, WaiterOffline, WaiterClear, WaiterEnd, pc
<1>12. ASSUME NEW i \in Instances, RefresherTick(i) PROVE Placed'
  BY <1>1, <1>12, ThreadsOK DEF RefresherTick
<1>13. CASE Server(ServerNext) \/ UNCHANGED vars
  BY <1>5, <1>13 DEF Server, pc, vars
<1> QED
  BY <1>6, <1>7, <1>8, <1>9, <1>10, <1>11, <1>12, <1>13 DEF Next, Steps

(* Whatever the interleaving, the goroutines stay where they can be. *)
LEMMA PlacedCorrect == Spec => []Placed
<1>1. Init => Placed
  BY DEF Init, Placed
<1> QED BY <1>1, PlacedStep, TypeCorrect, PTL DEF Spec
-----------------------------------------------------------------------------
(* The invariant: steps that do not touch what it is about *)

Core == <<proc, out, printer, waiter, status, isActive, cur>>

(* Goroutines leave the launching statements or stay where they are; nobody
   enters them and nobody leaves cmd.Start. *)
Undisturbed ==
  \A h \in Threads :
    \/ at'[h] = at[h] /\ op'[h] = op[h]
    \/ at'[h] \notin Launching /\ at[h] # "exec"

(* A step that leaves Core and the launch alone keeps the invariant. *)
LEMMA Frame ==
  ASSUME TypeOK, IInv, UNCHANGED Core, Undisturbed PROVE IInv'
<1>1. Order' /\ Watched' /\ Published'
  BY DEF IInv, Order, Watched, Published, Core
<1>2. Launch'
  BY DEF IInv, Launch, Core, Undisturbed, Launching
<1> QED BY <1>1, <1>2 DEF IInv

(* Whoever resumes a server is not starting one. *)
LEMMA AfterResumeCalm == ASSUME NEW g, NEW o PROVE AfterResume(g, o) \notin Launching
  BY DEF AfterResume, Launching

(* The ways a goroutine moves do not disturb the launch. *)
LEMMA Moves ==
  ASSUME TypeOK, NEW g \in Threads, at[g] # "exec"
  PROVE  /\ \A o, a : a \notin Launching /\ Goto(g, o, a) => Undisturbed
         /\ Return(g) => Undisturbed
         /\ \A ok : WarmReturns(g, ok) => Undisturbed
         /\ \A o : ResumeFirst(g, o) => Undisturbed
<1>1. \A o, a : a \notin Launching /\ Goto(g, o, a) => Undisturbed
  BY DEF Goto, Undisturbed, TypeOK
<1>2. Return(g) => Undisturbed
  BY <1>1 DEF Return, Launching
<1>3. \A ok : WarmReturns(g, ok) => Undisturbed
  BY <1>1, <1>2 DEF WarmReturns, Launching
<1>4. \A o : ResumeFirst(g, o) => Undisturbed
  BY <1>1, AfterResumeCalm DEF ResumeFirst, Launching
<1> QED BY <1>1, <1>2, <1>3, <1>4

(* Steps of a goroutine that is not starting a server, *)
LEMMA CalmThread ==
  ASSUME TypeOK, Placed, IInv, NEW g \in Threads,
         \/ Disarm(g) \/ Arm(g) \/ Resume(g) \/ ResumeFlag(g) \/ Suspend(g) \/ SuspendFlag(g)
         \/ FreezeMS(g) \/ CountPlayerSafe(g) \/ Await(g) \/ OfflineCase(g) \/ ExecuteStop(g)
  PROVE  IInv'
<1>0. ASSUME Panics PROVE IInv'
  <2>1. UNCHANGED Core /\ Undisturbed
    BY <1>0 DEF Panics, Core, Undisturbed, serverVars, stats, term, watch, pc
  <2> QED BY <2>1, Frame
<1>1. CASE Disarm(g)
  BY <1>1, Frame, Moves DEF Disarm, Core, Launching, serverVars, stats, term, watch
<1>2. CASE Arm(g)
  <2>1. Undisturbed
    BY <1>2, Moves DEF Arm
  <2> QED BY <1>2, <2>1, Frame DEF Arm, Core, serverVars, stats, term, watch
<1>3. CASE Resume(g)
  <2>1. CASE Panics
    BY <2>1, <1>0
  <2>2. CASE ~Panics
    BY <1>3, <2>2, Frame, Moves DEF Resume, Core, Launching, serverVars, stats, term, watch
  <2> QED BY <2>1, <2>2
<1>4. CASE ResumeFlag(g)
  <2>1. Undisturbed
    BY <1>4, Moves, AfterResumeCalm DEF ResumeFlag
  <2> QED BY <1>4, <2>1, Frame DEF ResumeFlag, Core, serverVars, term, watch
<1>5. CASE Suspend(g)
  <2>1. CASE Panics
    BY <2>1, <1>0
  <2>2. CASE ~Panics
    BY <1>5, <2>2, Frame, Moves DEF Suspend, Core, Launching, serverVars, stats, term, watch
  <2> QED BY <2>1, <2>2
<1>6. CASE SuspendFlag(g)
  BY <1>6, Frame, Moves DEF SuspendFlag, Core, serverVars, term, watch
<1>7. CASE FreezeMS(g)
  <2>1. Undisturbed
    BY <1>7, Moves DEF FreezeMS, In, Launching
  <2> QED BY <1>7, <2>1, Frame DEF FreezeMS, Core, serverVars, stats, term, watch
<1>8. CASE CountPlayerSafe(g)
  <2>1. Undisturbed
    BY <1>8, Moves DEF CountPlayerSafe, Launching
  <2> QED BY <1>8, <2>1, Frame DEF CountPlayerSafe, Core, serverVars, stats, term, watch
<1>9. CASE Await(g)
  <2>1. Undisturbed
    BY <1>9, Moves DEF Await, Launching
  <2> QED BY <1>9, <2>1, Frame DEF Await, Core, serverVars, stats, term, watch
<1>10. CASE OfflineCase(g)
  BY <1>10, Frame, Moves DEF OfflineCase, Core, serverVars, term, watch
<1>11. CASE ExecuteStop(g)
  <2>1. Undisturbed
    <3>1. CASE Return(g)
      BY <1>11, <3>1, Moves DEF ExecuteStop
    <3>2. CASE ~Return(g)
      <4>1. PICK k \in Killers :
              /\ op[k] = "idle"
              /\ op' = [op EXCEPT ![g] = "idle", ![k] = "kill"]
              /\ at' = [at EXCEPT ![g] = "idle",
                                  ![k] = IF SuspendAllow THEN "resume" ELSE "poll"]
        BY <1>11, <3>2 DEF ExecuteStop
      <4>2. at[g] # "exec" /\ at[k] # "exec"
        BY <1>11, <4>1, ThreadsOK DEF ExecuteStop, Placed
      <4> QED BY <4>1, <4>2, ThreadsOK DEF Undisturbed, Launching, TypeOK
    <3> QED BY <3>1, <3>2
  <2> QED BY <1>11, <2>1, Frame DEF ExecuteStop, Core, stats, term, watch
<1> QED BY <1>1, <1>2, <1>3, <1>4, <1>5, <1>6, <1>7, <1>8, <1>9, <1>10, <1>11

(* and of the goroutines that come and go, keep the invariant. *)
LEMMA CalmCaller ==
  ASSUME TypeOK, Placed, IInv,
         \/ \E t \in Timers : Fire(t)
         \/ \E k \in Killers : KillPoll(k)
         \/ \E o \in Operators : Operate(o)
         \/ \E i \in Instances : RefresherTick(i)
         \/ \E c \in Clients : Join(c) \/ ClientStep(c) \/ HangUp(c)
  PROVE  IInv'
<1> USE ThreadsOK
<1>i. ASSUME NEW g \in Threads, op[g] = "idle" PROVE at[g] # "exec"
  BY <1>i DEF Placed
<1>1. ASSUME NEW t \in Timers, Fire(t) PROVE IInv'
  BY <1>1, <1>i, Frame, Moves DEF Fire, Core, Launching, serverVars, stats, term, watch
<1>2. ASSUME NEW k \in Killers, KillPoll(k) PROVE IInv'
  <2>1. Undisturbed
    <3>1. CASE Return(k) \/ Goto(k, "kill", "send")
      BY <1>2, <3>1, Moves DEF KillPoll, Launching
    <3>2. CASE UNCHANGED <<op, at>>
      BY <3>2 DEF Undisturbed
    <3> QED BY <1>2, <3>1, <3>2 DEF KillPoll
  <2> QED BY <1>2, <2>1, Frame DEF KillPoll, Core, serverVars, stats, term, watch
<1>3. ASSUME NEW o \in Operators, Operate(o) PROVE IInv'
  BY <1>3, <1>i, Frame, Moves DEF Operate, Core, Launching, serverVars, stats, term, watch
<1>4. ASSUME NEW i \in Instances, RefresherTick(i) PROVE IInv'
  BY <1>4, <1>i, Frame, Moves DEF RefresherTick, Core, Launching, serverVars, stats, term, watch
<1>5. ASSUME NEW c \in Clients, Join(c) PROVE IInv'
  BY <1>5, <1>i, Frame, Moves DEF Join, Core, Launching, serverVars, stats, term, watch
<1>6. ASSUME NEW c \in Clients, Dial(c) PROVE IInv'
  <2>1. Undisturbed
    BY <1>6, Moves DEF Dial, Launching
  <2> QED BY <1>6, <2>1, Frame DEF Dial, Core, stats, term, watch
<1>7. ASSUME NEW c \in Clients, StoreConnCount(c) PROVE IInv'
  <2>1. Undisturbed
    BY <1>7, Moves DEF StoreConnCount, Launching
  <2> QED BY <1>7, <2>1, Frame DEF StoreConnCount, Core, serverVars, term, watch
<1>8. ASSUME NEW c \in Clients, HangUp(c) PROVE IInv'
  <2>1. Undisturbed
    BY <1>8, Moves DEF HangUp, Launching
  <2> QED BY <1>8, <2>1, Frame DEF HangUp, Core, stats, term, watch
<1> QED BY <1>1, <1>2, <1>3, <1>4, <1>5, <1>6, <1>7, <1>8 DEF ClientStep

-----------------------------------------------------------------------------
(* The invariant: the process runs and ends *)

(* Only the last instance can be alive. *)
LEMMA AliveIsCur ==
  ASSUME TypeOK, IInv, NEW i \in Instances, Alive(i) PROVE i = cur /\ cur \in Instances
<1>1. i \in Int /\ cur \in Int
  BY ThreadsOK DEF TypeOK, Instances
<1>2. ~(i > cur) /\ ~(i < cur)
  BY DEF IInv, Order, Alive
<1> QED BY <1>1, <1>2

(* So does a line that the server logs, *)
LEMMA LogsInv ==
  ASSUME TypeOK, IInv, NEW i \in Instances, NEW line, Logs(i, line),
         UNCHANGED <<proc, printer, waiter, status, isActive, cur, op, at>>
  PROVE  IInv'
<1>1. Alive(i) /\ \A j \in Instances : j # i => out'[j] = out[j]
  BY DEF Logs, Running, TypeOK, ServerTypeOK
<1>2. Order' /\ Published'
  BY DEF IInv, Order, Published
<1>3. Watched'
  BY <1>1 DEF IInv, Watched, Alive
<1>4. Launch'
  BY DEF IInv, Launch
<1> QED BY <1>2, <1>3, <1>4 DEF IInv

(* the end of the process, *)
LEMMA DiesInv ==
  ASSUME TypeOK, IInv, NEW i \in Instances, Alive(i), Dies(i),
         UNCHANGED <<printer, waiter, status, isActive, cur>>, Undisturbed
  PROVE  IInv'
<1>1. /\ i = cur /\ proc[i] = "alive" /\ proc'[i] = "dead" /\ out' = out
      /\ \A j \in Instances : j # i => proc'[j] = proc[j]
  BY AliveIsCur DEF Dies, Alive, TypeOK, ServerTypeOK
<1>2. Order'
  BY <1>1 DEF IInv, Order
<1>3. Watched'
  BY <1>1 DEF IInv, Watched
<1>4. Published'
  BY DEF IInv, Published
<1>5. Launch'
  <2>1. \A g \in Threads : at[g] # "exec"
    BY <1>1 DEF IInv, Launch
  <2> QED BY <1>1, <2>1 DEF IInv, Launch, Undisturbed, Launching
<1> QED BY <1>2, <1>3, <1>4, <1>5 DEF IInv

(* hence every step of the server, *)
LEMMA ServerInv == ASSUME TypeOK, IInv, Server(ServerNext) PROVE IInv'
<1>0. UNCHANGED <<printer, waiter, status, isActive, cur, op, at>>
  BY DEF Server, stats, term, watch, pc
<1>u. Undisturbed
  BY <1>0 DEF Undisturbed
<1>1. ASSUME NEW i \in Instances, NEW line, Logs(i, line), UNCHANGED proc PROVE IInv'
  BY <1>0, <1>1, LogsInv
<1>2. ASSUME NEW i \in Instances, Running(i), Dies(i) PROVE IInv'
  BY <1>0, <1>u, <1>2, DiesInv DEF Running
<1>3. ASSUME UNCHANGED <<proc, out>> PROVE IInv'
  BY <1>0, <1>u, <1>3, Frame DEF Core
<1>4. ASSUME NEW i \in Instances, Boot(i) \/ Obey(i) \/ Exit(i) \/ Faulty(i) PROVE IInv'
  BY <1>1, <1>2, <1>3, <1>4 DEF Boot, Obey, Exit, Faulty, SelfStop, Crash, Hang
<1>5. ASSUME NEW i \in Instances, NEW c \in Clients, Admit(i, c) \/ Drop(i, c) PROVE IInv'
  BY <1>1, <1>3, <1>5 DEF Admit, Drop
<1> QED BY <1>4, <1>5 DEF Server, ServerNext

(* and the signal of a killer. *)
LEMMA KillInv == ASSUME TypeOK, IInv, NEW k \in Killers, KillSend(k) PROVE IInv'
<1>1. CASE Panics
  <2>1. UNCHANGED Core /\ Undisturbed
    BY <1>1 DEF Panics, Core, Undisturbed, serverVars, stats, term, watch, pc
  <2> QED BY <2>1, Frame
<1>2. CASE ~Panics
  <2>1. Undisturbed
    BY <1>2, Moves, ThreadsOK DEF KillSend
  <2>2. UNCHANGED <<printer, waiter, status, isActive, cur>>
    BY <1>2 DEF KillSend, stats, term, watch
  <2>3. CASE Alive(cur)
    <3>1. cur \in Instances
      BY <1>2 DEF KillSend, HasProcess, TypeOK, Instances
    <3> QED BY <1>2, <2>1, <2>2, <2>3, <3>1, DiesInv DEF KillSend
  <2>4. CASE ~Alive(cur)
    BY <1>2, <2>1, <2>2, <2>4, Frame DEF KillSend, Core, serverVars
  <2> QED BY <2>3, <2>4
<1> QED BY <1>1, <1>2
-----------------------------------------------------------------------------
(* The invariant: WarmMS starts a server *)

(* It reads the status, *)
LEMMA WarmInv ==
  ASSUME TypeOK, IInv, NEW g \in Threads, WarmMS(g) PROVE IInv'
<1>1. UNCHANGED Core /\ at[g] = "switch"
  BY DEF WarmMS, In, Core, serverVars, term, watch
<1>2. Undisturbed
  BY <1>1, Moves DEF WarmMS, Launching
<1> QED BY <1>1, <1>2, Frame

(* enters termStart and finds nobody there before it, *)
LEMMA TermStartInv ==
  ASSUME TypeOK, IInv, ~Twice, NEW g \in Threads, TermStart(g) PROVE IInv'
<1>1. UNCHANGED Core /\ at[g] = "active"
  BY DEF TermStart, Core, serverVars, stats, term, watch
<1>2. CASE isActive
  BY <1>1, <1>2, Frame, Moves DEF TermStart, Launching
<1>3. CASE ~isActive
  <2>1. at' = [at EXCEPT ![g] = "load"]
    BY <1>3 DEF TermStart, Goto
  <2>2. /\ \A h \in Threads : at[h] \notin Launching
        /\ \A i \in Instances : waiter[i] # "init"
    BY <1>1, <2>1 DEF Twice, Launching, TypeOK
  <2>3. cur = 0 \/ waiter[cur] \in Gone
    BY <1>3, <2>2 DEF IInv, Published, Gone, TypeOK, Instances, WaiterAts
  <2>4. Order' /\ Watched' /\ Published'
    BY <1>1 DEF IInv, Order, Watched, Published, Core
  <2>5. Launch'
    BY <1>1, <2>1, <2>2, <2>3 DEF IInv, Launch, Launching, Core, TypeOK
  <2> QED BY <2>4, <2>5 DEF IInv
<1> QED BY <1>2, <1>3

(* loads the next instance, *)
LEMMA TermLoadInv ==
  ASSUME TypeOK, IInv, NEW g \in Threads, TermLoad(g) PROVE IInv'
<1>1. /\ at[g] = "load" /\ UNCHANGED <<out, status, isActive, waiter>>
      /\ cur + 1 \in Instances /\ cur \in Nat
      /\ waiter[cur + 1] = "none" /\ out[cur + 1] = <<>> /\ proc[cur + 1] = "none"
      /\ printer[cur + 1] = "none"
  <2>1. at[g] = "load" /\ UNCHANGED <<out, status, isActive, waiter>>
        /\ cur + 1 \in Instances /\ cur \in Nat
    BY ThreadsOK DEF TermLoad, TypeOK, Instances
  <2> QED BY <2>1 DEF IInv, Order, Watched, TypeOK
<1>2. CASE StartFails(g) /\ UNCHANGED <<cur, proc, printer>>
  BY <1>1, <1>2, Frame, Moves DEF StartFails, Core
<1>h. \A h \in Threads : h # g => at[h] \notin Launching
  BY <1>1 DEF IInv, Launch, Launching
<1>u. \A i \in Instances : proc[i] # "unstarted"
  BY <1>1, <1>h DEF IInv, Launch, Launching
<1>g. \A i \in Instances : i = cur => waiter[i] \in Gone /\ proc[i] \in {"dead", "failed"}
  <2>1. \A i \in Instances : i = cur => waiter[i] \in Gone
    BY <1>1 DEF IInv, Launch, Instances
  <2>2. \A i \in Instances : i = cur => proc[i] # "none"
    BY <1>1 DEF IInv, Order
  <2> QED BY <2>1, <2>2, <1>u DEF IInv, Watched, Gone
<1>o. status = "offline"
  BY <1>1, <1>g DEF IInv, Launch, Published, Gone
<1>3. ASSUME cur' = cur + 1, NEW p \in {"unstarted", "failed"}, proc' = [proc EXCEPT ![cur + 1] = p],
             NEW r \in {"launch", "none"}, r = "none" => p = "failed",
             \A i \in Instances : printer'[i] = IF i = cur + 1 THEN r ELSE printer[i]
      PROVE  Order' /\ Watched' /\ Published'
  <2>1. /\ \A i \in Instances : i # cur + 1 => proc'[i] = proc[i] /\ printer'[i] = printer[i]
        /\ proc'[cur + 1] = p /\ printer'[cur + 1] = r
    BY <1>1, <1>3 DEF TypeOK, ServerTypeOK
  <2>2. Order'
    BY <1>1, <1>3, <1>g, <2>1 DEF IInv, Order, TypeOK, Instances
  <2>3. Watched'
    BY <1>1, <1>3, <2>1 DEF IInv, Watched
  <2>4. Published'
    BY <1>1, <1>3, <1>o, <2>1 DEF IInv, Published
  <2> QED BY <2>2, <2>3, <2>4
<1>4. CASE /\ cur' = cur + 1
           /\ proc' = [proc EXCEPT ![cur + 1] = "unstarted"]
           /\ printer' = [printer EXCEPT ![cur + 1] = "launch"]
           /\ Goto(g, op[g], "exec")
  <2>1. Order' /\ Watched' /\ Published'
    BY <1>3, <1>4 DEF TypeOK
  <2>2. Launch'
    BY <1>1, <1>4, <1>h, <1>u DEF Goto, Launch, Launching, TypeOK, ServerTypeOK
  <2> QED BY <2>1, <2>2 DEF IInv
<1>5. CASE /\ StartFails(g) /\ UNCHANGED printer
           /\ cur' = cur + 1
           /\ proc' = [proc EXCEPT ![cur + 1] = "failed"]
  <2>1. Order' /\ Watched' /\ Published'
    BY <1>1, <1>3, <1>5
  <2>2. Undisturbed
    BY <1>1, <1>5, Moves DEF StartFails
  <2>3. \A h \in Threads : at'[h] \notin Launching
    BY <1>h, <2>2, <1>5, <1>1 DEF Undisturbed, StartFails, WarmReturns, Return, Goto, Launching, TypeOK
  <2>4. \A i \in Instances : proc'[i] # "unstarted"
    BY <1>5, <1>u DEF TypeOK, ServerTypeOK
  <2> QED BY <2>1, <2>3, <2>4 DEF IInv, Launch, Launching
<1> QED BY <1>2, <1>4, <1>5 DEF TermLoad

(* and starts the process. *)
LEMMA CmdStartInv ==
  ASSUME TypeOK, IInv, NEW g \in Threads, CmdStart(g) PROVE IInv'
<1>1. /\ at[g] = "exec" /\ proc[cur] = "unstarted" /\ cur \in Instances
      /\ UNCHANGED <<out, printer, status, isActive, cur>>
  BY DEF CmdStart, IInv, Launch, TypeOK, Instances, term
<1>2. \A h \in Threads : h # g => at[h] \notin Launching
  BY <1>1 DEF IInv, Launch, Launching
<1>3. waiter[cur] = "none" /\ status = "offline"
  BY <1>1 DEF IInv, Watched, Published
<1>4. /\ at'[g] \notin Launching
      /\ \A h \in Threads : h # g => at'[h] = at[h] /\ op'[h] = op[h]
  BY <1>1 DEF CmdStart, StartFails, WarmReturns, Return, Goto, Launching, TypeOK
<1>5. \/ proc'[cur] = "alive" /\ waiter'[cur] = "init"
      \/ proc'[cur] = "failed" /\ waiter'[cur] = "none"
  BY <1>1, <1>3 DEF CmdStart, TypeOK, ServerTypeOK
<1>6. \A i \in Instances : i # cur => proc'[i] = proc[i] /\ waiter'[i] = waiter[i]
  BY <1>1 DEF CmdStart, TypeOK, ServerTypeOK
<1>7. Order'
  BY <1>1, <1>5, <1>6 DEF IInv, Order, TypeOK, Instances
<1>8. Watched'
  BY <1>1, <1>3, <1>5, <1>6 DEF IInv, Watched
<1>9. Published'
  BY <1>1, <1>3, <1>5, <1>6 DEF IInv, Published
<1>10. Launch'
  <2>1. \A h \in Threads : at'[h] \notin Launching
    BY <1>2, <1>4
  <2>2. \A i \in Instances : proc'[i] # "unstarted"
    BY <1>1, <1>5, <1>6 DEF IInv, Order, TypeOK, Instances
  <2> QED BY <2>1, <2>2 DEF Launch, Launching
<1> QED BY <1>7, <1>8, <1>9, <1>10 DEF IInv
-----------------------------------------------------------------------------
(* The invariant: printerOutErr and waitForExit *)

(* Only the last instance has a waiter at work. *)
LEMMA WaitedIsCur ==
  ASSUME TypeOK, IInv, NEW i \in Instances, waiter[i] \notin Gone PROVE i = cur /\ cur # 0
<1>1. i \in Int /\ cur \in Int /\ i # 0
  BY ThreadsOK DEF TypeOK, Instances
<1>2. ~(i > cur) /\ ~(i < cur)
  BY DEF IInv, Order, Gone
<1> QED BY <1>1, <1>2

(* A line that means something is handled while waitForExit waits for the
   printer. *)
LEMMA ScannedIsWaited ==
  ASSUME TypeOK, IInv, NEW i \in Instances, PrinterScan(i), LineCase(Head(out[i])) # "read"
  PROVE  waiter[i] = "wg"
<1>1. printer[i] = "read" /\ out[i] # <<>> /\ status \in {"starting", "online"}
  BY DEF PrinterScan, Printer, LineCase
<1>2. proc[i] \in {"alive", "dead"} /\ waiter[i] \notin {"none", "cmd", "down", "clear", "inactive", "gone"}
  BY <1>1 DEF IInv, Watched
<1>3. i = cur
  BY <1>2, WaitedIsCur DEF Gone
<1> QED BY <1>1, <1>2, <1>3 DEF IInv, Published, TypeOK, WaiterAts

(* The printers keep the invariant, *)
LEMMA PrinterInv ==
  ASSUME TypeOK, IInv, NEW i \in Instances, PrinterStep(i) PROVE IInv'
<1>1. CASE PrinterStart(i)
  <2>1. /\ UNCHANGED <<proc, out, waiter, status, isActive, cur, op, at>>
        /\ printer[i] = "launch" /\ printer'[i] = "read"
        /\ \A j \in Instances : j # i => printer'[j] = printer[j]
    BY <1>1 DEF PrinterStart, Printer, TypeOK, serverVars, stats, term, pc
  <2> QED BY <2>1 DEF IInv, Order, Watched, Published, Launch
<1>2. CASE PrinterScan(i)
  <2>1. /\ UNCHANGED <<proc, waiter, status, isActive, cur, op, at>>
        /\ printer[i] = "read" /\ printer'[i] = LineCase(Head(out[i]))
        /\ \A j \in Instances : j # i => printer'[j] = printer[j] /\ out'[j] = out[j]
        /\ out[i] # <<>>
    BY <1>2 DEF PrinterScan, Printer, TypeOK, ServerTypeOK, stats, term, pc
  <2>2. printer'[i] = "read" \/ waiter[i] = "wg"
    BY <1>2, <2>1, ScannedIsWaited
  <2>3. /\ printer'[i] \in {"online", "disarm", "stopping", "major", "read"}
        /\ printer'[i] = "online" => status = "starting"
        /\ printer'[i] = "stopping" => status = "online"
    BY <2>1 DEF LineCase
  <2>4. Order' /\ Launch'
    BY <2>1, <2>3 DEF IInv, Order, Launch
  <2>5. Watched'
    BY <2>1, <2>2, <2>3 DEF IInv, Watched
  <2>6. Published'
    BY <2>1, <2>3 DEF IInv, Published
  <2> QED BY <2>4, <2>5, <2>6 DEF IInv
<1>3. CASE PrinterEOF(i)
  <2>1. /\ UNCHANGED <<proc, out, waiter, status, isActive, cur, op, at>>
        /\ printer[i] = "read" /\ printer'[i] = "gone" /\ out[i] = <<>>
        /\ proc[i] \in {"dead", "failed"}
        /\ \A j \in Instances : j # i => printer'[j] = printer[j]
    BY <1>3 DEF PrinterEOF, Printer, TypeOK, serverVars, stats, term, pc
  <2> QED BY <2>1 DEF IInv, Order, Watched, Published, Launch
<1>4. CASE PrinterStatus(i)
  <2>1. /\ UNCHANGED <<proc, out, waiter, isActive, cur, op, at>>
        /\ printer[i] \in {"online", "stopping", "major"} /\ printer'[i] \in {"disarm", "read"}
        /\ \A j \in Instances : j # i => printer'[j] = printer[j]
        /\ printer'[i] = "disarm" => printer[i] = "online"
    BY <1>4 DEF PrinterStatus, Printer, TypeOK, serverVars, term, pc
  <2>2. waiter[i] = "wg" /\ i = cur /\ cur # 0
    BY <2>1, WaitedIsCur DEF IInv, Watched, Gone
  <2>3. status # "offline" /\ status' # "offline"
    BY <1>4, <2>2 DEF PrinterStatus, IInv, Published
  <2>4. \A j \in Instances : j # i => printer[j] \notin {"online", "stopping"}
    BY <2>2, WaitedIsCur DEF IInv, Watched, Gone
  <2>5. Order'
    BY <2>1 DEF IInv, Order
  <2>6. Watched'
    BY <2>1 DEF IInv, Watched
  <2>7. Published'
    BY <2>1, <2>2, <2>3, <2>4 DEF IInv, Published
  <2>8. Launch'
    BY <2>1, <2>3 DEF IInv, Launch, Launching
  <2> QED BY <2>5, <2>6, <2>7, <2>8 DEF IInv
<1>5. CASE PrinterSchedule(i)
  <2>1. /\ UNCHANGED <<proc, out, waiter, status, isActive, cur, op, at>>
        /\ printer[i] \in {"disarm", "arm"} /\ printer'[i] \in {"arm", "read"}
        /\ \A j \in Instances : j # i => printer'[j] = printer[j]
    BY <1>5 DEF PrinterSchedule, Printer, TypeOK, serverVars, stats, term, pc
  <2> QED BY <2>1 DEF IInv, Order, Watched, Published, Launch
<1> QED BY <1>1, <1>2, <1>3, <1>4, <1>5 DEF PrinterStep

(* and so do the waiters. *)
LEMMA WaiterInv ==
  ASSUME TypeOK, IInv, ~Unwaited, NEW i \in Instances, WaiterStep(i) PROVE IInv'
<1>1. /\ UNCHANGED <<proc, out, printer, cur, op, at>>
      /\ waiter[i] \in {"init", "starting", "wg", "cmd", "down", "clear", "inactive"}
      /\ waiter'[i] \in {"starting", "wg", "cmd", "down", "clear", "inactive", "gone"}
      /\ \A j \in Instances : j # i => waiter'[j] = waiter[j]
  BY DEF WaiterStep, WaiterActive, WaiterStarting, WaiterWg, WaiterReap, WaiterOffline, WaiterClear, WaiterEnd,
         Waiter, TypeOK, serverVars, stats, term, pc
<1>2. i = cur /\ cur # 0 /\ proc[i] \notin {"none", "unstarted", "failed"}
  BY <1>1, WaitedIsCur DEF Gone, IInv, Watched
<1>3. \A j \in Instances : printer[j] \in {"online", "stopping"} => waiter[j] = "wg" /\ j = cur
  BY WaitedIsCur DEF IInv, Watched, Gone
<1>4. \A g \in Threads : at[g] # "exec"
  BY <1>2 DEF IInv, Launch
<1>5. Order'
  BY <1>1, <1>2 DEF IInv, Order, TypeOK, Instances
<1>a. CASE WaiterActive(i)
  <2>1. waiter[i] = "init" /\ waiter'[i] = "starting" /\ UNCHANGED status /\ isActive'
    BY <1>a DEF WaiterActive, Waiter, TypeOK, stats
  <2>2. \A g \in Threads : at[g] \notin Launching
    BY <1>2, <1>4, <2>1 DEF IInv, Launch, Launching, Gone
  <2>3. Watched'
    BY <1>1, <2>1 DEF IInv, Watched
  <2>4. Published'
    BY <1>1, <1>2, <2>1 DEF IInv, Published
  <2>5. Launch'
    BY <1>1, <2>2 DEF IInv, Launch, Launching
  <2> QED BY <1>5, <2>3, <2>4, <2>5 DEF IInv
<1>6. CASE WaiterStarting(i)
  <2>1. /\ waiter[i] = "starting" /\ waiter'[i] = "wg" /\ status' = "starting"
        /\ UNCHANGED isActive
    BY <1>6 DEF WaiterStarting, Waiter, TypeOK, term
  <2>2. \A g \in Threads : at[g] \notin Launching
    BY <1>2, <1>4, <2>1 DEF IInv, Launch, Launching, Gone
  <2>3. Watched'
    BY <1>1, <2>1 DEF IInv, Watched
  <2>4. Published'
    BY <1>1, <1>2, <1>3, <2>1 DEF IInv, Published
  <2>5. Launch'
    BY <1>1, <2>2 DEF IInv, Launch, Launching
  <2> QED BY <1>5, <2>3, <2>4, <2>5 DEF IInv
<1>7. CASE WaiterWg(i)
  <2>1. waiter[i] = "wg" /\ waiter'[i] = "cmd" /\ UNCHANGED <<status, isActive>>
        /\ ~Added(i) /\ printer[i] # "launch"
    BY <1>7 DEF WaiterWg, Waiter, Unwaited, TypeOK, stats, term
  <2>2. printer[i] = "gone" /\ proc[i] = "dead"
    <3>1. printer[i] \notin {"none", "launch"}
      BY <1>2, <2>1 DEF IInv, Watched
    <3> QED BY <1>2, <2>1, <3>1 DEF Added, IInv, Watched
  <2>3. Watched'
    BY <1>1, <2>1, <2>2 DEF IInv, Watched
  <2>4. Published'
    BY <1>1, <1>2, <2>1 DEF IInv, Published
  <2>5. Launch'
    BY <1>1, <1>2, <1>4, <2>1 DEF IInv, Launch, Published, Gone
  <2> QED BY <1>5, <2>3, <2>4, <2>5 DEF IInv
<1>8. CASE WaiterReap(i)
  <2>1. waiter[i] = "cmd" /\ waiter'[i] = "down" /\ UNCHANGED <<status, isActive>>
    BY <1>8 DEF WaiterReap, Waiter, TypeOK, stats, term
  <2>3. Watched'
    BY <1>1, <2>1 DEF IInv, Watched
  <2>4. Published'
    BY <1>1, <1>2, <2>1 DEF IInv, Published
  <2>5. Launch'
    BY <1>1, <1>2, <1>4, <2>1 DEF IInv, Launch, Published, Gone
  <2> QED BY <1>5, <2>3, <2>4, <2>5 DEF IInv
<1>9. CASE WaiterOffline(i)
  <2>1. waiter[i] = "down" /\ waiter'[i] = "clear" /\ status' = "offline" /\ UNCHANGED isActive
    BY <1>9 DEF WaiterOffline, Waiter, TypeOK, term
  <2>3. Watched'
    BY <1>1, <2>1 DEF IInv, Watched
  <2>4. Published'
    BY <1>1, <1>2, <1>3, <2>1 DEF IInv, Published
  <2>5. Launch'
    BY <1>1, <1>2, <1>4, <2>1 DEF IInv, Launch, Gone
  <2> QED BY <1>5, <2>3, <2>4, <2>5 DEF IInv
<1>10. CASE WaiterClear(i)
  <2>1. waiter[i] = "clear" /\ waiter'[i] = "inactive" /\ UNCHANGED <<status, isActive>>
    BY <1>10 DEF WaiterClear, Waiter, TypeOK, term
  <2>3. Watched'
    BY <1>1, <2>1 DEF IInv, Watched
  <2>4. Published'
    BY <1>1, <1>2, <2>1 DEF IInv, Published
  <2>5. Launch'
    BY <1>1, <1>2, <1>4, <2>1 DEF IInv, Launch, Gone
  <2> QED BY <1>5, <2>3, <2>4, <2>5 DEF IInv
<1>11. CASE WaiterEnd(i)
  <2>1. waiter[i] = "inactive" /\ waiter'[i] = "gone" /\ UNCHANGED status
    BY <1>11 DEF WaiterEnd, Waiter, TypeOK, stats
  <2>3. Watched'
    BY <1>1, <2>1 DEF IInv, Watched
  <2>4. Published'
    BY <1>1, <1>2, <2>1 DEF IInv, Published
  <2>5. Launch'
    BY <1>1, <1>2, <1>4, <2>1 DEF IInv, Launch, Gone
  <2> QED BY <1>5, <2>3, <2>4, <2>5 DEF IInv
<1> QED BY <1>a, <1>6, <1>7, <1>8, <1>9, <1>10, <1>11 DEF WaiterStep
-----------------------------------------------------------------------------
(* The theorems *)

(* The invariant holds initially, *)
LEMMA IInvInit == Init => IInv
  BY ThreadsOK
  DEF Init, ServerInit, IInv, Order, Watched, Published, Launch, Launching, Instances

(* and every step keeps it, unless it loses one of two races. *)
LEMMA IInvStep == TypeOK /\ Placed /\ IInv /\ ~Twice /\ ~Unwaited /\ [Next]_vars => IInv'
<1> SUFFICES ASSUME TypeOK, Placed, IInv, ~Twice, ~Unwaited, [Next]_vars PROVE IInv'
  OBVIOUS
<1>1. CASE Server(ServerNext)
  BY <1>1, ServerInv
<1>2. ASSUME NEW g \in Threads, ThreadStep(g) PROVE IInv'
  BY <1>2, WarmInv, TermStartInv, TermLoadInv, CmdStartInv, CalmThread DEF ThreadStep
<1>3. ASSUME NEW i \in Instances, PrinterStep(i) \/ WaiterStep(i) PROVE IInv'
  BY <1>3, PrinterInv, WaiterInv
<1>4. ASSUME NEW k \in Killers, KillSend(k) PROVE IInv'
  BY <1>4, KillInv
<1>5. CASE UNCHANGED vars
  <2>1. UNCHANGED Core /\ Undisturbed
    BY <1>5 DEF vars, Core, Undisturbed, serverVars, stats, term, watch, pc
  <2> QED BY <2>1, Frame
<1> QED BY <1>1, <1>2, <1>3, <1>4, <1>5, CalmCaller DEF Next, Steps, KillerStep

(* The two races of a start are never made up for. *)
LEMMA OrderedStep == ASSUME TypeOK, [Next]_vars, Ordered' PROVE Ordered /\ ~Twice /\ ~Unwaited
<1>1. CASE Next
  <2>1. flaws' = (flaws \ MadeUp) \cup {f \in Flaws : Lost(f)} /\ MadeUp \cap {"twice", "unwaited"} = {}
    BY <1>1 DEF Next, History, MadeUp
  <2>2. {"twice", "unwaited"} \cap flaws' = {} /\ {"twice", "unwaited"} \subseteq Flaws
    BY DEF Ordered, Without, Flaws
  <2>3. ~Lost("twice") /\ ~Lost("unwaited")
    BY <2>1, <2>2
  <2>4. Ordered
    BY <2>1, <2>2 DEF Ordered, Without
  <2> QED BY <2>3, <2>4 DEF Lost
<1>2. CASE UNCHANGED vars
  <2>1. UNCHANGED <<at, waiter, flaws>>
    BY <1>2 DEF vars, pc, watch
  <2> QED BY <2>1 DEF Twice, Unwaited, Ordered, Without
<1> QED BY <1>1, <1>2

(* As long as every start found IsActive set by the one before and was waited
   for, the instances, their watchers, the status and the goroutines that start
   a server agree. *)
THEOREM InvCorrect == Spec => [](Ordered => IInv)
<1>1. Init => (Ordered => IInv)
  BY IInvInit
<1>2. TypeOK /\ Placed /\ (Ordered => IInv) /\ [Next]_vars => (Ordered => IInv)'
  BY IInvStep, OrderedStep
<1> QED BY <1>1, <1>2, TypeCorrect, PlacedCorrect, PTL DEF Spec

(* msh never has two minecraft servers alive unless two starters pass the check
   of IsActive, or Wg.Wait returns before Wg.Add. *)
THEOREM OneServer == Spec => [](Ordered => SingleServer)
<1>1. TypeOK /\ (Ordered => IInv) => (Ordered => SingleServer)
  BY AliveIsCur DEF SingleServer
<1> QED BY <1>1, TypeCorrect, InvCorrect, PTL
-----------------------------------------------------------------------------
(* The refinement: every step is a step of Lifecycle or changes nothing of it *)

Living == {i \in Instances : Alive(i)}
Abstract == Lifecycle!Next \/ UNCHANGED <<status, Living>>

(* A step that changes neither processes nor the status is a stutter. *)
LEMMA SameLife == ASSUME UNCHANGED <<proc, status>> PROVE Abstract
  BY DEF Abstract, Living, Alive

(* The statements that touch neither the process nor the status. *)
LEMMA Silent ==
  /\ \A g \in Threads :
       ThreadStep(g) /\ ~TermLoad(g) /\ ~CmdStart(g) => UNCHANGED <<proc, status>>
  /\ \A i \in Instances :
       PrinterStep(i) /\ ~PrinterStatus(i) => UNCHANGED <<proc, status>>
  /\ \A i \in Instances :
       WaiterStep(i) /\ ~WaiterStarting(i) /\ ~WaiterOffline(i) => UNCHANGED <<proc, status>>
  /\ \A i \in Instances : RefresherTick(i) => UNCHANGED <<proc, status>>
  /\ \A t \in Timers : Fire(t) => UNCHANGED <<proc, status>>
  /\ \A k \in Killers : KillPoll(k) => UNCHANGED <<proc, status>>
  /\ \A o \in Operators : Operate(o) => UNCHANGED <<proc, status>>
  /\ \A c \in Clients : Join(c) \/ ClientStep(c) \/ HangUp(c) => UNCHANGED <<proc, status>>
<1>1. \A g \in Threads :
        WarmMS(g) \/ TermStart(g) \/ FreezeMS(g) \/ CountPlayerSafe(g) \/ Await(g)
        \/ OfflineCase(g) \/ ExecuteStop(g) \/ Disarm(g) \/ Arm(g) => UNCHANGED <<proc, status>>
  BY DEF WarmMS, TermStart, FreezeMS, CountPlayerSafe, Await, OfflineCase, ExecuteStop,
         Disarm, Arm, serverVars, stats
<1>2. \A g \in Threads :
        Resume(g) \/ ResumeFlag(g) \/ Suspend(g) \/ SuspendFlag(g) => UNCHANGED <<proc, status>>
  BY DEF Resume, ResumeFlag, Suspend, SuspendFlag, Panics, serverVars, stats
<1>3. \A i \in Instances : PrinterStep(i) /\ ~PrinterStatus(i) => UNCHANGED <<proc, status>>
  BY DEF PrinterStep, PrinterStart, PrinterScan, PrinterEOF, PrinterSchedule, serverVars, stats
<1>4. \A i \in Instances :
        WaiterStep(i) /\ ~WaiterStarting(i) /\ ~WaiterOffline(i) => UNCHANGED <<proc, status>>
  BY DEF WaiterStep, WaiterActive, WaiterWg, WaiterReap, WaiterClear, WaiterEnd, serverVars, stats
<1>5. /\ \A i \in Instances : RefresherTick(i) => UNCHANGED <<proc, status>>
      /\ \A t \in Timers : Fire(t) => UNCHANGED <<proc, status>>
      /\ \A k \in Killers : KillPoll(k) => UNCHANGED <<proc, status>>
      /\ \A o \in Operators : Operate(o) => UNCHANGED <<proc, status>>
      /\ \A c \in Clients : Join(c) \/ ClientStep(c) \/ HangUp(c) => UNCHANGED <<proc, status>>
  BY DEF RefresherTick, Fire, KillPoll, Operate, Join, ClientStep, Dial, StoreConnCount,
         HangUp, serverVars, stats
<1> QED BY <1>1, <1>2, <1>3, <1>4, <1>5 DEF ThreadStep

(* The end of the process is the end of the only one that lives. *)
LEMMA DiesAbstract ==
  ASSUME TypeOK, IInv, NEW i \in Instances, Alive(i), Dies(i), UNCHANGED status
  PROVE  Abstract
<1>1. Living = {i}
  BY AliveIsCur DEF Living
<1>2. Living' = {}
  <2>1. \A j \in Instances : ~Alive(j)'
    BY AliveIsCur DEF Dies, Alive, TypeOK, ServerTypeOK
  <2> QED BY <2>1 DEF Living
<1> QED BY <1>1, <1>2 DEF Abstract, Living, Lifecycle!Next, Lifecycle!Die

(* The server only dies, *)
LEMMA ServerAbstract == ASSUME TypeOK, IInv, Server(ServerNext) PROVE Abstract
<1>1. UNCHANGED status
  BY DEF Server, stats
<1>2. UNCHANGED proc \/ \E i \in Instances : Running(i) /\ Dies(i)
  BY DEF Server, ServerNext, Boot, Obey, Exit, Faulty, SelfStop, Crash, Hang, Admit, Drop
<1> QED BY <1>1, <1>2, SameLife, DiesAbstract DEF Running

(* a killer only kills it, *)
LEMMA KillAbstract == ASSUME TypeOK, IInv, NEW k \in Killers, KillSend(k) PROVE Abstract
<1>1. UNCHANGED status
  BY DEF KillSend, Panics, stats
<1>2. CASE Alive(cur) /\ Dies(cur) /\ cur \in Instances
  BY <1>1, <1>2, DiesAbstract
<1>3. CASE UNCHANGED proc
  BY <1>1, <1>3, SameLife
<1>4. HasProcess => cur \in Instances
  BY DEF HasProcess, TypeOK, Instances
<1> QED BY <1>2, <1>3, <1>4 DEF KillSend, Panics, serverVars

(* cmd.Start launches it when the status is OFFLINE, *)
LEMMA StartAbstract ==
  ASSUME TypeOK, IInv, NEW g \in Threads, TermLoad(g) \/ CmdStart(g) PROVE Abstract
<1>0. UNCHANGED status
  BY DEF TermLoad, CmdStart
<1>1. CASE TermLoad(g)
  <2>1. \A i \in Instances : Alive(i)' <=> Alive(i)
    BY <1>1, ThreadsOK DEF TermLoad, Alive, IInv, Order, TypeOK, ServerTypeOK, Instances
  <2> QED BY <1>0, <2>1 DEF Abstract, Living
<1>2. CASE CmdStart(g)
  <2>1. /\ at[g] = "exec" /\ proc[cur] = "unstarted" /\ cur \in Instances
        /\ status = "offline"
    BY <1>2 DEF CmdStart, IInv, Launch, Watched, Published, TypeOK, Instances
  <2>2. Living = {}
    BY <2>1, AliveIsCur DEF Living, Alive
  <2>3. \A i \in Instances : i # cur => ~Alive(i)'
    BY <1>2, <2>1, <2>2 DEF CmdStart, Living, Alive, TypeOK, ServerTypeOK
  <2>4. CASE proc'[cur] = "alive"
    <3>1. Living' = {cur}
      BY <1>2, <2>1, <2>3, <2>4 DEF Living, Alive, CmdStart, term
    <3> QED BY <1>0, <2>1, <2>2, <3>1 DEF Abstract, Living, Lifecycle!Next, Lifecycle!Launch
  <2>5. CASE proc'[cur] # "alive"
    <3>1. Living' = {}
      BY <2>3, <2>5 DEF Living, Alive
    <3> QED BY <1>0, <2>2, <3>1 DEF Abstract
  <2> QED BY <2>4, <2>5
<1> QED BY <1>1, <1>2

(* and printers and waiters publish the status in its order. *)
LEMMA PublishAbstract ==
  ASSUME TypeOK, IInv, NEW i \in Instances, PrinterStatus(i) \/ WaiterStarting(i) \/ WaiterOffline(i)
  PROVE  Abstract
<1>0. UNCHANGED Living
  BY DEF PrinterStatus, WaiterStarting, WaiterOffline, serverVars, Living, Alive
<1>1. CASE PrinterStatus(i)
  <2>1. \/ status = "starting" /\ status' = "online"
        \/ status = "online" /\ status' = "stopping"
        \/ UNCHANGED status
    BY <1>1 DEF PrinterStatus, Printer, IInv, Published
  <2> QED BY <1>0, <2>1 DEF Abstract, Living, Lifecycle!Next, Lifecycle!Publish
<1>2. CASE WaiterStarting(i)
  <2>1. status = "offline" /\ status' = "starting"
    BY <1>2, WaitedIsCur DEF WaiterStarting, Waiter, IInv, Published, Gone
  <2> QED BY <1>0, <2>1 DEF Abstract, Living, Lifecycle!Next, Lifecycle!Publish
<1>3. CASE WaiterOffline(i)
  <2>1. i = cur /\ waiter[cur] = "down" /\ cur # 0
    BY <1>3, WaitedIsCur DEF WaiterOffline, Waiter, Gone
  <2>2. status # "offline" /\ status' = "offline"
    BY <1>3, <2>1 DEF WaiterOffline, IInv, Published
  <2>3. Living = {}
    BY <2>1, AliveIsCur DEF Living, Alive, IInv, Watched
  <2> QED BY <1>0, <2>2, <2>3 DEF Abstract, Living, Lifecycle!Next, Lifecycle!Offline
<1> QED BY <1>1, <1>2, <1>3

(* Every step is a step of Lifecycle or a stutter. *)
LEMMA StepAbstract == TypeOK /\ IInv /\ [Next]_vars => Abstract
<1> SUFFICES ASSUME TypeOK, IInv, [Next]_vars PROVE Abstract
  OBVIOUS
<1>1. CASE Server(ServerNext)
  BY <1>1, ServerAbstract
<1>2. ASSUME NEW g \in Threads, ThreadStep(g) PROVE Abstract
  BY <1>2, Silent, SameLife, StartAbstract
<1>3. ASSUME NEW i \in Instances, PrinterStep(i) \/ WaiterStep(i) \/ RefresherTick(i)
      PROVE  Abstract
  BY <1>3, Silent, SameLife, PublishAbstract
<1>4. ASSUME NEW k \in Killers, KillerStep(k) PROVE Abstract
  BY <1>4, Silent, SameLife, KillAbstract DEF KillerStep
<1>5. CASE UNCHANGED vars
  <2>1. UNCHANGED <<proc, status>>
    BY <1>5 DEF vars, serverVars, stats
  <2> QED BY <2>1, SameLife
<1> QED BY <1>1, <1>2, <1>3, <1>4, <1>5, Silent, SameLife DEF Next, Steps

(* The status msh publishes follows the life of one process in order, and
   OFFLINE is published only of a process that has ended: the detailed
   specification implements Lifecycle up to the step that loses a race. *)
THEOREM ImplementsLifecycle == Spec => LifecycleSpec
<1>1. Init => Lifecycle!Init
  BY DEF Init, ServerInit, Lifecycle!Init, Alive
<1>2. TypeOK /\ (Ordered => IInv) /\ [Next]_vars =>
        [Ordered' => Lifecycle!Next]_<<status, {i \in Instances : Alive(i)}>>
  BY OrderedStep, StepAbstract DEF Abstract, Living
<1> QED
  BY <1>1, <1>2, TypeCorrect, InvCorrect, PTL DEF Spec, LifecycleSpec
-----------------------------------------------------------------------------
(* Nobody is forgotten: what keeps a freeze coming *)

Scheduling == {"disarm", "arm"}
Signalling == {"resume", "resumed", "denied", "suspend", "suspended", "undone"}
Counting   == {"inc", "relay", "dec"}

(* A goroutine resumes the server and will arm the freeze timer. *)
Waking(g) ==
  /\ at[g] \in {"resume", "resumed"}
  /\ op[g] \in {"warm", "join"} \/ (op[g] = "starting" /\ ~Forced(g))

(* A goroutine is about to write a stop, or resumes the server for it. *)
Stopping(g) ==
  \/ at[g] = "write"
  \/ op[g] = "resumeStop" /\ at[g] \in {"resume", "resumed"}
  \/ op[g] = "starting" /\ Forced(g) /\ at[g] \in {"resume", "resumed", "await"}

(* A freeze timer runs, or a goroutine is about to arm it. *)
Scheduled ==
  \/ pending # {}
  \/ \E g \in Threads : at[g] \in Scheduling \/ Waking(g)
  \/ \E i \in Instances : printer[i] \in Scheduling

(* A goroutine is in FreezeMS(false), at a. *)
Softly(g, a) == g \notin Operators /\ op[g] = "freeze" /\ at[g] = a
Freezing(a)  == \E g \in Threads : Softly(g, a)

(* A goroutine is about to suspend or to stop the server, or to give up. *)
Told ==
  \/ Freezing("switch") \/ Freezing("count")
  \/ \E g \in Threads : at[g] = "suspend" \/ Stopping(g)

HasLost(s) == \E k \in 1..Len(s) : s[k] = "lost"

(* Somebody is there, or it is not known yet that he left. *)
Occupied ==
  \/ connCount > 0 \/ players[cur] # {} \/ HasLost(out[cur])
  \/ \E c \in Clients : at[c] \in Counting

Awake ==
  /\ status = "online" /\ ~majorError
  /\ Running(cur) /\ phase[cur] \in {"boot", "up"} /\ cur \notin stopCmd

FreshInv == cur # 0 /\ waiter[cur] \in {"init", "starting"} => Scheduled \/ Freezing("switch")
BootInv  == status = "starting" /\ waiter[cur] \in {"wg", "cmd"} => Scheduled \/ Freezing("switch")
AwakeInv == Awake => Scheduled \/ Told \/ Occupied

Watch == FreshInv /\ BootInv /\ AwakeInv

(* A lost connection stays in the pipe until it is read. *)
LEMMA LostStays ==
  ASSUME NEW s \in Seq(Lines)
  PROVE  /\ \A x \in Lines : HasLost(s) \/ x = "lost" => HasLost(Append(s, x))
         /\ s # <<>> /\ Head(s) # "lost" /\ HasLost(s) => HasLost(Tail(s))
<1>1. ASSUME NEW x \in Lines, HasLost(s) \/ x = "lost" PROVE HasLost(Append(s, x))
  <2>1. CASE x = "lost"
    <3>1. Len(s) + 1 \in 1..Len(Append(s, x)) /\ Append(s, x)[Len(s) + 1] = x
      OBVIOUS
    <3> QED BY <2>1, <3>1 DEF HasLost
  <2>2. CASE HasLost(s)
    <3>1. PICK k \in 1..Len(s) : s[k] = "lost"
      BY <2>2 DEF HasLost
    <3>2. k \in 1..Len(Append(s, x)) /\ Append(s, x)[k] = s[k]
      OBVIOUS
    <3> QED BY <3>1, <3>2 DEF HasLost
  <2> QED BY <1>1, <2>1, <2>2
<1>2. ASSUME s # <<>>, Head(s) # "lost", HasLost(s) PROVE HasLost(Tail(s))
  <2>1. PICK k \in 1..Len(s) : s[k] = "lost"
    BY <1>2 DEF HasLost
  <2>2. k # 1
    BY <1>2, <2>1
  <2>3. k - 1 \in 1..Len(Tail(s)) /\ Tail(s)[k - 1] = s[k]
    BY <1>2, <2>2
  <2> QED BY <2>1, <2>3 DEF HasLost
<1> QED BY <1>1, <1>2

(* What a goroutine sees of the others and of the server. *)
View == <<pending, printer, waiter, status, majorError, connCount, cur,
          proc, frozen, phase, stopCmd, out, players>>

(* Whoever schedules a freeze settles everything. *)
LEMMA WatchScheduled == ASSUME Scheduled' PROVE Watch'
  BY DEF Watch, FreshInv, BootInv, AwakeInv

(* A step that changes nothing of what Watch reads keeps it. *)
LEMMA WatchRests == ASSUME Watch, UNCHANGED <<View, op, at>> PROVE Watch'
BY DEF View, Watch, FreshInv, BootInv, AwakeInv, Scheduled, Waking, Told, Stopping, Freezing,
   Softly, Forced, Occupied, Awake, Running, Alive

(* A goroutine moves on and nothing else changes. *)
LEMMA WatchMove ==
  ASSUME TypeOK, Watch, NEW g \in Threads, OnlyMoves(g), UNCHANGED View,
         at[g] \notin Scheduling, at[g] \notin Counting,
         Waking(g) => Scheduled',
         status = "starting" /\ Softly(g, "switch") => Scheduled',
         Softly(g, "switch") => ~(cur # 0 /\ waiter[cur] \in {"init", "starting"}),
         Awake /\ (Softly(g, "switch") \/ Softly(g, "count") \/ at[g] = "suspend" \/ Stopping(g)) =>
           Scheduled' \/ Told' \/ Occupied
  PROVE  Watch'
<1>1. UNCHANGED <<pending, printer, waiter, status, majorError, connCount, cur,
                  proc, frozen, phase, stopCmd, out, players>>
  BY DEF View
<1>2. Scheduled => Scheduled'
  BY <1>1 DEF Scheduled, OnlyMoves, Waking
<1>3. \A a : Freezing(a) => Freezing(a)' \/ Softly(g, a)
  BY DEF Freezing, Softly, OnlyMoves
<1>4. Told => Told' \/ Softly(g, "switch") \/ Softly(g, "count") \/ at[g] = "suspend" \/ Stopping(g)
  BY <1>3 DEF Told, OnlyMoves, Stopping, Forced
<1>5. Occupied => Occupied'
  BY <1>1, ThreadsOK DEF Occupied, OnlyMoves
<1>6. (Awake' <=> Awake) /\ (status' = status)
  BY <1>1 DEF Awake, Running, Alive
<1> QED
  BY <1>1, <1>2, <1>3, <1>4, <1>5, <1>6 DEF Watch, FreshInv, BootInv, AwakeInv

(* A live server that is awake takes a command unless it passes for suspended. *)
LEMMA AwakeExecutes ==
  ASSUME TypeOK, IInv, Awake, ~suspended PROVE cur \in Instances /\ Executes
<1>1. cur \in Instances
  BY DEF Awake, IInv, Published, TypeOK, Instances
<1>2. proc[cur] = "alive" /\ cur # 0
  BY <1>1 DEF Awake, Running, Alive, Instances
<1>3. waiter[cur] \in {"starting", "wg", "cmd", "down", "clear", "inactive"}
  BY <1>1, <1>2 DEF Awake, IInv, Published, TypeOK, WaiterAts
<1>4. isActive
  BY <1>2, <1>3 DEF IInv, Published
<1> QED
  BY <1>1, <1>2, <1>4 DEF Executes, CheckMSWarm, Awake, Alive

(* FreezeMS up to its signal or its stop hands the duty on, unless it reads the
   OFFLINE of a server that starts or the number of another answer. *)
LEMMA WatchFreeze ==
  ASSUME Placed, TypeOK, IInv, Watch, ~Early, ~Misread, NEW g \in Threads,
         FreezeMS(g) \/ CountPlayerSafe(g) \/ Await(g)
  PROVE  Watch'
<1>1. UNCHANGED View /\ at[g] \notin Scheduling /\ at[g] \notin Counting /\ at[g] \notin {"write", "suspend"}
      /\ ~Waking(g)
  BY DEF FreezeMS, In, CountPlayerSafe, Await, View, Scheduling, Counting, Waking, serverVars, stats, timer, term, watch
<1>2. OnlyMoves(g)
  BY OnlyGoes DEF FreezeMS, CountPlayerSafe, Await
<1>3. CASE FreezeMS(g)
  <2>1. status = "starting" /\ Softly(g, "switch") => Scheduled'
    <3>1. ASSUME status = "starting", Softly(g, "switch") PROVE Scheduled'
      <4>1. ResumeFirst(g, "starting") /\ AfterResume(g, "starting") = "disarm"
        BY <1>3, <3>1 DEF FreezeMS, Softly, Forced, AfterResume
      <4>2. op'[g] = "starting" /\ at'[g] \in {"resume", "disarm"}
        BY <4>1, OnlyGoes
      <4> QED BY <3>1, <4>2 DEF Scheduled, Scheduling, Waking, Forced, Softly
    <3> QED BY <3>1
  <2>2. Awake /\ Softly(g, "switch") => Told'
    <3>1. ASSUME Awake, Softly(g, "switch") PROVE at'[g] = "count" /\ op'[g] = "freeze"
      BY <1>3, <3>1, OnlyGoes DEF FreezeMS, Softly, Forced, Awake
    <3> QED BY <3>1 DEF Told, Freezing, Softly
  <2>3. Softly(g, "switch") => ~(cur # 0 /\ waiter[cur] \in {"init", "starting"})
    <3>1. SUFFICES ASSUME Softly(g, "switch"), cur # 0, waiter[cur] \in {"init", "starting"} PROVE FALSE
      OBVIOUS
    <3>2. status = "offline"
      BY <3>1 DEF IInv, Published
    <3>3. g \in Threads \ Operators /\ In(g, {"freeze"}, "switch") /\ at'[g] = "offline"
      BY <1>3, <3>1, <3>2, OnlyGoes DEF FreezeMS, Softly, In
    <3> QED BY <3>1, <3>2, <3>3 DEF Early
  <2>4. ~Softly(g, "count") /\ ~Stopping(g)
    BY <1>3 DEF FreezeMS, In, Softly, Stopping
  <2> QED BY <1>1, <1>2, <2>1, <2>2, <2>3, <2>4, WatchMove
<1>4. CASE CountPlayerSafe(g)
  <2>1. at[g] = "count" /\ ~Stopping(g)
    BY <1>4 DEF CountPlayerSafe, Stopping
  <2>2. ASSUME Awake PROVE Told' \/ Occupied
    <3>1. PICK n \in PlayerCounts : IF n > 0 THEN Return(g)
                                      ELSE IF SuspendAllow THEN Goto(g, "freeze", "suspend")
                                      ELSE ResumeFirst(g, "resumeStop")
      BY <1>4 DEF CountPlayerSafe
    <3>2. CASE n > 0
      <4>1. connCount > 0 \/ cur = 0 \/ players[cur] # {}
        <5>1. at'[g] = "idle"
          BY <3>1, <3>2, OnlyGoes
        <5> QED BY <2>1, <5>1 DEF Misread, TypeOK
      <4>2. cur # 0
        BY <2>2 DEF Awake, IInv, Published
      <4> QED BY <4>1, <4>2 DEF Occupied
    <3>3. CASE ~(n > 0)
      <4>1. CASE SuspendAllow
        BY <3>1, <3>3, <4>1, OnlyGoes DEF Told
      <4>2. CASE ~SuspendAllow
        <5>1. at'[g] = "write"
          BY <3>1, <3>3, <4>2, OnlyGoes DEF AfterResume
        <5> QED BY <5>1 DEF Told, Stopping
      <4> QED BY <4>1, <4>2
    <3> QED BY <3>2, <3>3
  <2> QED BY <1>1, <1>2, <2>1, <2>2, WatchMove DEF Softly
<1>5. CASE Await(g)
  <2>1. ASSUME Awake, Stopping(g) PROVE Told'
    <3>1. op[g] = "starting" /\ ResumeFirst(g, "resumeStop")
      BY <1>5, <2>1 DEF Await, Awake, Stopping
    <3>2. op'[g] = "resumeStop" /\ at'[g] \in {"resume", "write"}
      BY <3>1, OnlyGoes DEF AfterResume
    <3> QED BY <3>2 DEF Told, Stopping
  <2> QED BY <1>1, <1>2, <1>5, <2>1, WatchMove DEF Await, Softly
<1> QED BY <1>3, <1>4, <1>5

(* A stop is written to whoever is awake, unless it is refused. *)
LEMMA WatchStop ==
  ASSUME Placed, TypeOK, IInv, Watch, ~Refused, NEW g \in Threads, ExecuteStop(g) PROVE Watch'
<1>1. at[g] = "write" /\ UNCHANGED <<pending, printer, waiter, status, majorError, connCount, cur,
                                     proc, frozen, phase, out, players>>
  BY DEF ExecuteStop, stats, timer, term, watch
<1>2. CASE Executes
  <2>1. status = "online" /\ cur \in stopCmd'
    BY <1>2 DEF Executes, CheckMSWarm, ExecuteStop
  <2>2. status = "online" => ~(cur # 0 /\ waiter[cur] \in {"init", "starting"})
    BY DEF IInv, Published
  <2> QED BY <1>1, <2>1, <2>2 DEF Watch, FreshInv, BootInv, AwakeInv, Awake
<1>3. CASE ~Executes
  <2>1. Return(g) /\ UNCHANGED stopCmd
    BY <1>3 DEF ExecuteStop
  <2>2. ~suspended
    BY <1>1, <1>3, <2>1, OnlyGoes DEF Refused
  <2>3. UNCHANGED View
    BY <1>1, <2>1 DEF View
  <2> QED BY <1>1, <1>3, <2>1, <2>2, <2>3, OnlyGoes, AwakeExecutes, WatchMove
    DEF Scheduling, Counting, Softly, Waking
<1> QED BY <1>2, <1>3

(* So does a start: STARTING comes with a timer to be armed. *)
LEMMA WatchStart ==
  ASSUME TypeOK, IInv, Watch, NEW g \in Threads,
         WarmMS(g) \/ TermStart(g) \/ TermLoad(g) \/ CmdStart(g) \/ OfflineCase(g)
  PROVE  Watch'
<1>1. CASE WarmMS(g)
  <2>1. op[g] \in {"warm", "join"} /\ at[g] = "switch" /\ UNCHANGED View
    BY <1>1 DEF WarmMS, In, View, serverVars, timer, term, watch
  <2>2. OnlyMoves(g)
    BY <1>1, OnlyGoes DEF WarmMS
  <2> QED BY <2>1, <2>2, WatchMove DEF Scheduling, Counting, Softly, Waking, Stopping
<1>2. CASE TermStart(g)
  <2>1. at[g] = "active" /\ UNCHANGED View
    BY <1>2 DEF TermStart, View, serverVars, stats, timer, term, watch
  <2>2. OnlyMoves(g)
    BY <1>2, OnlyGoes DEF TermStart
  <2> QED BY <2>1, <2>2, WatchMove DEF Scheduling, Counting, Softly, Waking, Stopping
<1>3. CASE OfflineCase(g)
  <2>1. at[g] = "offline" /\ UNCHANGED View
    BY <1>3 DEF OfflineCase, View, serverVars, timer, term, watch
  <2>2. OnlyMoves(g)
    BY <1>3, OnlyGoes DEF OfflineCase
  <2> QED BY <2>1, <2>2, WatchMove DEF Scheduling, Counting, Softly, Waking, Stopping
<1>4. CASE TermLoad(g)
  <2>1. status' = status /\ waiter' = waiter /\ cur \in Int /\ (cur = 0 \/ waiter[cur] \in Gone)
    BY <1>4 DEF TermLoad, IInv, Launch, TypeOK
  <2>2. status = "offline"
    BY <2>1 DEF IInv, Published, Gone
  <2>3. cur' = cur \/ (cur' = cur + 1 /\ waiter[cur'] = "none")
    <3>1. CASE cur' = cur + 1
      <4>1. cur + 1 \in Instances
        BY <1>4, ThreadsOK DEF TermLoad, TypeOK, Instances
      <4> QED BY <2>1, <3>1, <4>1 DEF IInv, Order
    <3> QED BY <1>4, <3>1 DEF TermLoad
  <2> QED BY <2>1, <2>2, <2>3 DEF Watch, FreshInv, BootInv, AwakeInv, Awake, Gone
<1>5. CASE CmdStart(g)
  <2>1. status' = status /\ cur' = cur /\ cur # 0 /\ cur \in Instances /\ proc[cur] = "unstarted"
    BY <1>5 DEF CmdStart, IInv, Launch, TypeOK, term, Instances
  <2>2. waiter[cur] = "none" /\ status = "offline"
    BY <2>1 DEF IInv, Watched, Published
  <2>3. CASE Goto(g, op[g], "disarm")
    BY <2>3, OnlyGoes, WatchScheduled DEF Scheduled, Scheduling
  <2>4. CASE waiter' = waiter
    BY <2>1, <2>2, <2>4 DEF Watch, FreshInv, BootInv, AwakeInv, Awake
  <2> QED BY <1>5, <2>3, <2>4 DEF CmdStart
<1> QED BY <1>1, <1>2, <1>3, <1>4, <1>5

(* A timer that is replaced or fires hands the duty on. *)
LEMMA WatchTimer ==
  /\ \A g \in Threads : TypeOK /\ (Disarm(g) \/ Arm(g)) => Watch'
  /\ \A t \in Timers : TypeOK /\ Watch /\ Fire(t) => Watch'
<1>1. ASSUME NEW g \in Threads, TypeOK, Disarm(g) PROVE Watch'
  <2>1. at'[g] = "arm"
    BY <1>1, OnlyGoes DEF Disarm
  <2> QED BY <2>1, WatchScheduled DEF Scheduled, Scheduling
<1>2. ASSUME NEW g \in Threads, Arm(g) PROVE Watch'
  <2>1. pending' # {}
    BY <1>2 DEF Arm, AfterFunc
  <2> QED BY <2>1, WatchScheduled DEF Scheduled
<1>3. ASSUME NEW t \in Timers, TypeOK, Watch, Fire(t) PROVE Watch'
  <2>1. t \in Threads /\ t \notin Operators
    BY ThreadsOK, ServCtrlAssumption
  <2>2. op'[t] = "freeze" /\ at'[t] = "switch"
    BY <1>3, <2>1, OnlyGoes DEF Fire
  <2>3. Freezing("switch")'
    BY <2>1, <2>2 DEF Freezing, Softly
  <2> QED BY <2>3 DEF Watch, FreshInv, BootInv, AwakeInv, Told
<1> QED BY <1>1, <1>2, <1>3

(* Who comes and who polls leaves the others alone. *)
LEMMA WatchCaller ==
  ASSUME TypeOK, Placed, Watch,
         \/ \E k \in Killers : KillPoll(k)
         \/ \E o \in Operators : Operate(o)
         \/ \E c \in Clients : Join(c)
         \/ \E i \in Instances : RefresherTick(i)
  PROVE  Watch'
<1> USE ThreadsOK DEF Scheduling, Counting, Softly, Waking, Stopping, View, serverVars, stats, timer, term, watch
<1>1. ASSUME NEW k \in Killers, KillPoll(k) PROVE Watch'
  <2>1. at[k] = "poll" /\ UNCHANGED View
    BY <1>1 DEF KillPoll
  <2>2. OnlyMoves(k)
    BY <1>1, OnlyGoes DEF KillPoll, OnlyMoves
  <2> QED BY <2>1, <2>2, WatchMove
<1>2. ASSUME NEW o \in Operators, Operate(o) PROVE Watch'
  <2>1. at[o] = "idle" /\ UNCHANGED View
    BY <1>2 DEF Operate, Placed
  <2>2. OnlyMoves(o)
    BY <1>2, OnlyGoes DEF Operate
  <2> QED BY <2>1, <2>2, WatchMove
<1>3. ASSUME NEW c \in Clients, Join(c) PROVE Watch'
  <2>1. at[c] = "idle" /\ UNCHANGED View
    BY <1>3 DEF Join, Placed
  <2>2. OnlyMoves(c)
    BY <1>3, OnlyGoes DEF Join
  <2> QED BY <2>1, <2>2, WatchMove
<1>4. ASSUME NEW i \in Instances, RefresherTick(i) PROVE Watch'
  <2> DEFINE g == <<"refresher", i>>
  <2>0. g \in Threads
    BY <1>4 DEF RefresherTick
  <2>1. at[g] = "idle" /\ UNCHANGED View
    BY <1>4, <2>0 DEF RefresherTick, Placed
  <2>2. OnlyMoves(g)
    BY <1>4, <2>0, OnlyGoes DEF RefresherTick
  <2> QED BY <2>0, <2>1, <2>2, WatchMove
<1> QED BY <1>1, <1>2, <1>3, <1>4

(* A client is counted, or his proxy schedules a freeze. *)
LEMMA WatchClient ==
  ASSUME TypeOK, Watch, NEW c \in Clients, Dial(c) \/ StoreConnCount(c) \/ HangUp(c) PROVE Watch'
<1>1. c \in Threads
  BY ThreadsOK
<1>2. CASE Dial(c)
  <2>1. at[c] = "dial" /\ UNCHANGED View
    BY <1>2 DEF Dial, View, stats, timer, term, watch
  <2>2. OnlyMoves(c)
    BY <1>1, <1>2, OnlyGoes DEF Dial
  <2> QED BY <1>1, <2>1, <2>2, WatchMove DEF Scheduling, Counting, Softly, Waking, Stopping
<1>3. ASSUME at[c] \in {"inc", "relay"}, at'[c] \in {"relay", "dec"}, OnlyMoves(c),
             UNCHANGED <<status, pending, printer, waiter, cur>>
      PROVE  Watch'
  <2>1. Scheduled => Scheduled'
    BY <1>3 DEF Scheduled, Scheduling, Waking, OnlyMoves
  <2>2. Freezing("switch") => Freezing("switch")'
    BY <1>3 DEF Freezing, Softly, OnlyMoves
  <2>3. Occupied'
    BY <1>3 DEF Occupied, Counting
  <2> QED BY <1>3, <2>1, <2>2, <2>3 DEF Watch, FreshInv, BootInv, AwakeInv
<1>4. CASE StoreConnCount(c)
  <2>1. CASE at[c] = "inc" /\ Goto(c, "proxy", "relay")
    <3>1. UNCHANGED <<status, pending, printer, waiter, cur>>
      BY <1>4 DEF StoreConnCount, timer, term, watch
    <3> QED BY <1>1, <1>3, <2>1, <3>1, OnlyGoes
  <2>2. CASE Goto(c, "proxy", "disarm")
    BY <1>1, <2>2, OnlyGoes, WatchScheduled DEF Scheduled, Scheduling
  <2> QED BY <1>4, <2>1, <2>2 DEF StoreConnCount
<1>5. CASE HangUp(c)
  <2>1. at[c] = "relay" /\ Goto(c, "proxy", "dec") /\ UNCHANGED <<status, pending, printer, waiter, cur>>
    BY <1>5 DEF HangUp, stats, timer, term, watch
  <2> QED BY <1>1, <1>3, <2>1, OnlyGoes
<1> QED BY <1>2, <1>4, <1>5

(* What happens in the java process: whoever leaves it is read in its log. *)
LEMMA WatchServer ==
  ASSUME TypeOK, IInv, Watch, Server(ServerNext) PROVE Watch'
<1>1. UNCHANGED <<pending, printer, waiter, status, majorError, connCount, cur, op, at>>
  BY DEF Server, stats, timer, term, watch, pc
<1>2. (Scheduled' <=> Scheduled) /\ (Told' <=> Told) /\ (Freezing("switch")' <=> Freezing("switch"))
  BY <1>1 DEF Scheduled, Waking, Told, Stopping, Forced, Freezing, Softly
<1>3. FreshInv' /\ BootInv'
  BY <1>1, <1>2 DEF Watch, FreshInv, BootInv
<1>4. status # "offline" => cur \in Instances
  BY DEF IInv, Published, TypeOK, Instances
<1>5. Awake' => cur \in Instances /\ cur # 0
  BY <1>1, <1>4, ThreadsOK DEF Awake, Instances
<1>6. ASSUME NEW i \in Instances, Boot(i) \/ Obey(i) \/ SelfStop(i) \/ Hang(i) PROVE AwakeInv'
  <2>1. UNCHANGED <<proc, frozen, stopCmd, players>>
    BY <1>6 DEF Boot, Obey, SelfStop, Hang
  <2>2. Awake' => Awake
    BY <1>1, <1>5, <1>6, <2>1 DEF Awake, Running, Alive, Boot, Obey, SelfStop, Hang, TypeOK, ServerTypeOK
  <2>3. Awake' /\ HasLost(out[cur]) => HasLost(out'[cur])
    <3>1. out[i] \in Seq(Lines)
      BY DEF TypeOK, ServerTypeOK
    <3>2. out' = out \/ \E x \in Lines : out' = [out EXCEPT ![i] = Append(@, x)]
      BY <1>6 DEF Boot, Obey, SelfStop, Hang, Logs, Lines
    <3> QED BY <1>5, <3>1, <3>2, LostStays DEF TypeOK, ServerTypeOK
  <2>4. Awake' /\ Occupied => Occupied'
    BY <1>1, <2>1, <2>3 DEF Occupied
  <2> QED BY <1>2, <2>2, <2>4 DEF Watch, AwakeInv
<1>7. ASSUME NEW i \in Instances, Exit(i) \/ Crash(i) PROVE AwakeInv'
  <2>1. i = cur /\ cur \in Instances /\ proc' = [proc EXCEPT ![i] = "dead"]
    BY <1>7, AliveIsCur DEF Exit, Crash, Running, Dies
  <2> QED BY <1>1, <2>1 DEF AwakeInv, Awake, Running, Alive, TypeOK, ServerTypeOK
<1>8. ASSUME NEW i \in Instances, NEW c \in Clients, Admit(i, c) \/ Drop(i, c) PROVE AwakeInv'
  <2>1. i = cur /\ cur \in Instances
    BY <1>8, AliveIsCur DEF Admit, Drop, Logs, Running
  <2>2. Awake' => Awake
    BY <1>1, <1>8 DEF Awake, Running, Alive, Admit, Drop
  <2>3. CASE Admit(i, c)
    <3>1. c \in players'[cur]
      BY <2>1, <2>3 DEF Admit, TypeOK, ServerTypeOK
    <3> QED BY <1>1, <3>1 DEF AwakeInv, Occupied
  <2>4. CASE Drop(i, c)
    <3>1. out'[cur] = Append(out[cur], "lost") /\ out[cur] \in Seq(Lines) /\ "lost" \in Lines
      BY <2>1, <2>4 DEF Drop, Logs, TypeOK, ServerTypeOK, Lines
    <3>2. HasLost(out'[cur])
      BY <3>1, LostStays
    <3> QED BY <1>1, <3>2 DEF AwakeInv, Occupied
  <2> QED BY <1>8, <2>3, <2>4
<1> QED BY <1>3, <1>6, <1>7, <1>8 DEF Server, ServerNext, Faulty, Watch

(* A kill ends the duty. *)
LEMMA WatchKill ==
  ASSUME TypeOK, IInv, Watch, NEW k \in Killers, KillSend(k) PROVE Watch'
<1>1. k \in Threads /\ at[k] = "send" /\ UNCHANGED <<pending, printer, waiter, status, majorError, connCount, cur>>
  BY ThreadsOK DEF KillSend, Panics, stats, timer, term, watch
<1>2. OnlyMoves(k)
  BY <1>1, OnlyGoes DEF KillSend, Panics, pc, OnlyMoves
<1>3. CASE UNCHANGED serverVars
  <2>1. UNCHANGED View
    BY <1>1, <1>3 DEF View, serverVars
  <2> QED BY <1>1, <1>2, <2>1, WatchMove DEF Scheduling, Counting, Softly, Waking, Stopping
<1>4. CASE HasProcess /\ Dies(cur)
  <2>1. cur \in Instances
    BY <1>4 DEF HasProcess, TypeOK, Instances
  <2>2. ~Awake'
    BY <1>1, <1>4, <2>1 DEF Dies, Awake, Running, Alive, TypeOK, ServerTypeOK
  <2>3. Scheduled => Scheduled'
    BY <1>1, <1>2 DEF Scheduled, Scheduling, Waking, OnlyMoves
  <2>4. Freezing("switch") => Freezing("switch")'
    BY <1>1, <1>2 DEF Freezing, Softly, OnlyMoves
  <2> QED BY <1>1, <2>2, <2>3, <2>4 DEF Watch, FreshInv, BootInv, AwakeInv
<1> QED BY <1>3, <1>4 DEF KillSend, Panics

(* Every line that wakes msh up or tells that somebody left schedules a freeze. *)
LEMMA WatchPrinter ==
  ASSUME TypeOK, IInv, Watch, NEW i \in Instances, PrinterStep(i) PROVE Watch'
<1>1. UNCHANGED <<waiter, connCount, cur, op, at, proc, frozen, phase, stopCmd, players>>
  BY DEF PrinterStep, PrinterStart, PrinterScan, PrinterEOF, PrinterStatus, PrinterSchedule,
         serverVars, stats, timer, term, pc
<1>2. (Told' <=> Told) /\ (Freezing("switch")' <=> Freezing("switch"))
  BY <1>1 DEF Told, Stopping, Forced, Freezing, Softly
<1>3. ASSUME printer'[i] \in Scheduling PROVE Watch'
  BY <1>3, WatchScheduled DEF Scheduled
<1>4. ASSUME UNCHANGED pending, printer[i] \notin Scheduling, NEW p, printer' = [printer EXCEPT ![i] = p]
      PROVE  Scheduled => Scheduled'
  BY <1>1, <1>4 DEF Scheduled, Waking, TypeOK
<1>5. CASE PrinterStart(i) \/ PrinterEOF(i)
  <2>1. UNCHANGED <<status, majorError, pending, out>>
    BY <1>5 DEF PrinterStart, PrinterEOF, serverVars, stats, timer
  <2>2. Scheduled => Scheduled'
    BY <1>4, <1>5, <2>1 DEF PrinterStart, PrinterEOF, Printer, Scheduling
  <2>3. (Awake' <=> Awake) /\ (Occupied' <=> Occupied)
    BY <1>1, <2>1 DEF Awake, Running, Alive, Occupied
  <2> QED BY <1>1, <1>2, <2>1, <2>2, <2>3 DEF Watch, FreshInv, BootInv, AwakeInv
<1>6. CASE PrinterScan(i)
  <2>1. /\ UNCHANGED <<status, majorError, pending>> /\ out[i] # <<>> /\ printer[i] = "read"
        /\ printer' = [printer EXCEPT ![i] = LineCase(Head(out[i]))]
        /\ out' = [out EXCEPT ![i] = Tail(@)]
    BY <1>6 DEF PrinterScan, Printer, stats, timer
  <2>2. Scheduled => Scheduled'
    BY <1>4, <2>1 DEF Scheduling
  <2>4. CASE status = "online" /\ Head(out[i]) = "lost"
    <3>1. printer'[i] = "disarm"
      BY <2>1, <2>4 DEF LineCase, TypeOK
    <3> QED BY <1>3, <3>1 DEF Scheduling
  <2>5. CASE ~(status = "online" /\ Head(out[i]) = "lost")
    <3>1. Awake' <=> Awake
      BY <1>1, <2>1 DEF Awake, Running, Alive
    <3>2. Awake /\ HasLost(out[cur]) => HasLost(out'[cur])
      <4>1. out[i] \in Seq(Lines)
        BY DEF TypeOK, ServerTypeOK
      <4>2. Awake /\ HasLost(out[i]) => HasLost(Tail(out[i]))
        BY <2>1, <2>5, <4>1, LostStays DEF Awake
      <4> QED BY <2>1, <4>2 DEF TypeOK, ServerTypeOK
    <3>3. Awake /\ Occupied => Occupied'
      BY <1>1, <3>2 DEF Occupied
    <3> QED BY <1>1, <1>2, <2>1, <2>2, <3>1, <3>3 DEF Watch, FreshInv, BootInv, AwakeInv
  <2> QED BY <2>4, <2>5
<1>7. CASE PrinterStatus(i)
  <2>1. CASE Printer(i, "online", "disarm")
    BY <1>3, <2>1 DEF Printer, Scheduling, TypeOK
  <2>2. CASE Printer(i, "stopping", "read") /\ status' = "stopping"
    <3>1. Scheduled => Scheduled'
      BY <1>4, <1>7, <2>2 DEF PrinterStatus, Printer, Scheduling, timer
    <3> QED BY <1>1, <1>2, <2>2, <3>1 DEF Watch, FreshInv, BootInv, AwakeInv, Awake
  <2>3. CASE Printer(i, "major", "read") /\ majorError' = TRUE /\ UNCHANGED status
    <3>1. Scheduled => Scheduled'
      BY <1>4, <1>7, <2>3 DEF PrinterStatus, Printer, Scheduling, timer
    <3> QED BY <1>1, <1>2, <2>3, <3>1 DEF Watch, FreshInv, BootInv, AwakeInv, Awake
  <2> QED BY <1>7, <2>1, <2>2, <2>3 DEF PrinterStatus
<1>8. CASE PrinterSchedule(i)
  <2>1. CASE Printer(i, "disarm", "arm")
    BY <1>3, <2>1 DEF Printer, Scheduling, TypeOK
  <2>2. CASE \E t \in FreeTimers : AfterFunc(t)
    <3>1. pending' # {}
      BY <2>2 DEF AfterFunc
    <3> QED BY <3>1, WatchScheduled DEF Scheduled
  <2> QED BY <1>8, <2>1, <2>2 DEF PrinterSchedule
<1> QED BY <1>5, <1>6, <1>7, <1>8 DEF PrinterStep

(* WarmMS has armed the timer before waitForExit publishes STARTING. *)
LEMMA WatchWaiter ==
  ASSUME TypeOK, IInv, Watch, NEW i \in Instances, WaiterStep(i) PROVE Watch'
<1>1. /\ UNCHANGED <<pending, printer, cur, op, at, majorError>> /\ UNCHANGED serverVars
      /\ waiter[i] \in {"init", "starting", "wg", "cmd", "down", "clear", "inactive"}
  BY DEF WaiterStep, WaiterActive, WaiterStarting, WaiterWg, WaiterReap, WaiterOffline, WaiterClear, WaiterEnd,
         Waiter, stats, timer, term, pc
<1>2. i = cur /\ cur # 0
  BY <1>1, WaitedIsCur DEF Gone
<1>3. (Scheduled' <=> Scheduled) /\ (Told' <=> Told) /\ (Freezing("switch")' <=> Freezing("switch"))
  BY <1>1 DEF Scheduled, Waking, Told, Stopping, Forced, Freezing, Softly
<1>4. CASE WaiterActive(i) \/ WaiterStarting(i)
  <2>1. waiter[cur] \in {"init", "starting"}
    BY <1>2, <1>4 DEF WaiterActive, WaiterStarting, Waiter
  <2>2. Scheduled \/ Freezing("switch")
    BY <1>2, <2>1 DEF Watch, FreshInv
  <2>3. status' # "online"
    BY <1>2, <1>4, <2>1 DEF WaiterActive, WaiterStarting, IInv, Published, stats
  <2> QED BY <1>3, <2>2, <2>3 DEF Watch, FreshInv, BootInv, AwakeInv, Awake
<1>5. CASE ~(WaiterActive(i) \/ WaiterStarting(i))
  <2>1. waiter'[cur] \notin {"init", "starting"} /\ (waiter'[cur] \in {"wg", "cmd"} => waiter[cur] \in {"wg", "cmd"})
    BY <1>2, <1>5 DEF WaiterStep, WaiterWg, WaiterReap, WaiterOffline, WaiterClear, WaiterEnd, Waiter, TypeOK
  <2>2. status' = "offline" \/ UNCHANGED <<status, connCount>>
    BY <1>2, <1>5 DEF WaiterStep, WaiterWg, WaiterReap, WaiterOffline, WaiterClear, WaiterEnd, Waiter, stats,
       IInv, Published
  <2>3. UNCHANGED <<status, connCount>> => (Awake' <=> Awake) /\ (Occupied' <=> Occupied)
    BY <1>1 DEF Awake, Running, Alive, Occupied, serverVars
  <2> QED BY <1>1, <1>3, <2>1, <2>2, <2>3 DEF Watch, FreshInv, BootInv, AwakeInv, Awake
<1> QED BY <1>4, <1>5

(* Whoever resumes the server will freeze it again or stop it, unless he comes
   late for another stop; who is suspended does not wait for it. *)
LEMMA WatchSignal ==
  ASSUME Placed, TypeOK, IInv, Watch, ~Stray, NEW g \in Threads,
         Resume(g) \/ ResumeFlag(g) \/ Suspend(g) \/ SuspendFlag(g)
  PROVE  Watch'
<1>1. UNCHANGED <<pending, printer, waiter, status, majorError, connCount, cur,
                  proc, phase, stopCmd, out, players>>
  BY DEF Resume, ResumeFlag, Suspend, SuspendFlag, Panics, serverVars, stats, timer, term, watch
<1>2. at[g] \in Signalling /\ at[g] \notin Scheduling /\ at[g] \notin Counting /\ at[g] # "switch" /\ at[g] # "count"
  BY DEF Resume, ResumeFlag, Suspend, SuspendFlag, Panics, Signalling, Scheduling, Counting
<1>4. CASE HasProcess /\ ~Signalable
  <2>1. /\ cur # 0 /\ ~Alive(cur)'
        /\ waiter'[cur'] \notin {"init", "starting", "wg", "cmd"}
    BY <1>1, <1>4 DEF HasProcess, Signalable, Alive
  <2> QED BY <1>1, <2>1 DEF Watch, FreshInv, BootInv, AwakeInv, Awake, Running, Alive
<1>6. CASE Panics
  <2>1. UNCHANGED <<View, op, at>>
    BY <1>6 DEF Panics, View, serverVars, stats, timer, term, watch, pc
  <2> QED BY <2>1, WatchRests
<1>7. CASE Resume(g) /\ frozen' = frozen \ {cur} /\ Goto(g, op[g], "resumed")
  <2>0. at[g] = "resume" /\ at'[g] = "resumed" /\ op'[g] = op[g] /\ OnlyMoves(g)
    BY <1>7, OnlyGoes DEF Resume
  <2>1. CASE Waking(g)
    <3>1. Waking(g)'
      BY <2>0, <2>1 DEF Waking, Forced
    <3> QED BY <3>1, WatchScheduled DEF Scheduled
  <2>2. Scheduled => Scheduled' \/ Waking(g)
    BY <1>1, <1>2, <2>0 DEF Scheduled, Waking, OnlyMoves
  <2>3. Freezing("switch") => Freezing("switch")'
    BY <1>2, <2>0 DEF Freezing, Softly, OnlyMoves
  <2>4. CASE Stopping(g)
    <3>1. Told'
      BY <2>0, <2>4 DEF Told, Stopping, Forced
    <3> QED BY <1>1, <2>1, <2>2, <2>3, <3>1 DEF Watch, FreshInv, BootInv, AwakeInv
  <2>5. CASE ~Waking(g) /\ ~Stopping(g)
    <3>1. op[g] \in Shutters
      BY <2>0, <2>5 DEF Placed, Waking, Stopping, Shutters
    <3>2. ~(status = "online" /\ cur \in frozen \ stopCmd)
      BY <2>0, <3>1 DEF Stray, In
    <3>3. Awake' => Awake
      BY <1>1, <3>2 DEF Awake, Running, Alive
    <3>4. Told => Told'
      BY <1>2, <2>0, <2>3, <2>5 DEF Told, Stopping, Forced, Freezing, Softly, OnlyMoves
    <3>5. Occupied => Occupied'
      BY <1>1, <1>2, <2>0, ThreadsOK DEF Occupied, OnlyMoves
    <3> QED BY <1>1, <2>2, <2>3, <2>5, <3>3, <3>4, <3>5 DEF Watch, FreshInv, BootInv, AwakeInv
  <2> QED BY <2>1, <2>4, <2>5
<1>8. CASE ResumeFlag(g) \/ SuspendFlag(g)
  <2>1. UNCHANGED View /\ OnlyMoves(g)
    BY <1>1, <1>8, OnlyGoes DEF ResumeFlag, SuspendFlag, View, serverVars
  <2>2. CASE Waking(g)
    <3>1. Goto(g, op[g], AfterResume(g, op[g])) /\ (op[g] = "starting" => ~Forced(g))
      BY <1>8, <2>2 DEF Waking, ResumeFlag, SuspendFlag
    <3>2. at'[g] = "disarm"
      BY <2>2, <3>1, OnlyGoes DEF Waking, AfterResume
    <3> QED BY <3>2, WatchScheduled DEF Scheduled, Scheduling
  <2>3. CASE ~Waking(g)
    <3>1. Stopping(g) => Told'
      <4>1. SUFFICES ASSUME Stopping(g) PROVE Told'
        OBVIOUS
      <4>2. Goto(g, op[g], AfterResume(g, op[g])) /\ at[g] = "resumed"
        BY <1>8, <4>1 DEF Stopping, ResumeFlag, SuspendFlag
      <4>3. op'[g] = op[g] /\ at'[g] = AfterResume(g, op[g])
        BY <4>2, OnlyGoes
      <4>4. CASE op[g] = "resumeStop"
        BY <4>3, <4>4 DEF Told, Stopping, AfterResume
      <4>5. CASE op[g] = "starting" /\ Forced(g)
        BY <4>3, <4>5 DEF Told, Stopping, AfterResume, Forced
      <4> QED BY <4>1, <4>2, <4>4, <4>5 DEF Stopping
    <3>2. at[g] # "suspend"
      BY <1>8 DEF ResumeFlag, SuspendFlag
    <3> QED BY <1>2, <2>1, <2>3, <3>1, <3>2, WatchMove DEF Softly
  <2> QED BY <2>2, <2>3
<1>9. CASE Suspend(g)
  <2>1. CASE Signalable /\ frozen' = (IF Alive(cur) THEN frozen \cup {cur} ELSE frozen) /\ Goto(g, op[g], "suspended")
    <3>1. ~Awake'
      BY <1>1, <2>1 DEF Awake, Running, Alive
    <3>2. at[g] = "suspend" /\ OnlyMoves(g)
      BY <1>9, <2>1, OnlyGoes DEF Suspend
    <3>3. Scheduled => Scheduled'
      BY <1>1, <3>2 DEF Scheduled, Scheduling, Waking, OnlyMoves
    <3>4. Freezing("switch") => Freezing("switch")'
      BY <3>2 DEF Freezing, Softly, OnlyMoves
    <3> QED BY <1>1, <3>1, <3>3, <3>4 DEF Watch, FreshInv, BootInv, AwakeInv
  <2> QED BY <1>4, <1>6, <1>9, <2>1 DEF Suspend
<1>10. CASE Resume(g)
  BY <1>4, <1>6, <1>7, <1>10 DEF Resume
<1> QED
  BY <1>8, <1>9, <1>10

(* The races that take the timer and that a new timer makes up for. *)
Timely == {"early", "refused", "stray", "misread"}

(* Every step that loses no race keeps Watch. *)
LEMMA WatchStep ==
  ASSUME TypeOK, Placed, IInv, Watch, ~Early, ~Refused, ~Stray, ~Misread, [Next]_vars PROVE Watch'
<1>1. ASSUME NEW g \in Threads, ThreadStep(g) PROVE Watch'
  BY <1>1, WatchFreeze, WatchStop, WatchStart, WatchTimer, WatchSignal DEF ThreadStep
<1>2. CASE UNCHANGED vars
  <2>1. UNCHANGED <<View, op, at>>
    BY <1>2 DEF vars, View, serverVars, stats, timer, term, watch, pc
  <2> QED BY <2>1, WatchRests
<1> QED
  BY <1>1, <1>2, WatchTimer, WatchCaller, WatchClient, WatchServer, WatchKill, WatchPrinter, WatchWaiter
  DEF Next, Steps, KillerStep, ClientStep

(* A race that is forgiven was made up for by a new timer. *)
LEMMA Healed ==
  ASSUME TypeOK, [Next]_vars, Without(Timely)'
  PROVE  /\ Without(Timely) \/ Scheduled'
         /\ ~Early /\ ~Refused /\ ~Stray /\ ~Misread
<1>1. CASE Next
  <2>1. flaws' = (flaws \ MadeUp) \cup {f \in Flaws : Lost(f)}
    BY <1>1 DEF Next, History
  <2>2. Timely \cap flaws' = {} /\ Timely \subseteq Flaws
    BY DEF Without, Flaws, Timely
  <2>3. \A f \in Timely : ~Lost(f)
    BY <2>1, <2>2
  <2>4. ~Early /\ ~Refused /\ ~Stray /\ ~Misread
    BY <2>3 DEF Lost, Timely
  <2>5. CASE pending' \subseteq pending
    BY <2>1, <2>2, <2>4, <2>5 DEF MadeUp, Without
  <2>6. CASE ~(pending' \subseteq pending)
    BY <2>4, <2>6 DEF Scheduled
  <2> QED BY <2>5, <2>6
<1>2. CASE UNCHANGED vars
  <2>1. UNCHANGED <<op, at, flaws, pending>>
    BY <1>2 DEF vars, pc, timer
  <2> QED BY <2>1 DEF Early, Refused, Stray, Misread, Without, In
<1> QED BY <1>1, <1>2

(* Watch is an invariant until a race is lost, and again from the next timer. *)
LEMMA WatchCorrect == Spec => [](Ordered /\ Without(Timely) => Watch)
<1>1. Init => Watch
  BY DEF Init, Watch, FreshInv, BootInv, AwakeInv, Awake
<1>2. TypeOK /\ Placed /\ (Ordered => IInv) /\ (Ordered /\ Without(Timely) => Watch) /\ [Next]_vars
        => (Ordered /\ Without(Timely) => Watch)'
  BY OrderedStep, Healed, WatchStep, WatchScheduled
<1> QED BY <1>1, <1>2, TypeCorrect, PlacedCorrect, InvCorrect, PTL DEF Spec

(* When all is quiet, only a wrong player count keeps the freeze away. *)
LEMMA QuietWatch ==
  ASSUME TypeOK, Placed, Ordered => IInv, Ordered /\ Without(Timely) => Watch
  PROVE  connCount > 0 \/ NeverForgotten
<1> SUFFICES ASSUME ~(connCount > 0), Quiet, Ordered, Without(Timely), status \in {"starting", "online"},
                    ~majorError, Running(cur), phase[cur] \in {"boot", "up"}, cur \notin stopCmd,
                    players[cur] = {}
             PROVE  pending # {}
  BY DEF NeverForgotten, Timely
<1>0. IInv /\ Watch
  OBVIOUS
<1>1. \A g \in Threads : op[g] = "idle" /\ at[g] = "idle"
  BY DEF Quiet, Placed
<1>2. \A i \in Instances : printer[i] \notin Scheduling
  BY DEF Quiet, Scheduling
<1>3. Scheduled => pending # {}
  BY <1>1, <1>2 DEF Scheduled, Scheduling, Waking
<1>4. ~Told /\ ~Freezing("switch")
  BY <1>1 DEF Told, Stopping, Freezing, Softly
<1>c. cur \in Instances
  BY <1>0 DEF IInv, Published, TypeOK, Instances
<1>5. ~HasLost(out[cur])
  BY <1>c DEF Quiet, HasLost
<1>6. ~Occupied
  BY <1>1, <1>5, ThreadsOK DEF Occupied, Counting
<1>7. status = "starting" => waiter[cur] \in {"wg", "cmd"}
  BY <1>0, <1>c DEF Quiet, IInv, Published
<1> QED BY <1>0, <1>3, <1>4, <1>6, <1>7 DEF Watch, BootInv, AwakeInv, Awake

(* Whoever joins, operates and leaves in whatever order, suspended between
   freezes or not and in every life, an empty server that is awake and was not
   told to stop has a freeze timer running, unless ConnCount counts somebody who
   is not there or one of the six races was lost. *)
THEOREM NeverForgottenUnlessCounted == Spec => [](connCount > 0 \/ NeverForgotten)
  BY QuietWatch, WatchCorrect, PlacedCorrect, TypeCorrect, InvCorrect, PTL
-----------------------------------------------------------------------------
(* The player count of one client *)

(* One client is counted once, and only while his proxy relays: the resets of
   waitForExit make the count smaller, never greater. *)
CountInv ==
  /\ connCount <= 1
  /\ connCount > 0 => \E c \in Clients : at[c] \in {"relay", "dec"}
  /\ \A c \in Clients : (at[c] = "inc" => num[c] <= 0) /\ (at[c] = "dec" => num[c] <= 1)

OneClient == \A c, d \in Clients : c = d

(* With one client ConnCount never counts more than is there. *)
LEMMA CountStep ==
  ASSUME OneClient, Placed, TypeOK, CountInv, [Next]_vars PROVE CountInv'
<1>0. \A g \in Threads : op[g] = "idle" => at[g] = "idle"
  BY DEF Placed
<1>1. ASSUME UNCHANGED connCount,
             \A c \in Clients : /\ at[c] \in {"relay", "dec"} => at'[c] = at[c]
                                /\ at'[c] \in {"inc", "relay", "dec"} => at'[c] = at[c]
                                /\ at[c] \in {"inc", "dec"} => num'[c] = num[c]
      PROVE  CountInv'
  BY <1>1 DEF CountInv
<1>2. ASSUME NEW g \in Threads, OnlyMoves(g), UNCHANGED <<connCount, num>>,
             at[g] \notin Counting, at'[g] \notin Counting
      PROVE  CountInv'
  BY <1>1, <1>2, ThreadsOK DEF OnlyMoves, Counting
<1>3. ASSUME connCount' = 0, UNCHANGED <<at, num>> PROVE CountInv'
  BY <1>3 DEF CountInv
<1>4. ASSUME NEW g \in Threads, ThreadStep(g) PROVE CountInv'
  <2>2. /\ \A o, a : a \notin Counting /\ Goto(g, o, a) => at'[g] \notin Counting
        /\ \A o : ResumeFirst(g, o) => at'[g] \notin Counting
        /\ \A ok : WarmReturns(g, ok) => at'[g] \notin Counting
        /\ Return(g) => at'[g] \notin Counting
    BY OnlyGoes DEF Counting, AfterResume, WarmReturns, Return, ResumeFirst
  <2>3. ASSUME ~ExecuteStop(g)
        PROVE  OnlyMoves(g) /\ UNCHANGED <<connCount, num>> /\ at[g] \notin Counting /\ at'[g] \notin Counting
    <3>1. CASE WarmMS(g) \/ TermStart(g) \/ TermLoad(g) \/ CmdStart(g)
      <4>1. UNCHANGED <<connCount, num>> /\ at[g] \notin Counting
        BY <3>1 DEF WarmMS, In, TermStart, TermLoad, CmdStart, StartFails, stats, Counting
      <4>2. OnlyMoves(g) /\ at'[g] \notin Counting
        BY <3>1, <2>2, OnlyGoes DEF WarmMS, TermStart, TermLoad, CmdStart, StartFails, Counting
      <4> QED BY <4>1, <4>2
    <3>2. CASE FreezeMS(g) \/ CountPlayerSafe(g) \/ Await(g) \/ OfflineCase(g)
      <4>1. UNCHANGED <<connCount, num>> /\ at[g] \notin Counting
        BY <3>2 DEF FreezeMS, In, CountPlayerSafe, Await, OfflineCase, stats, Counting
      <4>2. OnlyMoves(g) /\ at'[g] \notin Counting
        BY <3>2, <2>2, OnlyGoes DEF FreezeMS, CountPlayerSafe, Await, OfflineCase, Counting
      <4> QED BY <4>1, <4>2
    <3>3. CASE Disarm(g) \/ Arm(g)
      <4>1. UNCHANGED <<connCount, num>> /\ at[g] \notin Counting
        BY <3>3 DEF Disarm, Arm, stats, Counting
      <4>2. OnlyMoves(g) /\ at'[g] \notin Counting
        BY <3>3, <2>2, OnlyGoes DEF Disarm, Arm, Counting
      <4> QED BY <4>1, <4>2
    <3>4. CASE Resume(g) \/ ResumeFlag(g) \/ Suspend(g) \/ SuspendFlag(g)
      <4>1. UNCHANGED <<connCount, num>> /\ at[g] \notin Counting
        BY <3>4 DEF Resume, ResumeFlag, Suspend, SuspendFlag, Panics, stats, pc, Counting
      <4>2. AfterResume(g, op[g]) \notin Counting
        BY DEF AfterResume, Counting
      <4>3. OnlyMoves(g) /\ at'[g] \notin Counting
        BY <3>4, <2>2, <4>1, <4>2, OnlyGoes
        DEF Resume, ResumeFlag, Suspend, SuspendFlag, Panics, pc, OnlyMoves, Counting
      <4> QED BY <4>1, <4>3
    <3> QED BY <1>4, <2>3, <3>1, <3>2, <3>3, <3>4 DEF ThreadStep
  <2>4. CASE ExecuteStop(g)
    <3>1. connCount' = connCount /\ at[g] = "write"
      BY <2>4 DEF ExecuteStop, stats
    <3>2. ASSUME NEW k \in Killers, op[k] = "idle",
                 at' = [at EXCEPT ![g] = "idle", ![k] = IF SuspendAllow THEN "resume" ELSE "poll"],
                 num' = [num EXCEPT ![k] = AllowKill]
          PROVE  CountInv'
      <4>1. k \in Threads /\ at[k] = "idle"
        BY <1>0, <3>2, ThreadsOK
      <4>2. \A c \in Clients : c # k
        BY ServCtrlAssumption
      <4> QED BY <1>1, <3>1, <3>2, <4>1, <4>2, ThreadsOK DEF TypeOK
    <3>3. CASE Return(g) /\ UNCHANGED num
      BY <1>2, <2>2, <3>1, <3>3, OnlyGoes DEF Counting
    <3> QED BY <2>4, <3>2, <3>3 DEF ExecuteStop
  <2> QED BY <1>2, <2>3, <2>4
<1>5. ASSUME NEW g \in Threads, g \notin Clients, OnlyMoves(g), UNCHANGED connCount,
             \A h \in Threads : h # g => num'[h] = num[h]
      PROVE  CountInv'
  BY <1>1, <1>5, ThreadsOK DEF OnlyMoves
<1>6. ASSUME NEW k \in Killers, KillerStep(k) PROVE CountInv'
  <2>1. k \in Threads /\ k \notin Clients
    BY ThreadsOK, ServCtrlAssumption
  <2>2. UNCHANGED connCount /\ \A h \in Threads : h # k => num'[h] = num[h]
    BY <1>6 DEF KillerStep, KillPoll, KillSend, Panics, stats, pc, TypeOK
  <2>3. OnlyMoves(k)
    BY <1>6, <2>1, OnlyGoes DEF KillerStep, KillPoll, KillSend, Panics, pc, OnlyMoves
  <2> QED BY <1>5, <2>1, <2>2, <2>3
<1>7. ASSUME NEW t \in Timers, Fire(t) PROVE CountInv'
  <2>1. t \in Threads /\ at[t] = "idle" /\ UNCHANGED <<connCount, num>>
    BY <1>0, <1>7, ThreadsOK DEF Fire, stats
  <2>2. OnlyMoves(t) /\ at'[t] = "switch"
    BY <1>7, <2>1, OnlyGoes DEF Fire
  <2> QED BY <1>2, <2>1, <2>2 DEF Counting
<1>8. ASSUME NEW g \in Clients \cup Operators, Operate(g) \/ Join(g) PROVE CountInv'
  <2>1. g \in Threads /\ at[g] = "idle" /\ UNCHANGED <<connCount, num>>
    BY <1>0, <1>8, ThreadsOK DEF Operate, Join, stats
  <2>2. OnlyMoves(g) /\ at'[g] = "switch"
    BY <1>8, <2>1, OnlyGoes DEF Operate, Join
  <2> QED BY <1>2, <2>1, <2>2 DEF Counting
<1>9. ASSUME NEW i \in Instances, PrinterStep(i) \/ WaiterStep(i) PROVE CountInv'
  <2>1. UNCHANGED <<at, num>> /\ (connCount' = connCount \/ connCount' = 0)
    BY <1>9 DEF PrinterStep, PrinterStart, PrinterScan, PrinterEOF, PrinterStatus, PrinterSchedule, WaiterStep,
       WaiterActive, WaiterStarting, WaiterWg, WaiterReap, WaiterOffline, WaiterClear, WaiterEnd, stats, pc
  <2> QED BY <1>1, <1>3, <2>1
<1>10. CASE Server(ServerNext) \/ UNCHANGED vars
  BY <1>1, <1>10 DEF Server, vars, stats, pc
<1>11. ASSUME NEW c \in Clients, Dial(c) \/ StoreConnCount(c) \/ HangUp(c) PROVE CountInv'
  <2>1. c \in Threads /\ (\A d \in Clients : d = c) /\ connCount \in Int /\ num[c] \in Int
    BY ThreadsOK DEF OneClient, TypeOK
  <2>2. SUFFICES /\ connCount' <= 1
                 /\ connCount' > 0 => at'[c] \in {"relay", "dec"}
                 /\ (at'[c] = "inc" => num'[c] <= 0) /\ (at'[c] = "dec" => num'[c] <= 1)
    BY <2>1 DEF CountInv
  <2>3. CASE Dial(c)
    <3>1. at[c] = "dial" /\ connCount' = connCount
      BY <2>3 DEF Dial, stats
    <3>2. connCount <= 0
      BY <2>1, <3>1 DEF CountInv
    <3>3. at'[c] = "idle" \/ (at'[c] = "inc" /\ num'[c] = connCount)
      BY <2>1, <2>3, OnlyGoes DEF Dial, TypeOK
    <3> QED BY <2>1, <3>1, <3>2, <3>3
  <2>4. CASE StoreConnCount(c)
    <3>1. \/ at[c] = "inc" /\ at'[c] = "relay" /\ connCount' = num[c] + 1
          \/ at[c] = "dec" /\ at'[c] = "disarm" /\ connCount' = num[c] - 1
      BY <2>1, <2>4, OnlyGoes DEF StoreConnCount
    <3> QED BY <2>1, <3>1 DEF CountInv
  <2>5. CASE HangUp(c)
    <3>1. at'[c] = "dec" /\ num'[c] = connCount /\ connCount' = connCount
      BY <2>1, <2>5, OnlyGoes DEF HangUp, TypeOK, stats
    <3> QED BY <2>1, <3>1 DEF CountInv
  <2> QED BY <1>11, <2>3, <2>4, <2>5
<1>12. ASSUME NEW i \in Instances, RefresherTick(i) PROVE CountInv'
  <2> DEFINE g == <<"refresher", i>>
  <2>1. g \in Threads /\ at[g] = "idle" /\ UNCHANGED <<connCount, num>>
    BY <1>0, <1>12, ThreadsOK DEF RefresherTick, stats
  <2>2. OnlyMoves(g) /\ at'[g] = "switch"
    BY <1>12, <2>1, OnlyGoes DEF RefresherTick
  <2> QED BY <1>2, <2>1, <2>2 DEF Counting
<1> QED
  BY <1>4, <1>6, <1>7, <1>8, <1>9, <1>10, <1>11, <1>12 DEF Next, Steps, ClientStep

(* When all rest and ConnCount is right, Watch makes NeverForgotten. *)
LEMMA OneIsCounted == ASSUME TypeOK, Placed, CountInv, connCount > 0 PROVE ~Quiet
<1>1. PICK c \in Clients : at[c] \in {"relay", "dec"}
  BY DEF CountInv
<1> QED BY <1>1, ThreadsOK DEF Quiet, Placed

(* With one client, who may join and leave as often as he likes, an empty
   server that is awake and was not told to stop has a freeze timer running,
   whoever operates msh, suspended between freezes or not, in every life, unless
   one of the six races was lost. *)
THEOREM NeverForgottenCorrect == ASSUME OneClient PROVE Spec => []NeverForgotten
<1>1. Init => CountInv
  BY ThreadsOK DEF Init, CountInv
<1>2. TypeOK /\ Placed /\ CountInv /\ [Next]_vars => CountInv'
  BY CountStep
<1>3. TypeOK /\ Placed /\ CountInv /\ (connCount > 0 \/ NeverForgotten) => NeverForgotten
  BY OneIsCounted DEF NeverForgotten
<1> QED
  BY <1>1, <1>2, <1>3, NeverForgottenUnlessCounted, TypeCorrect, PlacedCorrect, PTL DEF Spec
-----------------------------------------------------------------------------
(* A stop is pursued *)

(* A goroutine of killMSifOnlineAfterTimeout resumes, counts down and kills. *)
KillerOK(k) ==
  \/ op[k] = "idle" /\ at[k] = "idle"
  \/ /\ op[k] = "kill" /\ at[k] \in {"resume", "resumed", "denied", "poll", "send"}
     /\ at[k] # "send" => num[k] \in 0..AllowKill

KillersOK == \A k \in Killers : KillerOK(k)

(* A server that has a stop to read is up, and a goroutine is there to kill it. *)
Pursued == \A i \in stopCmd : Alive(i) /\ status # "offline" /\ \E k \in Killers : op[k] = "kill"

(* What a killer may do in a step: nothing, be launched, or a statement. *)
Rests(k) == op'[k] = op[k] /\ at'[k] = at[k] /\ num'[k] = num[k]

Hired(k) ==
  /\ op[k] = "idle" /\ op'[k] = "kill"
  /\ at'[k] \in {"resume", "poll"} /\ num'[k] = AllowKill

Works(k) ==
  /\ op[k] = "kill"
  /\ \/ /\ op'[k] = "kill" /\ num'[k] = num[k]
        /\ \/ at[k] = "resume" /\ at'[k] \in {"resumed", "denied"}
           \/ at[k] \in {"resumed", "denied"} /\ at'[k] = "poll"
           \/ at[k] = "poll" /\ at'[k] = "send"
     \/ op'[k] = "kill" /\ at[k] = "poll" /\ at'[k] = "poll" /\ num[k] > 0 /\ num'[k] = num[k] - 1
     \/ op'[k] = "idle" /\ at'[k] = "idle" /\ at[k] = "poll" /\ status = "offline"
     \/ op'[k] = "idle" /\ at'[k] = "idle" /\ at[k] = "send" /\ ~Alive(cur)' /\ cur' = cur

(* Killers are threads of their own. *)
LEMMA KillersApart ==
  \A k \in Killers : /\ k \in Threads /\ k \notin Clients /\ k \notin Operators /\ k \notin Timers
                     /\ k \notin Refreshers
  BY ServCtrlAssumption DEF Threads

(* A goroutine moves itself only. *)
LEMMA MovesItself ==
  ASSUME TypeOK, NEW g \in Threads, NEW k \in Threads, k # g
  PROVE  /\ \A o, a : Goto(g, o, a) => op'[k] = op[k] /\ at'[k] = at[k]
         /\ Return(g) => op'[k] = op[k] /\ at'[k] = at[k]
         /\ \A ok : WarmReturns(g, ok) => op'[k] = op[k] /\ at'[k] = at[k]
         /\ \A o : ResumeFirst(g, o) => op'[k] = op[k] /\ at'[k] = at[k]
<1>1. \A o, a : Goto(g, o, a) => op'[k] = op[k] /\ at'[k] = at[k]
  BY DEF Goto, TypeOK
<1> QED
  BY <1>1 DEF Return, WarmReturns, ResumeFirst

(* A step of another goroutine leaves a killer alone, or launches it. *)
LEMMA ThreadsAndKillers ==
  ASSUME TypeOK, KillersOK, NEW k \in Killers, NEW g \in Threads, g # k, ThreadStep(g)
  PROVE  Rests(k) \/ Hired(k)
<1> k \in Threads
  BY KillersApart
<1>1. CASE WarmMS(g) \/ TermStart(g) \/ TermLoad(g) \/ CmdStart(g)
  <2>1. op'[k] = op[k] /\ at'[k] = at[k]
    BY <1>1, MovesItself DEF WarmMS, TermStart, TermLoad, CmdStart, StartFails
  <2> QED
    BY <1>1, <2>1 DEF WarmMS, TermStart, TermLoad, CmdStart, Rests
<1>2. CASE Resume(g) \/ ResumeFlag(g) \/ Suspend(g) \/ SuspendFlag(g)
  <2>1. op'[k] = op[k] /\ at'[k] = at[k]
    BY <1>2, MovesItself DEF Resume, ResumeFlag, Suspend, SuspendFlag, Panics, pc
  <2>2. num' = num
    BY <1>2 DEF Resume, ResumeFlag, Suspend, SuspendFlag, Panics, pc
  <2> QED
    BY <2>1, <2>2 DEF Rests
<1>3. CASE FreezeMS(g) \/ CountPlayerSafe(g) \/ Await(g) \/ OfflineCase(g) \/ Disarm(g) \/ Arm(g)
  <2>1. op'[k] = op[k] /\ at'[k] = at[k]
    BY <1>3, MovesItself DEF FreezeMS, CountPlayerSafe, Await, OfflineCase, Disarm, Arm
  <2>2. num' = num
    BY <1>3 DEF FreezeMS, CountPlayerSafe, Await, OfflineCase, Disarm, Arm
  <2> QED
    BY <2>1, <2>2 DEF Rests
<1>4. CASE ExecuteStop(g)
  <2>1. CASE Return(g) /\ UNCHANGED num
    BY <2>1, MovesItself DEF Rests
  <2>2. CASE \E j \in Killers :
               /\ op[j] = "idle"
               /\ op' = [op EXCEPT ![g] = "idle", ![j] = "kill"]
               /\ at' = [at EXCEPT ![g] = "idle",
                                   ![j] = IF SuspendAllow THEN "resume" ELSE "poll"]
               /\ num' = [num EXCEPT ![j] = AllowKill]
    BY <2>2, KillersApart DEF TypeOK, Rests, Hired
  <2> QED
    BY <1>4, <2>1, <2>2 DEF ExecuteStop
<1> QED
  BY <1>1, <1>2, <1>3, <1>4 DEF ThreadStep

(* Its own statements, as those of any goroutine: the signals. *)
LEMMA KillerSignals ==
  ASSUME TypeOK, KillersOK, NEW k \in Killers, ThreadStep(k)
  PROVE  Works(k) \/ (Rests(k) /\ msh' = "panicked")
<1> k \in Threads /\ KillerOK(k)
  BY KillersApart DEF KillersOK
<1>1. Resume(k) \/ ResumeFlag(k)
  BY DEF KillerOK, ThreadStep, WarmMS, TermStart, TermLoad, CmdStart, Suspend, SuspendFlag, FreezeMS,
     CountPlayerSafe, Await, OfflineCase, ExecuteStop, Disarm, Arm, In
<1>2. op[k] = "kill"
  BY <1>1 DEF KillerOK, Resume, ResumeFlag
<1>3. CASE Resume(k)
  <2>1. CASE Panics
    BY <2>1 DEF Panics, pc, Rests
  <2>2. CASE (Goto(k, op[k], "resumed") \/ Goto(k, op[k], "denied")) /\ UNCHANGED num
    BY <1>2, <1>3, <2>2 DEF Resume, Goto, Works, TypeOK
  <2> QED
    BY <1>3, <2>1, <2>2 DEF Resume
<1>4. CASE ResumeFlag(k)
  <2>1. Goto(k, "kill", "poll") /\ UNCHANGED num
    BY <1>2, <1>4 DEF ResumeFlag, AfterResume
  <2> QED
    BY <1>2, <1>4, <2>1 DEF ResumeFlag, Goto, Works, TypeOK
<1> QED
  BY <1>1, <1>3, <1>4

(* And those only a killer has: the countdown and the kill. *)
LEMMA KillerKills ==
  ASSUME TypeOK, KillersOK, NEW k \in Killers, KillerStep(k)
  PROVE  Works(k) \/ (Rests(k) /\ msh' = "panicked")
<1> k \in Threads /\ KillerOK(k)
  BY KillersApart DEF KillersOK
<1>1. CASE KillPoll(k)
  <2>1. op[k] = "kill" /\ at[k] = "poll" /\ num[k] \in Int
    BY <1>1 DEF KillPoll, KillerOK
  <2>2. CASE num[k] > 0 /\ status = "offline" /\ Return(k)
    BY <2>1, <2>2 DEF Return, Goto, Works, TypeOK
  <2>3. CASE num[k] > 0 /\ num' = [num EXCEPT ![k] = @ - 1] /\ UNCHANGED <<op, at>>
    BY <2>1, <2>3 DEF Works, TypeOK
  <2>4. CASE Goto(k, "kill", "send") /\ UNCHANGED num
    BY <2>1, <2>4 DEF Goto, Works, TypeOK
  <2> QED
    BY <1>1, <2>2, <2>3, <2>4 DEF KillPoll
<1>2. CASE KillSend(k)
  <2>1. op[k] = "kill" /\ at[k] = "send"
    BY <1>2 DEF KillSend, KillerOK
  <2>2. CASE Panics
    BY <2>2 DEF Panics, pc, Rests
  <2>3. CASE ~Panics
    <3>1. op'[k] = "idle" /\ at'[k] = "idle" /\ cur' = cur
      BY <1>2, <2>3 DEF KillSend, Return, Goto, TypeOK, term
    <3>2. ~Alive(cur)'
      <4>1. cur \in Instances
        BY <1>2, <2>3 DEF KillSend, HasProcess, TypeOK, Instances
      <4> QED
        BY <1>2, <2>3, <3>1, <4>1 DEF KillSend, Dies, Alive, serverVars, TypeOK, ServerTypeOK
    <3> QED
      BY <2>1, <3>1, <3>2 DEF Works
  <2> QED
    BY <2>2, <2>3
<1> QED
  BY <1>1, <1>2 DEF KillerStep

(* A killer is launched by a stop, and then does its statements one by one. *)
LEMMA KillerMoves ==
  ASSUME TypeOK, KillersOK, [Next]_vars, NEW k \in Killers
  PROVE  /\ Rests(k) \/ Hired(k) \/ Works(k)
         /\ KillerStep(k) \/ ThreadStep(k) => Works(k) \/ msh' = "panicked"
<1> k \in Threads
  BY KillersApart
<1>1. ASSUME UNCHANGED pc PROVE Rests(k)
  BY <1>1 DEF pc, Rests
<1>2. ASSUME NEW g \in Threads, ThreadStep(g) PROVE Rests(k) \/ Hired(k) \/ Works(k)
  BY <1>2, ThreadsAndKillers, KillerSignals
<1>3. ASSUME NEW j \in Killers, KillerStep(j) PROVE Rests(k) \/ Hired(k) \/ Works(k)
  <2>1. CASE j = k
    BY <1>3, <2>1, KillerKills
  <2>2. CASE j # k
    <3>1. j \in Threads
      BY KillersApart
    <3> QED
      BY <1>3, <2>2, <3>1 DEF KillerStep, KillPoll, KillSend, Panics, Return, Goto, pc, Rests, TypeOK
  <2> QED
    BY <2>1, <2>2
<1>4. ASSUME NEW t \in Timers, Fire(t) PROVE Rests(k)
  <2>1. t \in Threads /\ t # k
    BY KillersApart, ThreadsOK
  <2> QED
    BY <1>4, <2>1, MovesItself DEF Fire, Rests
<1>5. ASSUME NEW o \in Operators, Operate(o) PROVE Rests(k)
  <2>1. o \in Threads /\ o # k
    BY KillersApart, ThreadsOK
  <2> QED
    BY <1>5, <2>1, MovesItself DEF Operate, Rests
<1>6. ASSUME NEW i \in Instances, RefresherTick(i) PROVE Rests(k)
  <2>1. <<"refresher", i>> \in Threads /\ <<"refresher", i>> # k
    BY <1>6, KillersApart, ThreadsOK DEF RefresherTick, Refreshers
  <2> QED
    BY <1>6, <2>1, MovesItself DEF RefresherTick, Rests
<1>7. ASSUME NEW c \in Clients, Join(c) \/ ClientStep(c) \/ HangUp(c) PROVE Rests(k)
  <2>1. c \in Threads /\ c # k
    BY KillersApart, ThreadsOK
  <2>2. op'[k] = op[k] /\ at'[k] = at[k]
    BY <1>7, <2>1, MovesItself DEF Join, ClientStep, Dial, StoreConnCount, HangUp
  <2>3. num'[k] = num[k]
    BY <1>7, <2>1 DEF Join, ClientStep, Dial, StoreConnCount, HangUp, TypeOK
  <2> QED
    BY <2>2, <2>3 DEF Rests
<1>8. ASSUME NEW i \in Instances, PrinterStep(i) \/ WaiterStep(i) PROVE UNCHANGED pc
  BY <1>8 DEF PrinterStep, PrinterStart, PrinterScan, PrinterEOF, PrinterStatus, PrinterSchedule, WaiterStep,
     WaiterActive, WaiterStarting, WaiterWg, WaiterReap, WaiterOffline, WaiterClear, WaiterEnd
<1>9. Server(ServerNext) \/ UNCHANGED vars => UNCHANGED pc
  BY DEF Server, vars
<1>10. Rests(k) \/ Hired(k) \/ Works(k)
  BY <1>1, <1>2, <1>3, <1>4, <1>5, <1>6, <1>7, <1>8, <1>9 DEF Next, Steps
<1> QED
  BY <1>10, KillerSignals, KillerKills

(* So killers stay at their statements. *)
LEMMA KillersStay == TypeOK /\ KillersOK /\ [Next]_vars => KillersOK'
<1> SUFFICES ASSUME TypeOK, KillersOK, [Next]_vars, NEW k \in Killers PROVE KillerOK(k)'
  BY DEF KillersOK
<1>1. KillerOK(k) /\ (Rests(k) \/ Hired(k) \/ Works(k))
  BY KillerMoves DEF KillersOK
<1>2. AllowKill \in Nat
  BY ThreadsOK
<1>3. CASE Rests(k)
  BY <1>1, <1>3 DEF Rests, KillerOK
<1>4. CASE Hired(k)
  BY <1>2, <1>4 DEF Hired, KillerOK
<1>5. CASE Works(k)
  BY <1>1, <1>2, <1>5 DEF Works, KillerOK
<1> QED
  BY <1>1, <1>3, <1>4, <1>5

(* KillersOK is an invariant. *)
LEMMA KillersCorrect == Spec => []KillersOK
<1>1. Init => KillersOK
  BY KillersApart DEF Init, KillersOK, KillerOK
<1> QED
  BY <1>1, KillersStay, TypeCorrect, PTL DEF Spec

(* Who has a stop to read lives, and his status is not OFFLINE. *)
LEMMA StopsLive ==
  ASSUME TypeOK, IInv, Pursued, [Next]_vars
  PROVE  /\ \A i \in stopCmd' : Alive(i)' /\ status' # "offline"
         /\ \/ stopCmd' \subseteq stopCmd
            \/ AllowKill # 0 => \E k \in Killers : op'[k] = "kill"
<1> DEFINE Good == /\ \A i \in stopCmd' : Alive(i)' /\ status' # "offline"
                   /\ \/ stopCmd' \subseteq stopCmd
                      \/ AllowKill # 0 => \E k \in Killers : op'[k] = "kill"
<1>0. stopCmd \subseteq Instances /\ (stopCmd # {} => stopCmd = {cur})
  BY AliveIsCur DEF TypeOK, ServerTypeOK, Pursued
<1>1. ASSUME UNCHANGED <<stopCmd, proc, status>> PROVE Good
  BY <1>1 DEF Pursued, Alive
<1>2. ASSUME NEW i \in Instances, Dies(i), UNCHANGED status PROVE Good
  BY <1>2 DEF Dies, Pursued, Alive, TypeOK, ServerTypeOK
<1>3. CASE Server(ServerNext)
  <2>1. UNCHANGED <<stopCmd, proc>> \/ \E i \in Instances : Dies(i)
    BY <1>3 DEF Server, ServerNext, Boot, Obey, Exit, Faulty, SelfStop, Crash, Hang, Admit, Drop
  <2> QED
    BY <1>1, <1>2, <1>3, <2>1 DEF Server, stats
<1>4. ASSUME NEW g \in Threads, ThreadStep(g) PROVE Good
  <2>1. CASE TermLoad(g)
    <3>1. \A i \in stopCmd : Alive(i)'
      BY <2>1, <1>0, ThreadsOK DEF TermLoad, IInv, Order, Pursued, Alive, TypeOK, ServerTypeOK, Instances
    <3> QED
      BY <2>1, <3>1 DEF TermLoad, Pursued
  <2>2. CASE CmdStart(g)
    <3>1. proc[cur] = "unstarted"
      BY <2>2 DEF CmdStart, IInv, Launch
    <3>2. stopCmd = {}
      BY <1>0, <3>1 DEF Pursued, Alive
    <3> QED
      BY <2>2, <3>2 DEF CmdStart
  <2>3. CASE ExecuteStop(g)
    <3>1. UNCHANGED <<proc, status>>
      BY <2>3 DEF ExecuteStop, stats
    <3>2. CASE UNCHANGED stopCmd
      BY <1>1, <3>1, <3>2
    <3>3. CASE Executes /\ stopCmd' = stopCmd \cup {cur}
      <4>1. proc'[cur] = "alive" /\ status' # "offline"
        BY <3>1, <3>3 DEF Executes, CheckMSWarm, Alive
      <4>2. AllowKill # 0 => \E k \in Killers : op'[k] = "kill"
        BY <2>3, <3>3, KillersApart DEF ExecuteStop, TypeOK
      <4> QED
        BY <3>1, <3>3, <4>1, <4>2 DEF Pursued, Alive
    <3> QED
      BY <2>3, <3>2, <3>3 DEF ExecuteStop
  <2>4. CASE ~TermLoad(g) /\ ~CmdStart(g) /\ ~ExecuteStop(g)
    <3>1. UNCHANGED stopCmd
      BY <1>4, <2>4 DEF ThreadStep, WarmMS, TermStart, Resume, ResumeFlag, Suspend, SuspendFlag, Panics,
         FreezeMS, CountPlayerSafe, Await, OfflineCase, Disarm, Arm, serverVars
    <3> QED
      BY <1>1, <1>4, <2>4, <3>1, Silent
  <2> QED
    BY <2>1, <2>2, <2>3, <2>4
<1>5. ASSUME NEW k \in Killers, KillSend(k) PROVE Good
  <2>1. UNCHANGED status
    BY <1>5 DEF KillSend, Panics, stats
  <2>2. UNCHANGED serverVars \/ (cur \in Instances /\ Dies(cur))
    BY <1>5 DEF KillSend, Panics, HasProcess, TypeOK, Instances
  <2> QED
    BY <1>1, <1>2, <2>1, <2>2 DEF serverVars
<1>6. ASSUME NEW i \in Instances, PrinterStep(i) PROVE Good
  <2>1. UNCHANGED <<stopCmd, proc>> /\ status' \in {status, "online", "stopping"}
    BY <1>6 DEF PrinterStep, PrinterStart, PrinterScan, PrinterEOF, PrinterStatus, PrinterSchedule, serverVars, stats
  <2> QED
    BY <2>1 DEF Pursued, Alive
<1>7. ASSUME NEW i \in Instances, WaiterStep(i) PROVE Good
  <2>1. UNCHANGED <<stopCmd, proc>>
    BY <1>7 DEF WaiterStep, WaiterActive, WaiterStarting, WaiterWg, WaiterReap, WaiterOffline, WaiterClear,
       WaiterEnd, serverVars
  <2>2. CASE WaiterOffline(i)
    <3>1. waiter[i] = "down" /\ i = cur /\ proc[i] = "dead"
      BY <2>2, WaitedIsCur DEF WaiterOffline, Waiter, Gone, IInv, Watched
    <3>2. stopCmd = {}
      BY <1>0, <3>1 DEF Pursued, Alive
    <3> QED
      BY <2>1, <3>2
  <2>3. CASE ~WaiterOffline(i)
    <3>1. status' \in {status, "starting"}
      BY <1>7, <2>3 DEF WaiterStep, WaiterActive, WaiterStarting, WaiterWg, WaiterReap, WaiterClear, WaiterEnd, stats
    <3> QED
      BY <2>1, <3>1 DEF Pursued, Alive
  <2> QED
    BY <2>2, <2>3
<1>8. \/ \E t \in Timers : Fire(t)
      \/ \E k \in Killers : KillPoll(k)
      \/ \E o \in Operators : Operate(o)
      \/ \E i \in Instances : RefresherTick(i)
      \/ \E c \in Clients : Join(c) \/ ClientStep(c) \/ HangUp(c)
      \/ UNCHANGED vars
      => UNCHANGED <<stopCmd, proc, status>>
  BY DEF Fire, KillPoll, Operate, RefresherTick, Join, ClientStep, Dial, StoreConnCount, HangUp, vars, serverVars, stats
<1> QED
  BY <1>1, <1>3, <1>4, <1>5, <1>6, <1>7, <1>8 DEF Next, Steps, KillerStep

(* Nobody calls a killer back while the server lives. *)
LEMMA PursuedStep ==
  ASSUME TypeOK, IInv, KillersOK, Pursued, AllowKill # 0, [Next]_vars
  PROVE  Pursued'
<1>1. \A i \in stopCmd' : Alive(i)' /\ status' # "offline"
  BY StopsLive
<1>2. ASSUME NEW i \in stopCmd' PROVE \E k \in Killers : op'[k] = "kill"
  <2>1. CASE i \notin stopCmd
    BY <1>2, <2>1, StopsLive
  <2>2. CASE i \in stopCmd
    <3>1. PICK k \in Killers : op[k] = "kill"
      BY <2>2 DEF Pursued
    <3>2. Alive(i) /\ status # "offline" /\ i \in Instances /\ Alive(i)'
      BY <1>1, <1>2, <2>2 DEF Pursued, TypeOK, ServerTypeOK
    <3>3. i = cur
      BY <3>2, AliveIsCur
    <3>4. Rests(k) \/ Hired(k) \/ Works(k)
      BY KillerMoves
    <3>5. op'[k] # "idle"
      BY <3>1, <3>2, <3>3, <3>4 DEF Rests, Hired, Works, Alive
    <3>6. op'[k] = "kill"
      BY <3>1, <3>4, <3>5 DEF Rests, Hired, Works
    <3> QED
      BY <3>6
  <2> QED
    BY <2>1, <2>2
<1> QED
  BY <1>1, <1>2 DEF Pursued

(* When StopServerAllowKill is set, a server that has a stop to read, however
   frozen, hung or full its pipe, has a goroutine that will kill it, and that
   goroutine does not take it for OFFLINE meanwhile
   (killMSifOnlineAfterTimeout), unless a start lost one of its two races. *)
THEOREM StopIsPursued == ASSUME AllowKill # 0 PROVE Spec => [](Ordered => Pursued)
<1>1. Init => (Ordered => Pursued)
  BY DEF Init, ServerInit, Pursued
<1>2. TypeOK /\ KillersOK /\ (Ordered => IInv) /\ (Ordered => Pursued) /\ [Next]_vars =>
        (Ordered => Pursued)'
  BY OrderedStep, PursuedStep
<1> QED
  BY <1>1, <1>2, TypeCorrect, InvCorrect, KillersCorrect, PTL DEF Spec

(* How many statements a killer has left, at most. *)
KillEffort(k) ==
  CASE at[k] = "idle"                  -> 0
    [] at[k] = "send"                  -> 1
    [] at[k] = "poll"                  -> 2 + num[k]
    [] at[k] \in {"resumed", "denied"} -> 3 + AllowKill
    [] at[k] = "resume"                -> 4 + AllowKill

(* A killer takes at most AllowKill + 4 statements to its end, unless it panics:
   each one brings it nearer, and nobody else sends it back.  Together with
   StopIsPursued: a stop that is not obeyed ends in a kill as soon as its killer
   has run that often. *)
THEOREM KillersAreShort ==
  Spec => [][\A k \in Killers :
               /\ KillerStep(k) \/ ThreadStep(k) => KillEffort(k)' < KillEffort(k) \/ msh' = "panicked"
               /\ op[k] # "idle" => KillEffort(k)' <= KillEffort(k)
               /\ KillEffort(k) \in 0..(AllowKill + 4)]_vars
<1>1. ASSUME TypeOK, KillersOK, [Next]_vars, NEW k \in Killers
      PROVE  /\ KillerStep(k) \/ ThreadStep(k) => KillEffort(k)' < KillEffort(k) \/ msh' = "panicked"
             /\ op[k] # "idle" => KillEffort(k)' <= KillEffort(k)
             /\ KillEffort(k) \in 0..(AllowKill + 4)
  <2>1. KillerOK(k) /\ AllowKill \in Nat /\ num[k] \in Int
    BY <1>1, KillersApart, ThreadsOK DEF KillersOK, TypeOK
  <2>2. KillEffort(k) \in 0..(AllowKill + 4)
    BY <2>1 DEF KillerOK, KillEffort
  <2>3. Works(k) => KillEffort(k)' < KillEffort(k)
    BY <2>1 DEF Works, KillerOK, KillEffort
  <2>4. Rests(k) => KillEffort(k)' = KillEffort(k)
    BY DEF Rests, KillEffort
  <2>5. Works(k) => KillEffort(k)' \in Int
    BY <2>1 DEF Works, KillerOK, KillEffort
  <2>6. Hired(k) => op[k] = "idle"
    BY DEF Hired
  <2>7. /\ Rests(k) \/ Hired(k) \/ Works(k)
        /\ KillerStep(k) \/ ThreadStep(k) => Works(k) \/ msh' = "panicked"
    BY <1>1, KillerMoves
  <2> QED
    BY <2>2, <2>3, <2>4, <2>5, <2>6, <2>7
<1>2. TypeOK /\ KillersOK /\ [Next]_vars =>
        [\A k \in Killers :
           /\ KillerStep(k) \/ ThreadStep(k) => KillEffort(k)' < KillEffort(k) \/ msh' = "panicked"
           /\ op[k] # "idle" => KillEffort(k)' <= KillEffort(k)
           /\ KillEffort(k) \in 0..(AllowKill + 4)]_vars
  BY <1>1
<1> QED
  BY <1>2, TypeCorrect, KillersCorrect, PTL DEF Spec
=============================================================================
