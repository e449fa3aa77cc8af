------------------------------- MODULE Terminal -------------------------------
(***************************************************************************)
(* The terminal of an online server: the pipes of the java process, the    *)
(* printer that hands its lines over through the channel lastOut, Execute, *)
(* which collects them, and countPlayerSafe, which looks for the number of *)
(* players in what Execute returns.                                        *)
(*                                                                         *)
(* A line is the first number in it.  Time is counted in ticks.  What the  *)
(* printer makes of a line is in ServCtrl.                                 *)
(***************************************************************************)
EXTENDS Integers, Sequences

CONSTANTS
  Callers,     \* goroutines that run a command or count the players
  MaxPlayers,
  MaxPipe,     \* lines, or commands, that a pipe holds
  Quiet,       \* ticks of the timer in Execute
  Faults       \* "longline": a line may be longer than the scanner allows

ASSUME TerminalAssumption ==
  /\ MaxPlayers \in Nat /\ MaxPipe \in Nat \ {0} /\ Quiet \in Nat
  /\ Faults \subseteq {"longline"}

VARIABLES
  players,   \* who plays
  warm,      \* CheckMSWarm() = nil
  stdin,     \* commands the server has not read
  stdout,    \* lines the printer has not read
  printer,   \* "scan", "offer" or "gone"
  line,      \* what the printer has read
  at,        \* at[c]: statement of caller c
  job,       \* job[c]: "list" for countPlayerSafe, "command" for another command
  out,       \* out[c]: the first number in the output collected by c
  timer      \* timer[c]: ticks left to the timer of c

server == <<players, warm>>
pipes  == <<stdin, stdout>>
scan   == <<printer, line>>
caller == <<at, job, out, timer>>
vars   == <<server, pipes, scan, caller>>

NoNumber == -1
Lines    == {NoNumber} \cup 0..MaxPlayers
Commands == {"list", "command"}
SeqUpTo(S, n) == UNION {[1..m -> S] : m \in 0..n}

(* Every variable stays in its domain, and the pipes within their bounds. *)
TypeOK ==
  /\ players \in 0..MaxPlayers /\ warm \in BOOLEAN
  /\ stdin \in SeqUpTo(Commands, MaxPipe) /\ stdout \in SeqUpTo(Lines, MaxPipe)
  /\ printer \in {"scan", "offer", "gone"} /\ line \in Lines
  /\ at \in [Callers -> {"rest", "info", "execute", "write", "select", "got"}]
  /\ job \in [Callers -> Commands]
  /\ out \in [Callers -> Lines] /\ timer \in [Callers -> 0..Quiet]

Init ==
  /\ players = 0 /\ warm = TRUE
  /\ stdin = <<>> /\ stdout = <<>> /\ printer = "scan" /\ line = NoNumber
  /\ at = [c \in Callers |-> "rest"] /\ job = [c \in Callers |-> "command"]
  /\ out = [c \in Callers |-> NoNumber] /\ timer = [c \in Callers |-> 0]

Step(c, from, to) == at[c] = from /\ at' = [at EXCEPT ![c] = to]
-----------------------------------------------------------------------------
(* The server *)

(* Players come and go, and the server is suspended or resumed. *)
ServerChanges ==
  /\ players' \in 0..MaxPlayers /\ warm' \in BOOLEAN
  /\ UNCHANGED <<pipes, scan, caller>>

Writes(l) == Len(stdout) < MaxPipe /\ stdout' = Append(stdout, l)

(* The server logs on its own account: a chat, a warning. *)
Logs ==
  /\ \E l \in Lines : Writes(l)
  /\ UNCHANGED <<server, stdin, scan, caller>>

(* It reads a command and answers in one line, if at all. *)
Obeys ==
  /\ stdin # <<>> /\ stdin' = Tail(stdin)
  /\ IF Head(stdin) = "list" THEN Writes(players) ELSE Writes(NoNumber) \/ UNCHANGED stdout
  /\ UNCHANGED <<server, scan, caller>>
-----------------------------------------------------------------------------
(* printerOutErr *)

(* The scanner stops for good at a line of more than 64 KiB. *)
Scan ==
  /\ printer = "scan" /\ stdout # <<>>
  /\ stdout' = Tail(stdout)
  /\ \/ printer' = "offer" /\ line' = Head(stdout)
     \/ "longline" \in Faults /\ printer' = "gone" /\ line' = NoNumber
  /\ UNCHANGED <<server, stdin, caller>>

Waiting == {c \in Callers : at[c] = "select"}

(* A mistaken Drop: a send that waits for an Execute. *)
NeverDrop == FALSE

(* The send does not wait: without a receiver the line is dropped. *)
Drop ==
  /\ printer = "offer" /\ Waiting = {}
  /\ printer' = "scan" /\ line' = NoNumber
  /\ UNCHANGED <<server, pipes, caller>>

First(n, l) == IF n = NoNumber THEN l ELSE n

(* lastOut has no buffer: one of those who wait gets the line. *)
Receive(c) ==
  /\ printer = "offer"
  /\ Step(c, "select", "got")
  /\ out' = [out EXCEPT ![c] = First(@, line)]
  /\ printer' = "scan" /\ line' = NoNumber
  /\ UNCHANGED <<server, pipes, job, timer>>

PrinterStep == Scan \/ Drop \/ \E c \in Callers : Receive(c)
-----------------------------------------------------------------------------
(* Execute and countPlayerSafe *)

Call(c) ==
  /\ \/ Step(c, "rest", "execute") /\ job' = [job EXCEPT ![c] = "command"]
     \/ Step(c, "rest", "info") /\ job' = [job EXCEPT ![c] = "list"]
  /\ UNCHANGED <<server, pipes, scan, out, timer>>

(* getPlayersByServInfo: the server tells, or the list command is tried. *)
ServInfo(c) ==
  /\ (warm /\ Step(c, "info", "rest")) \/ Step(c, "info", "execute")
  /\ UNCHANGED <<server, pipes, scan, job, out, timer>>

Check(c) ==
  /\ Step(c, "execute", IF warm THEN "write" ELSE "rest")
  /\ UNCHANGED <<server, pipes, scan, job, out, timer>>

(* Writing blocks as long as the pipe is full. *)
Write(c) ==
  /\ Step(c, "write", "select")
  /\ Len(stdin) < MaxPipe /\ stdin' = Append(stdin, job[c])
  /\ timer' = [timer EXCEPT ![c] = Quiet]
  /\ UNCHANGED <<server, stdout, scan, job, out>>

(* A mistaken Again: the time that is left is prolonged. *)
AgainProlongs(c) ==
  /\ Step(c, "got", "select")
  /\ timer' = [timer EXCEPT ![c] = @ + Quiet]
  /\ UNCHANGED <<server, pipes, scan, job, out>>

(* The next round of the loop makes a new timer. *)
Again(c) ==
  /\ Step(c, "got", "select")
  /\ timer' = [timer EXCEPT ![c] = Quiet]
  /\ UNCHANGED <<server, pipes, scan, job, out>>

(* A mistaken Timeout: a command without output is waited for. *)
TimeoutOfOutput(c) ==
  /\ Step(c, "select", "rest") /\ timer[c] = 0 /\ out[c] # NoNumber
  /\ out' = [out EXCEPT ![c] = NoNumber]
  /\ UNCHANGED <<server, pipes, scan, job, timer>>

(* Execute returns; countPlayerSafe answers the number in its output, or
   ConnCount when there is none. *)
Timeout(c) ==
  /\ Step(c, "select", "rest") /\ timer[c] = 0
  /\ out' = [out EXCEPT ![c] = NoNumber]
  /\ UNCHANGED <<server, pipes, scan, job, timer>>

ExecuteStep(c) == ServInfo(c) \/ Check(c) \/ Write(c) \/ Again(c) \/ Timeout(c)

(* 200 ms pass. *)
Tick ==
  /\ \E c \in Callers : timer[c] > 0
  /\ timer' = [c \in Callers |-> IF timer[c] > 0 THEN timer[c] - 1 ELSE 0]
  /\ UNCHANGED <<server, pipes, scan, at, job, out>>

Next ==
  \/ ServerChanges \/ Logs \/ Obeys \/ PrinterStep \/ Tick
  \/ \E c \in Callers : Call(c) \/ ExecuteStep(c)

Spec == Init /\ [][Next]_vars

(* The Go scheduler runs the printer and the callers, time passes, and the
   server reads its stdin when it can log. *)
Fairness ==
  /\ WF_vars(PrinterStep) /\ WF_vars(Tick) /\ WF_vars(Obeys)
  /\ \A c \in Callers : WF_vars(ExecuteStep(c))

FairSpec == Spec /\ Fairness
-----------------------------------------------------------------------------
(* Properties *)

(* The server never waits for ever to log a line, whoever listens to lastOut
   or does not: "must be a non-blocking select or it might cause hanging"
   (servctrl-cmd.go:227); the exception is a scanner that has given up. *)
PipeDrains == []<>(Len(stdout) < MaxPipe) \/ <>(printer = "gone")

(* "Execute on command with no output doesn't cause hanging"
   (servctrl-cmd.go:41): once the server logs nothing of its own and nobody
   calls any more, every Execute and every count returns.  While it logs, they
   need not: every line starts the watchdog anew (servctrl-cmd.go:69). *)
CallersReturn ==
  <>[][~Logs /\ \A c \in Callers : ~Call(c)]_vars
    => \A c \in Callers : at[c] # "rest" ~> at[c] = "rest" \/ printer = "gone"
=============================================================================
