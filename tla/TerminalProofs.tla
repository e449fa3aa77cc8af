---------------------------- MODULE TerminalProofs ----------------------------
(***************************************************************************)
(* Proofs about Terminal, for any number of callers, any pipes and any     *)
(* time-out: type correctness, with the pipes within their bounds, and the *)
(* number of steps of a caller.                                            *)
(***************************************************************************)
EXTENDS Terminal, SequenceTheorems, TLAPS

USE TerminalAssumption

(* SeqUpTo without its functions. *)
LEMMA SeqUpToIs ==
  ASSUME NEW S, NEW n \in Nat
  PROVE  \A s : s \in SeqUpTo(S, n) <=> s \in Seq(S) /\ Len(s) <= n
<1>1. ASSUME NEW s, s \in SeqUpTo(S, n) PROVE s \in Seq(S) /\ Len(s) <= n
  <2>1. PICK m \in 0..n : s \in [1..m -> S]
    BY <1>1 DEF SeqUpTo
  <2> QED
    BY <2>1
<1>2. ASSUME NEW s, s \in Seq(S), Len(s) <= n PROVE s \in SeqUpTo(S, n)
  <2>1. Len(s) \in 0..n /\ s \in [1..Len(s) -> S]
    BY <1>2
  <2> QED
    BY <2>1 DEF SeqUpTo
<1> QED
  BY <1>1, <1>2

(* A pipe that is written when it is not full, and read when it is not empty,
   stays within its bound. *)
LEMMA PipeType ==
  ASSUME NEW S, NEW p \in SeqUpTo(S, MaxPipe)
  PROVE  /\ \A x \in S : Len(p) < MaxPipe => Append(p, x) \in SeqUpTo(S, MaxPipe)
         /\ p # <<>> => Tail(p) \in SeqUpTo(S, MaxPipe) /\ Head(p) \in S
<1>1. MaxPipe \in Nat /\ p \in Seq(S) /\ Len(p) <= MaxPipe
  BY SeqUpToIs
<1>2. ASSUME NEW x \in S, Len(p) < MaxPipe PROVE Append(p, x) \in SeqUpTo(S, MaxPipe)
  <2>1. Append(p, x) \in Seq(S) /\ Len(Append(p, x)) = Len(p) + 1
    BY <1>1
  <2>2. Len(p) + 1 <= MaxPipe
    BY <1>1, <1>2
  <2> QED
    BY <1>1, <2>1, <2>2, SeqUpToIs
<1>3. ASSUME p # <<>> PROVE Tail(p) \in SeqUpTo(S, MaxPipe) /\ Head(p) \in S
  <2>1. Tail(p) \in Seq(S) /\ Len(Tail(p)) = Len(p) - 1 /\ Head(p) \in S
    BY <1>1, <1>3
  <2>2. Len(p) - 1 <= MaxPipe
    BY <1>1
  <2> QED
    BY <1>1, <2>1, <2>2, SeqUpToIs
<1> QED
  BY <1>2, <1>3

(* The same of the two pipes of the java process. *)
LEMMA PipesType ==
  ASSUME TypeOK
  PROVE  /\ \A l : l \in Lines /\ Writes(l) => stdout' \in SeqUpTo(Lines, MaxPipe)
         /\ stdout # <<>> => Tail(stdout) \in SeqUpTo(Lines, MaxPipe) /\ Head(stdout) \in Lines
         /\ stdin # <<>> => Tail(stdin) \in SeqUpTo(Commands, MaxPipe)
         /\ \A j \in Commands : Len(stdin) < MaxPipe => Append(stdin, j) \in SeqUpTo(Commands, MaxPipe)
<1>1. stdin \in SeqUpTo(Commands, MaxPipe) /\ stdout \in SeqUpTo(Lines, MaxPipe)
  BY DEF TypeOK
<1>2. ASSUME NEW l \in Lines, Writes(l) PROVE stdout' \in SeqUpTo(Lines, MaxPipe)
  <2>1. Append(stdout, l) \in SeqUpTo(Lines, MaxPipe)
    BY <1>1, <1>2, PipeType DEF Writes
  <2> QED
    BY <1>2, <2>1 DEF Writes
<1>3. stdout # <<>> => Tail(stdout) \in SeqUpTo(Lines, MaxPipe) /\ Head(stdout) \in Lines
  BY <1>1, PipeType
<1>4. stdin # <<>> => Tail(stdin) \in SeqUpTo(Commands, MaxPipe)
  BY <1>1, PipeType
<1>5. \A j \in Commands : Len(stdin) < MaxPipe => Append(stdin, j) \in SeqUpTo(Commands, MaxPipe)
  BY <1>1, PipeType
<1> QED
  BY <1>2, <1>3, <1>4, <1>5

(* The server and the printer. *)
LEMMA PipeStepType == ASSUME TypeOK, ServerChanges \/ Logs \/ Obeys \/ PrinterStep PROVE TypeOK'
<1> USE DEF TypeOK, server, pipes, scan, caller
<1>1. CASE ServerChanges
  BY <1>1 DEF ServerChanges
<1>2. CASE Logs
  <2>1. stdout' \in SeqUpTo(Lines, MaxPipe)
    BY <1>2, PipesType DEF Logs
  <2> QED
    BY <1>2, <2>1 DEF Logs
<1>3. CASE Obeys
  <2>1. stdin' \in SeqUpTo(Commands, MaxPipe)
    BY <1>3, PipesType DEF Obeys
  <2>2. stdout' \in SeqUpTo(Lines, MaxPipe)
    <3>1. players \in Lines /\ NoNumber \in Lines
      BY DEF Lines
    <3>2. UNCHANGED stdout \/ \E l \in Lines : Writes(l)
      BY <1>3, <3>1 DEF Obeys
    <3> QED
      BY <3>2, PipesType
  <2> QED
    BY <1>3, <2>1, <2>2 DEF Obeys
<1>4. CASE Scan
  <2>1. stdout' \in SeqUpTo(Lines, MaxPipe) /\ Head(stdout) \in Lines
    BY <1>4, PipesType DEF Scan
  <2>2. line' \in Lines
    BY <1>4, <2>1 DEF Scan, Lines
  <2> QED
    BY <1>4, <2>1, <2>2 DEF Scan
<1>5. CASE Drop
  BY <1>5 DEF Drop, Lines
<1>6. ASSUME NEW c \in Callers, Receive(c) PROVE TypeOK'
  <2>1. First(out[c], line) \in Lines
    BY DEF First
  <2> QED
    BY <1>6, <2>1 DEF Receive, Step, Lines
<1> QED
  BY <1>1, <1>2, <1>3, <1>4, <1>5, <1>6 DEF PrinterStep

(* The callers, and time. *)
LEMMA CallerStepType == ASSUME TypeOK, Tick \/ \E c \in Callers : Call(c) \/ ExecuteStep(c) PROVE TypeOK'
<1> USE DEF TypeOK, server, pipes, scan, Step
<1>1. CASE Tick
  <2>1. \A n \in 0..Quiet : (IF n > 0 THEN n - 1 ELSE 0) \in 0..Quiet
    <3> HIDE DEF TypeOK
    <3> QED
      OBVIOUS
  <2> QED
    BY <1>1, <2>1 DEF Tick
<1>2. ASSUME NEW c \in Callers, Call(c) PROVE TypeOK'
  BY <1>2 DEF Call, Commands
<1>3. ASSUME NEW c \in Callers, ServInfo(c) \/ Check(c) PROVE TypeOK'
  BY <1>3 DEF ServInfo, Check
<1>4. ASSUME NEW c \in Callers, Write(c) PROVE TypeOK'
  <2>1. stdin' \in SeqUpTo(Commands, MaxPipe)
    BY <1>4, PipesType DEF Write
  <2>2. Quiet \in 0..Quiet
    OBVIOUS
  <2> QED
    BY <1>4, <2>1, <2>2 DEF Write
<1>5. ASSUME NEW c \in Callers, Again(c) \/ Timeout(c) PROVE TypeOK'
  BY <1>5 DEF Again, Timeout, Lines
<1> QED
  BY <1>1, <1>2, <1>3, <1>4, <1>5 DEF ExecuteStep

(* Every variable stays in its domain: no pipe overflows, no timer runs below
   zero, and what Execute has collected is a line of the server. *)
THEOREM TypeCorrect == Spec => []TypeOK
<1>1. Init => TypeOK
  <2>1. <<>> \in SeqUpTo(Commands, MaxPipe) /\ <<>> \in SeqUpTo(Lines, MaxPipe)
    <3>1. \A S : <<>> \in Seq(S) /\ Len(<<>>) <= MaxPipe
      OBVIOUS
    <3> QED
      BY <3>1, SeqUpToIs
  <2> QED
    BY <2>1 DEF Init, TypeOK, Lines, Commands
<1>2. TypeOK /\ UNCHANGED vars => TypeOK'
  BY DEF TypeOK, vars, server, pipes, scan, caller
<1> QED
  BY <1>1, <1>2, PipeStepType, CallerStepType, PTL DEF Spec, Next

-----------------------------------------------------------------------------
(* The statements and ticks of c before it returns, if it hears nothing. *)
Effort(c) ==
  IF at[c] = "info" THEN Quiet + 4
  ELSE IF at[c] = "execute" THEN Quiet + 3
  ELSE IF at[c] \in {"write", "got"} THEN Quiet + 2
  ELSE IF at[c] = "select" THEN timer[c] + 1 ELSE 0

(* The commands and lines under way. *)
Pending == Len(stdin) + Len(stdout) + (IF printer = "offer" THEN 1 ELSE 0)

(* What a caller and the pipes are, for the measures. *)
LEMMA MeasuresType ==
  ASSUME TypeOK
  PROVE  /\ \A c \in Callers : timer[c] \in 0..Quiet /\ Effort(c) \in 0..(Quiet + 4)
                               /\ (at[c] # "rest" => Effort(c) > 0)
         /\ Len(stdin) \in Nat /\ Len(stdout) \in Nat /\ Pending \in Nat
<1>1. ASSUME NEW c \in Callers
      PROVE  timer[c] \in 0..Quiet
             /\ at[c] \in {"rest", "info", "execute", "write", "select", "got"}
  BY DEF TypeOK
<1>2. ASSUME NEW c \in Callers
      PROVE  Effort(c) \in 0..(Quiet + 4) /\ (at[c] # "rest" => Effort(c) > 0)
  BY <1>1 DEF Effort
<1>3. stdin \in Seq(Commands) /\ stdout \in Seq(Lines)
  BY SeqUpToIs DEF TypeOK
<1>4. Len(stdin) \in Nat /\ Len(stdout) \in Nat
  BY <1>3
<1> QED
  BY <1>1, <1>2, <1>4 DEF Pending

(* What the ends of a pipe do to its length. *)
LEMMA PipeLength ==
  ASSUME TypeOK
  PROVE  /\ \A l \in Lines : Writes(l) => Len(stdout') = Len(stdout) + 1
         /\ stdout # <<>> => Len(Tail(stdout)) = Len(stdout) - 1
         /\ stdin # <<>> => Len(Tail(stdin)) = Len(stdin) - 1
<1>1. stdin \in Seq(Commands) /\ stdout \in Seq(Lines)
  BY SeqUpToIs DEF TypeOK
<1> QED
  BY <1>1 DEF Writes

(* Steps of the callers, and of time. *)
LEMMA EffortStep ==
  ASSUME TypeOK, NEW c \in Callers
  PROVE  /\ ExecuteStep(c) => Effort(c)' < Effort(c)
         /\ Tick /\ at[c] = "select" /\ timer[c] > 0 => Effort(c)' < Effort(c)
         /\ [Next]_vars /\ at[c] # "rest" /\ ~Receive(c) => Effort(c)' <= Effort(c)
<1>0. /\ \A d \in Callers : timer[d] \in 0..Quiet /\ Effort(d) \in 0..(Quiet + 4)
      /\ DOMAIN at = Callers /\ DOMAIN timer = Callers
  BY MeasuresType DEF TypeOK
<1>1. ASSUME ExecuteStep(c) PROVE Effort(c)' < Effort(c)
  <2>1. CASE ServInfo(c) \/ Check(c)
    <3>1. \/ at[c] = "info" /\ at'[c] \in {"rest", "execute"}
          \/ at[c] = "execute" /\ at'[c] \in {"rest", "write"}
      BY <1>0, <2>1 DEF ServInfo, Check, Step
    <3> QED
      BY <3>1 DEF Effort
  <2>2. CASE Write(c) \/ Again(c)
    <3>1. at[c] \in {"write", "got"} /\ at'[c] = "select" /\ timer'[c] = Quiet
      BY <1>0, <2>2 DEF Write, Again, Step
    <3> QED
      BY <3>1 DEF Effort
  <2>3. CASE Timeout(c)
    <3>1. at[c] = "select" /\ timer[c] = 0 /\ at'[c] = "rest"
      BY <1>0, <2>3 DEF Timeout, Step
    <3> QED
      BY <3>1 DEF Effort
  <2> QED
    BY <1>1, <2>1, <2>2, <2>3 DEF ExecuteStep
<1>2. ASSUME Tick
      PROVE  /\ Effort(c)' <= Effort(c)
             /\ at[c] = "select" /\ timer[c] > 0 => Effort(c)' < Effort(c)
  <2>1. at' = at /\ timer'[c] = IF timer[c] > 0 THEN timer[c] - 1 ELSE 0
    BY <1>2 DEF Tick
  <2> QED
    BY <1>0, <2>1 DEF Effort
<1>3. ASSUME [Next]_vars, at[c] # "rest", ~Receive(c) PROVE Effort(c)' <= Effort(c)
  <2>1. CASE at'[c] = at[c] /\ timer'[c] = timer[c]
    <3>1. Effort(c)' = Effort(c) /\ Effort(c) \in Int
      BY <1>0, <2>1 DEF Effort
    <3> QED
      BY <3>1
  <2>2. ASSUME NEW d \in Callers, d # c, Call(d) \/ ExecuteStep(d) \/ Receive(d)
        PROVE  at'[c] = at[c] /\ timer'[c] = timer[c]
    BY <1>0, <2>2 DEF Call, ExecuteStep, ServInfo, Check, Write, Again, Timeout, Receive, Step
  <2>3. ~Call(c)
    BY <1>3 DEF Call, Step
  <2>4. CASE ExecuteStep(c)
    <3>1. Effort(c)' < Effort(c) /\ Effort(c) \in Int
      BY <1>0, <1>1, <2>4
    <3>2. Effort(c)' \in Int
      <4>1. TypeOK'
        BY <2>4, CallerStepType
      <4>2. timer'[c] \in Int
        BY <4>1 DEF TypeOK
      <4> QED
        BY <4>2 DEF Effort
    <3> QED
      BY <3>1, <3>2
  <2>5. CASE ServerChanges \/ Logs \/ Obeys \/ Scan \/ Drop \/ UNCHANGED vars
    BY <2>1, <2>5 DEF ServerChanges, Logs, Obeys, Scan, Drop, vars, caller
  <2> QED
    BY <1>2, <1>3, <2>1, <2>2, <2>3, <2>4, <2>5 DEF Next, PrinterStep
<1> QED
  BY <1>1, <1>2, <1>3

(* Steps of the pipes. *)
LEMMA PendingStep ==
  ASSUME TypeOK
  PROVE  /\ \A c \in Callers : Receive(c) => Pending' < Pending
         /\ [Next]_vars /\ ~Logs /\ (\A c \in Callers : ~Write(c)) => Pending' <= Pending
<1>0. Len(stdin) \in Nat /\ Len(stdout) \in Nat
  BY MeasuresType
<1>1. ASSUME NEW c \in Callers, Receive(c) PROVE Pending' < Pending
  BY <1>0, <1>1 DEF Receive, Pending, pipes
<1>2. ASSUME [Next]_vars, ~Logs, \A c \in Callers : ~Write(c) PROVE Pending' <= Pending
  <2>1. CASE Obeys
    <3>1. players \in Lines /\ NoNumber \in Lines
      BY DEF TypeOK, Lines
    <3>2. Len(stdin') = Len(stdin) - 1
      BY <2>1, PipeLength DEF Obeys
    <3>3. stdout' = stdout \/ Len(stdout') = Len(stdout) + 1
      BY <2>1, <3>1, PipeLength DEF Obeys
    <3> QED
      BY <1>0, <2>1, <3>2, <3>3 DEF Obeys, Pending, scan
  <2>2. CASE Scan
    <3>1. Len(stdout') = Len(stdout) - 1 /\ stdin' = stdin /\ printer = "scan"
      BY <2>2, PipeLength DEF Scan
    <3> QED
      BY <1>0, <3>1 DEF Pending
  <2>3. CASE Drop
    BY <1>0, <2>3 DEF Drop, Pending, pipes
  <2>4. CASE UNCHANGED <<pipes, printer>>
    BY <1>0, <2>4 DEF Pending, pipes
  <2>5. ASSUME NEW c \in Callers, Receive(c) PROVE Pending' <= Pending
    BY <1>0, <2>5 DEF Receive, Pending, pipes
  <2>6. ASSUME NEW c \in Callers, Call(c) \/ ExecuteStep(c) PROVE UNCHANGED <<pipes, printer>>
    BY <1>2, <2>6 DEF Call, ExecuteStep, ServInfo, Check, Again, Timeout, pipes, scan
  <2>7. CASE ServerChanges \/ Tick \/ UNCHANGED vars
    BY <2>4, <2>7 DEF ServerChanges, Tick, vars, pipes, scan
  <2> QED
    BY <1>2, <2>1, <2>2, <2>3, <2>4, <2>5, <2>6, <2>7 DEF Next, PrinterStep
<1> QED
  BY <1>1, <1>2

(* A caller that hears nothing returns after at most Quiet + 4 statements and
   ticks.  Only a line that it receives sets it back, and every line received
   is one less of those under way, which only the server's own log lines and
   the commands written make more: "no output doesn't cause hanging"
   (Execute), and no output of others can be received twice. *)
THEOREM CallersAreShort ==
  Spec => [][/\ \A c \in Callers :
                  /\ ExecuteStep(c) => Effort(c)' < Effort(c)
                  /\ Tick /\ at[c] = "select" /\ timer[c] > 0 => Effort(c)' < Effort(c)
                  /\ at[c] # "rest" /\ ~Receive(c) => Effort(c)' <= Effort(c)
                  /\ Receive(c) => Pending' < Pending
                  /\ Effort(c) \in 0..(Quiet + 4)
             /\ ~Logs /\ (\A c \in Callers : ~Write(c)) => Pending' <= Pending
             /\ Pending \in Nat]_vars
<1>1. TypeOK /\ [Next]_vars =>
        [/\ \A c \in Callers :
              /\ ExecuteStep(c) => Effort(c)' < Effort(c)
              /\ Tick /\ at[c] = "select" /\ timer[c] > 0 => Effort(c)' < Effort(c)
              /\ at[c] # "rest" /\ ~Receive(c) => Effort(c)' <= Effort(c)
              /\ Receive(c) => Pending' < Pending
              /\ Effort(c) \in 0..(Quiet + 4)
         /\ ~Logs /\ (\A c \in Callers : ~Write(c)) => Pending' <= Pending
         /\ Pending \in Nat]_vars
  BY MeasuresType, EffortStep, PendingStep
<1> QED
  BY <1>1, TypeCorrect, PTL DEF Spec
=============================================================================
