--------------------------- MODULE MinecraftServer ---------------------------
(***************************************************************************)
(* The java process msh controls, seen from the outside.  msh starts it    *)
(* with exec.Cmd, signals its process group, writes commands to its stdin, *)
(* reads log lines from its stdout and relays players to its TCP port.     *)
(* Nothing of it is under src/: every action below is what the code of     *)
(* lib/servctrl and lib/conn relies on.                                    *)
(***************************************************************************)
EXTENDS Integers, Sequences

CONSTANTS
  Clients,      \* game clients that may join through msh
  MaxStarts,    \* bound: how many times the java process is started
  MaxPipe,      \* bound: log lines in the stdout pipe msh has not read yet
  Faults        \* what may go wrong: a subset of FaultKinds

FaultKinds == {"crash", "selfstop", "hang", "startfail"}
Instances  == 1..MaxStarts
Lines      == {"done", "lost", "stopping", "unresponsive"}

ASSUME ServerAssumption ==
  /\ MaxStarts \in Nat \ {0}
  /\ MaxPipe \in Nat \ {0}
  /\ Faults \subseteq FaultKinds

VARIABLES
  proc,      \* proc[i]: "none", "unstarted" (cmd built), "alive", "failed", "dead"
  frozen,    \* instances whose process group is stopped
  phase,     \* phase[i]: "boot", "up", "down" (shutting down), "hung"
  stopCmd,   \* instances that have a "stop" to read on stdin
  out,       \* out[i]: the stdout pipe
  link,      \* link[c]: instance the proxy of client c is connected to, or 0
  players    \* players[i]: clients in the game of instance i

serverVars == <<proc, frozen, phase, stopCmd, out, link, players>>

ServerTypeOK ==
  /\ proc \in [Instances -> {"none", "unstarted", "alive", "failed", "dead"}]
  /\ frozen \in SUBSET Instances
  /\ phase \in [Instances -> {"boot", "up", "down", "hung"}]
  /\ stopCmd \in SUBSET Instances
  /\ out \in [Instances -> Seq(Lines)]
  /\ link \in [Clients -> Instances \cup {0}]
  /\ players \in [Instances -> SUBSET Clients]

ServerInit ==
  /\ proc = [i \in Instances |-> "none"]
  /\ frozen = {}
  /\ phase = [i \in Instances |-> "boot"]
  /\ stopCmd = {}
  /\ out = [i \in Instances |-> <<>>]
  /\ link = [c \in Clients |-> 0]
  /\ players = [i \in Instances |-> {}]

Alive(i)   == proc[i] = "alive"
Running(i) == Alive(i) /\ i \notin frozen

(* A frozen process does nothing; a full pipe blocks the writer. *)
Logs(i, line) ==
  /\ Running(i)
  /\ Len(out[i]) < MaxPipe
  /\ out' = [out EXCEPT ![i] = Append(@, line)]

(* What the end of process i leaves behind, however it comes. *)
Dies(i) ==
  /\ proc' = [proc EXCEPT ![i] = "dead"]
  /\ frozen' = frozen \ {i}
  /\ stopCmd' = stopCmd \ {i}
  /\ players' = [players EXCEPT ![i] = {}]
  /\ UNCHANGED <<phase, out, link>>

-----------------------------------------------------------------------------
(* The world is loaded: "Done (...)!" is logged and players are admitted. *)
Boot(i) ==
  /\ phase[i] = "boot"
  /\ Logs(i, "done")
  /\ phase' = [phase EXCEPT ![i] = "up"]
  /\ UNCHANGED <<proc, frozen, stopCmd, link, players>>

(* The server reads the stop command. *)
Obey(i) ==
  /\ phase[i] = "up"
  /\ i \in stopCmd
  /\ Logs(i, "stopping")
  /\ phase' = [phase EXCEPT ![i] = "down"]
  /\ UNCHANGED <<proc, frozen, stopCmd, link, players>>

(* A shutdown msh did not order: an operator in the game, a plugin. *)
SelfStop(i) ==
  /\ "selfstop" \in Faults
  /\ phase[i] = "up"
  /\ Logs(i, "stopping")
  /\ phase' = [phase EXCEPT ![i] = "down"]
  /\ UNCHANGED <<proc, frozen, stopCmd, link, players>>

(* The shutdown completes. *)
Exit(i) ==
  /\ Running(i)
  /\ phase[i] = "down"
  /\ Dies(i)

Crash(i) ==
  /\ "crash" \in Faults
  /\ Running(i)
  /\ Dies(i)

(* The game loop blocks, seen by the watchdog of the server or not. *)
Hang(i) ==
  /\ "hang" \in Faults
  /\ phase[i] = "up"
  /\ Running(i)
  /\ phase' = [phase EXCEPT ![i] = "hung"]
  /\ \/ Logs(i, "unresponsive")
     \/ UNCHANGED out
  /\ UNCHANGED <<proc, frozen, stopCmd, link, players>>

(* The client behind a proxied connection completes its login. *)
Admit(i, c) ==
  /\ Running(i)
  /\ phase[i] = "up"
  /\ link[c] = i
  /\ c \notin players[i]
  /\ players' = [players EXCEPT ![i] = @ \cup {c}]
  /\ UNCHANGED <<proc, frozen, phase, stopCmd, out, link>>

(* The server notices that the connection of a player is closed. *)
Drop(i, c) ==
  /\ phase[i] = "up"
  /\ c \in players[i]
  /\ link[c] # i
  /\ Logs(i, "lost")
  /\ players' = [players EXCEPT ![i] = @ \ {c}]
  /\ UNCHANGED <<proc, frozen, phase, stopCmd, link>>

Faulty(i) == SelfStop(i) \/ Crash(i) \/ Hang(i)

ServerNext ==
  \E i \in Instances :
    \/ Boot(i) \/ Obey(i) \/ Exit(i) \/ Faulty(i)
    \/ \E c \in Clients : Admit(i, c) \/ Drop(i, c)
=============================================================================
