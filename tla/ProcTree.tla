------------------------------- MODULE ProcTree -------------------------------
(***************************************************************************)
(* lib/opsys on windows, where there are no process groups: a signal takes *)
(* a snapshot of the processes, works out the tree below the java process  *)
(* from their parent ids (getTreePids) and goes through it one by one.     *)
(* Windows counts suspensions: what was suspended twice runs only when it  *)
(* was resumed twice.                                                      *)
(*                                                                         *)
(* The server is online, and one call of lib/opsys is made at a time;      *)
(* ServCtrl has calls that overlap and the other statuses.                 *)
(***************************************************************************)
EXTENDS Integers, FiniteSets

CONSTANTS
  Pids,      \* process ids
  Root,      \* ServTerm.cmd.Process.Pid
  NoPid,     \* the parent of a process that has none
  MaxCount   \* the highest suspend count windows allows

ASSUME ProcTreeAssumption ==
  /\ IsFiniteSet(Pids) /\ Root \in Pids /\ NoPid \notin Pids /\ MaxCount \in Nat

VARIABLES
  alive,     \* processes
  parent,    \* parent[p]: the id of the process that made p, which may have ended
  count,     \* count[p]: how often p is suspended
  suspended, \* Stats.Suspended
  armed,     \* the freeze timer is armed
  woke,      \* suspendRefresher is between its WarmMS and its FreezeMS
  at, job,   \* statement and purpose of the call of lib/opsys
  snap,      \* the snapshot: the parents of the processes in it
  gen,       \* treePids as a function: the index of the first of a generation
  layer,     \* parentLayer
  todo,      \* processes of treePids that were not signalled yet
  flaws      \* history: what msh does not handle and has happened (see Flaws)

kernel == <<alive, parent, count>>
caller == <<armed, woke>>
call   == <<at, job, snap, gen, layer, todo>>
vars   == <<kernel, suspended, caller, call, flaws>>

Jobs == {"suspend", "resume", "warm", "kill"}

(* A call has stopped half way, at a process that has ended; a process that is
   suspended was suspended again. *)
Flaws == {"half suspend", "half resume", "twice"}

Snapshots == UNION {[S -> Pids \cup {NoPid}] : S \in SUBSET Pids}

Tree == DOMAIN gen   \* treePids

(* Every variable stays in its domain: the loop never leaves the list of
   processes it has collected. *)
TypeOK ==
  /\ alive \subseteq Pids /\ parent \in [Pids -> Pids \cup {NoPid}]
  /\ count \in [Pids -> 0..MaxCount]
  /\ suspended \in BOOLEAN /\ armed \in BOOLEAN /\ woke \in BOOLEAN /\ flaws \subseteq Flaws
  /\ at \in {"rest", "snapshot", "grow", "signal"} /\ job \in Jobs
  /\ snap \in Snapshots
  /\ Tree \subseteq Pids /\ gen \in [Tree -> Nat]
  /\ layer \subseteq Tree /\ todo \subseteq Tree

NoTree == [p \in {} |-> 0]

(* The server is online, and WarmMS has armed the timer.  Any process may run
   beside it and name any parent. *)
Init ==
  /\ alive \in {S \in SUBSET Pids : Root \in S} /\ parent \in [Pids -> Pids \cup {NoPid}]
  /\ \A p \in Pids : p \notin alive => parent[p] = NoPid
  /\ count = [p \in Pids |-> 0]
  /\ suspended = FALSE /\ armed = TRUE /\ woke = FALSE /\ flaws = {}
  /\ at = "rest" /\ job = "resume"
  /\ snap = [p \in {} |-> NoPid] /\ gen = NoTree /\ layer = {} /\ todo = {}
-----------------------------------------------------------------------------
(* The processes *)

(* Ids are used again, but not within the microseconds of a call. *)
Fork(p) ==
  /\ p \in alive /\ count[p] = 0
  /\ \E q \in Pids \ (alive \cup DOMAIN snap \cup {Root}) :
       /\ alive' = alive \cup {q}
       /\ parent' = [parent EXCEPT ![q] = p]
  /\ UNCHANGED <<count, suspended, caller, call, flaws>>

(* A process that is suspended does not end by itself. *)
End(p) ==
  /\ p \in alive /\ count[p] = 0
  /\ alive' = alive \ {p}
  /\ parent' = [parent EXCEPT ![p] = NoPid]
  /\ UNCHANGED <<count, suspended, caller, call, flaws>>
-----------------------------------------------------------------------------
(* Who calls *)

Call(j) == at = "rest" /\ at' = "snapshot" /\ job' = j

(* A client joins: WarmMS. *)
WarmMS ==
  /\ Call("warm")
  /\ UNCHANGED <<kernel, suspended, caller, snap, gen, layer, todo, flaws>>

(* FreezeMS(false): it counts the players and suspends, or it gives up. *)
SoftFreeze ==
  \/ Call("suspend")
  \/ at = "rest" /\ UNCHANGED <<at, job>>

FreezeTimer ==
  /\ armed /\ armed' = FALSE
  /\ SoftFreeze
  /\ UNCHANGED <<kernel, suspended, woke, snap, gen, layer, todo, flaws>>

(* suspendRefresher warms the server and softly freezes it a second later,
   whatever WarmMS has returned. *)
RefreshWarm ==
  /\ suspended /\ ~woke /\ woke' = TRUE
  /\ Call("warm")
  /\ UNCHANGED <<kernel, suspended, armed, snap, gen, layer, todo, flaws>>

RefreshFreeze ==
  /\ woke /\ woke' = FALSE
  /\ SoftFreeze
  /\ UNCHANGED <<kernel, suspended, armed, snap, gen, layer, todo, flaws>>

(* FreezeMS(true) resumes; the server may not obey and is killed. *)
ForceFreeze ==
  /\ Call("resume") \/ Call("kill")
  /\ UNCHANGED <<kernel, suspended, caller, snap, gen, layer, todo, flaws>>

Caller == WarmMS \/ FreezeTimer \/ RefreshWarm \/ RefreshFreeze \/ ForceFreeze
-----------------------------------------------------------------------------
(* getTreePids *)

Fails ==
  /\ at' = "rest"
  /\ suspended' = IF job = "kill" THEN suspended ELSE job # "suspend"
  /\ snap' = [p \in {} |-> NoPid] /\ gen' = NoTree /\ layer' = {} /\ todo' = {}
  /\ UNCHANGED <<kernel, caller, job>>

Snapshot ==
  /\ at = "snapshot" /\ at' = "grow"
  /\ snap' = [p \in alive |-> parent[p]]
  /\ gen' = [p \in {Root} |-> 0] /\ layer' = {Root} /\ todo' = {}
  /\ UNCHANGED <<kernel, suspended, caller, job, flaws>>

(* Mistaken generations: one that starts at the root every time, and one that
   does not ask whether a process is there already. *)
NextOfRoot(l) == {p \in DOMAIN snap : snap[p] = Root} \ Tree
NextAgain(l)  == {p \in DOMAIN snap : snap[p] \in l}

NextLayer(l) == {p \in DOMAIN snap : snap[p] \in l} \ Tree

(* A mistaken Extended: the new layer is not appended. *)
NotExtended(l) == gen

Extended(l) ==
  [p \in Tree \cup l |-> IF p \in Tree THEN gen[p] ELSE Cardinality(Tree)]

Grow ==
  /\ at = "grow" /\ Root \in DOMAIN snap
  /\ layer' = NextLayer(layer)
  /\ gen' = Extended(layer')
  /\ IF layer' = {} THEN at' = "signal" /\ todo' = Tree ELSE UNCHANGED <<at, todo>>
  /\ UNCHANGED <<kernel, suspended, caller, job, snap, flaws>>

NotFound == at = "grow" /\ Root \notin DOMAIN snap /\ Fails /\ UNCHANGED flaws
-----------------------------------------------------------------------------
(* procTreeSuspend, procTreeResume and procTreeKill *)

(* A mistaken IsNext: the tree is gone through from its leaves. *)
IsLast(p) == p \in todo /\ \A q \in todo : gen[p] >= gen[q]

IsNext(p) == p \in todo /\ \A q \in todo : gen[p] <= gen[q]

Resumes == job \in {"resume", "warm"}

Signal(p) ==
  /\ at = "signal" /\ job # "kill" /\ IsNext(p) /\ p \in alive
  /\ IF Resumes
     THEN count' = [count EXCEPT ![p] = IF @ = 0 THEN 0 ELSE @ - 1]
     ELSE count[p] < MaxCount /\ count' = [count EXCEPT ![p] = @ + 1]
  /\ todo' = todo \ {p}
  /\ flaws' = IF ~Resumes /\ count[p] > 0 THEN flaws \cup {"twice"} ELSE flaws
  /\ UNCHANGED <<alive, parent, suspended, caller, at, job, snap, gen, layer>>

(* The process is gone, or its count is at the limit: the call ends there. *)
Refused(p) ==
  /\ at = "signal" /\ job # "kill" /\ IsNext(p)
  /\ p \notin alive \/ (~Resumes /\ count[p] = MaxCount)
  /\ flaws' = flaws \cup (IF p \in alive THEN {"twice"} ELSE IF p = Root THEN {}
                         ELSE IF Resumes THEN {"half resume"} ELSE {"half suspend"})
  /\ Fails

(* Processes are killed in the order of a second list; who is gone is not in it. *)
Kill(p) ==
  /\ at = "signal" /\ job = "kill" /\ p \in todo
  /\ alive' = alive \ {p} /\ count' = [count EXCEPT ![p] = 0]
  /\ parent' = [parent EXCEPT ![p] = NoPid]
  /\ todo' = todo \ {p}
  /\ UNCHANGED <<suspended, caller, at, job, snap, gen, layer, flaws>>

(* A mistaken Done: a warm leaves the flag to the refresher. *)
DoneOfWarm ==
  /\ at = "signal" /\ todo = {} /\ at' = "rest"
  /\ suspended' = IF job \in {"kill", "warm"} THEN suspended ELSE job = "suspend"
  /\ armed' = (armed \/ job = "warm")
  /\ snap' = [p \in {} |-> NoPid] /\ gen' = NoTree /\ layer' = {}
  /\ UNCHANGED <<kernel, woke, job, todo, flaws>>

(* WarmMS schedules a freeze after it has resumed. *)
Done ==
  /\ at = "signal" /\ todo = {} /\ at' = "rest"
  /\ suspended' = IF job = "kill" THEN suspended ELSE job = "suspend"
  /\ armed' = (armed \/ job = "warm")
  /\ snap' = [p \in {} |-> NoPid] /\ gen' = NoTree /\ layer' = {}
  /\ UNCHANGED <<kernel, woke, job, todo, flaws>>

CallStep ==
  \/ Snapshot \/ Grow \/ NotFound \/ Done
  \/ \E p \in Pids : Signal(p) \/ Refused(p) \/ Kill(p)

Next == Caller \/ CallStep \/ \E p \in Pids : Fork(p) \/ End(p)

Spec == Init /\ [][Next]_vars

(* The goroutine that calls runs; no process has to do anything. *)
FairSpec == Spec /\ WF_vars(CallStep)
-----------------------------------------------------------------------------
(* Properties *)

(* The smallest set of processes that holds Root and the children of its members. *)
Descendants(parents) ==
  {p \in Pids : \A S \in SUBSET Pids :
     Root \in S /\ (\A q \in DOMAIN parents : parents[q] \in S => q \in S) => p \in S}

(* "getTreePids will return a list of pids that represent the tree of process
   pids originating from the specified one" (opsys-windows.go:155): whatever ids
   the processes name as their parents, circles included. *)
TreeIsWhole == at = "signal" => Tree = Descendants(snap)

(* getTreePids does not run in circles (opsys-windows.go:191). *)
CallsEnd == at # "rest" ~> at = "rest"

Found == IF Root \in alive THEN Descendants([p \in alive |-> parent[p]]) ELSE {}

(* Parents are signalled before their children, so that a process that is
   suspended never loses its way to the root, and the next resume finds it; the
   exception is a resume that stops half way, at a process that has ended
   (opsys-windows.go:115-120). *)
SuspendedAreFound == at = "rest" => \A p \in alive : count[p] > 0 => "half resume" \in flaws \/ p \in Found

(* Stats.Suspended tells whether the process is suspended ("status of minecraft
   server process", servstats.go:27), whoever has signalled it in what order,
   unless a call has stopped half way or a suspended process was suspended again:
   windows counts suspensions, msh does not (opsys-windows.go:58). *)
FlagIsTrue == at = "rest" /\ Root \in alive /\ flaws = {} => (suspended <=> count[Root] > 0)

=============================================================================
