-------------------------------- MODULE Query --------------------------------
(***************************************************************************)
(* The query handler of lib/conn: one goroutine that answers handshakes    *)
(* with a challenge and stats requests that bring back a good one, and the *)
(* library of challenges, each with a timer of one hour that runs beside   *)
(* it.  Requests are datagrams: any of them may be the next to be read.    *)
(***************************************************************************)
EXTENDS Integers, Sequences

CONSTANTS
  Vals,      \* challenge values
  Hour,      \* life of a challenge, in ticks
  MaxList    \* bound: a handshake is lost when so many challenges are kept

ASSUME QueryAssumption == Vals # {} /\ Hour \in Nat \ {0} /\ MaxList \in Nat

(* Requests by their length: 7 bytes; 11 or 15, which ask for the same with
   less or more detail; any other. *)
Requests == [kind : {"handshake", "stats", "other"}, val : Vals]

(* A challenge of the library, and the ticks left to its timer. *)
Challenges == [val : Vals, left : 0..Hour]

VARIABLES
  list,       \* clib.list
  at, i, req, \* statement, loop index and request of HandlerQuery
  reply,      \* what the last answer to a stats request showed
  status, suspended, majorError,  \* servstats.Stats, written by other goroutines
  valid,      \* history: ticks left to the last challenge issued with a value
  was         \* history: valid, when the request was read

stats   == <<status, suspended, majorError>>
history == <<valid, was>>
vars    == <<list, at, i, req, reply, stats, history>>

(* Every variable stays in its domain, and the index of the loop that removes
   expired challenges stays inside the list it shrinks (inLibrary). *)
TypeOK ==
  /\ req \in Requests
  /\ list \in Seq(Challenges)
  /\ at \in {"read", "gen", "clean", "search", "warm", "emulate", "dial", "ask"}
  /\ i \in 0..Len(list)
  /\ reply \in {"none", "hibernation", "starting", "", "stopping", "server"}
  /\ status \in {"offline", "starting", "online", "stopping"}
  /\ suspended \in BOOLEAN /\ majorError \in BOOLEAN
  /\ valid \in [Vals -> 0..Hour] /\ was \in [Vals -> 0..Hour]

Init ==
  /\ list = <<>> /\ at = "read" /\ i = 0 /\ req \in Requests
  /\ reply = "none"
  /\ status = "offline" /\ suspended = FALSE /\ majorError = FALSE
  /\ valid = [v \in Vals |-> 0] /\ was = valid

-----------------------------------------------------------------------------
(* The world: time, the goroutines that write Stats *)

Aged(n) == IF n > 0 THEN n - 1 ELSE 0

Tick ==
  /\ list' = [k \in DOMAIN list |-> [val |-> list[k].val, left |-> Aged(list[k].left)]]
  /\ valid' = [v \in Vals |-> Aged(valid[v])]
  /\ UNCHANGED <<at, i, req, reply, stats, was>>

Moves == {<<"offline", "starting">>, <<"starting", "online">>, <<"online", "stopping">>,
          <<"starting", "offline">>, <<"online", "offline">>, <<"stopping", "offline">>}

StatsChange ==
  /\ \/ /\ \E m \in Moves : status = m[1] /\ status' = m[2]
        /\ suspended' = FALSE /\ UNCHANGED majorError
     \/ status = "online" /\ suspended' = ~suspended /\ UNCHANGED <<status, majorError>>
     \/ majorError' = TRUE /\ UNCHANGED <<status, suspended>>
  /\ UNCHANGED <<list, at, i, req, reply, history>>

-----------------------------------------------------------------------------
(* HandlerQuery and handleRequest *)

ReadFrom ==
  /\ at = "read"
  /\ req' \in Requests
  /\ \/ req'.kind = "handshake" /\ Len(list) < MaxList /\ at' = "gen" /\ i' = 0
     \/ req'.kind = "handshake" /\ Len(list) >= MaxList /\ at' = "read" /\ i' = 0
     \/ req'.kind = "stats" /\ at' = "clean" /\ i' = Len(list)
     \/ req'.kind = "other" /\ at' = "read" /\ i' = 0
  /\ was' = valid
  /\ UNCHANGED <<list, reply, stats, valid>>

(* clib.gen: the value is random, and may be one that is still in use. *)
Gen ==
  /\ at = "gen" /\ at' = "read"
  /\ \E v \in Vals :
       /\ list' = Append(list, [val |-> v, left |-> Hour])
       /\ valid' = [valid EXCEPT ![v] = Hour]
  /\ UNCHANGED <<i, req, reply, stats, was>>

(* The list s without its element n. *)
Without(s, n) == SubSeq(s, 1, n - 1) \o SubSeq(s, n + 1, Len(s))

(* A mistaken Clean: the index is kept after a removal. *)
CleanSameIndex ==
  /\ at = "clean"
  /\ \/ i = 0 /\ at' = "search" /\ UNCHANGED <<list, i>>
     \/ i > 0 /\ list[i].left = 0 /\ list' = Without(list, i) /\ UNCHANGED <<at, i>>
     \/ i > 0 /\ list[i].left > 0 /\ i' = i - 1 /\ UNCHANGED <<at, list>>
  /\ UNCHANGED <<req, reply, stats, history>>

(* A mistaken Clean: the loop ends at the first challenge that is good. *)
CleanBreaks ==
  /\ at = "clean"
  /\ \/ i = 0 /\ at' = "search" /\ UNCHANGED <<list, i>>
     \/ i > 0 /\ list[i].left > 0 /\ at' = "search" /\ UNCHANGED <<list, i>>
     \/ i > 0 /\ list[i].left = 0 /\ list' = Without(list, i) /\ i' = i - 1 /\ UNCHANGED at
  /\ UNCHANGED <<req, reply, stats, history>>

(* A mistaken Clean: an expired challenge takes the ones behind it along. *)
CleanNext ==
  /\ at = "clean"
  /\ \/ i = 0 /\ at' = "search" /\ UNCHANGED <<list, i>>
     \/ i > 0 /\ list[i].left = 0 /\ list' = SubSeq(list, 1, i - 1) /\ i' = i - 1 /\ UNCHANGED at
     \/ i > 0 /\ list[i].left > 0 /\ i' = i - 1 /\ UNCHANGED <<at, list>>
  /\ UNCHANGED <<req, reply, stats, history>>

(* The loop of inLibrary over the list, from its end: a challenge whose timer
   has fired is removed.  Timers fire between two steps of it. *)
Clean ==
  /\ at = "clean"
  /\ \/ i = 0 /\ at' = "search" /\ UNCHANGED <<list, i>>
     \/ i > 0 /\ list[i].left = 0 /\ list' = Without(list, i) /\ i' = i - 1 /\ UNCHANGED at
     \/ i > 0 /\ list[i].left > 0 /\ i' = i - 1 /\ UNCHANGED <<at, list>>
  /\ UNCHANGED <<req, reply, stats, history>>

InLibrary(v) == \E k \in DOMAIN list : list[k].val = v

Search ==
  /\ at = "search"
  /\ i' = 0
  /\ at' = IF InLibrary(req.val) THEN "warm" ELSE "read"
  /\ UNCHANGED <<list, req, reply, stats, history>>

CheckMSWarm == status = "online" /\ ~suspended /\ ~majorError

Warm ==
  /\ at = "warm"
  /\ at' = IF CheckMSWarm THEN "dial" ELSE "emulate"
  /\ UNCHANGED <<list, i, req, reply, stats, history>>

(* statsRespBase and statsRespFull choose the text by the status they read. *)
Texts == [starting |-> "starting", online |-> "", stopping |-> "stopping"]

Emulate ==
  /\ at = "emulate" /\ at' = "read"
  /\ reply' = IF status = "offline" \/ suspended THEN "hibernation" ELSE Texts[status]
  /\ UNCHANGED <<list, i, req, stats, history>>

(* A mistaken StatsGet: no deadline is set on the connection. *)
StatsGetNoDeadline ==
  /\ \/ at = "dial" /\ status # "offline" /\ at' = "ask" /\ UNCHANGED reply
     \/ at = "ask" /\ status # "offline" /\ at' = "read" /\ reply' = "server"
  /\ UNCHANGED <<list, i, req, stats, history>>

(* statsGet: a handshake and a stats request to the server, which answers, if
   it still can, within the deadline of one second. *)
StatsGet ==
  /\ \/ at = "dial" /\ status # "offline" /\ at' = "ask" /\ UNCHANGED reply
     \/ at = "ask" /\ status # "offline" /\ at' = "read" /\ reply' = "server"
     \/ at \in {"dial", "ask"} /\ at' = "read" /\ UNCHANGED reply
  /\ UNCHANGED <<list, i, req, stats, history>>

Handle == ReadFrom \/ Gen \/ Clean \/ Search \/ Warm \/ Emulate \/ StatsGet

Next == Tick \/ StatsChange \/ Handle

Spec == Init /\ [][Next]_vars

(* The Go scheduler runs the goroutine, and the deadline of a read passes. *)
FairSpec == Spec /\ WF_vars(Handle)
-----------------------------------------------------------------------------
(* Properties *)

(* A stats request is answered only if its challenge was issued less than an
   hour before the request was read, and refused only if it was not
   (inLibrary): removals in the loop neither skip nor lose a challenge. *)
ChecksChallenges ==
  [][Search => IF at' = "warm" THEN was[req.val] > 0 ELSE valid[req.val] = 0]_vars

(* A challenge is kept for its hour, whatever is removed around it. *)
KeepsChallenges ==
  \A v \in Vals : valid[v] > 0 => \E k \in DOMAIN list : list[k] = [val |-> v, left |-> valid[v]]

(* The handler always comes back to read the next request: a server that does
   not answer a query costs at most the deadline (statsGet). *)
AlwaysServes == []<>(at = "read")
=============================================================================
