------------------------------ MODULE Lifecycle ------------------------------
(***************************************************************************)
(* What msh promises about the minecraft server it controls: at most one   *)
(* java process lives, and the published status follows its life in order. *)
(***************************************************************************)
EXTENDS Integers

CONSTANT Instances

VARIABLES
  state,   \* the status msh publishes
  live     \* the java processes that are alive

States == {"offline", "starting", "online", "stopping"}

Init == state = "offline" /\ live = {}

(* A server is launched only when none lives and none is published. *)
Launch ==
  /\ state = "offline" /\ live = {}
  /\ \E i \in Instances : live' = {i}
  /\ UNCHANGED state

Publish(from, to) == state = from /\ state' = to /\ UNCHANGED live

(* The process may end at any time. *)
Die == live # {} /\ live' = {} /\ UNCHANGED state

(* The end is published only when the process has ended. *)
Offline == state # "offline" /\ live = {} /\ state' = "offline" /\ UNCHANGED live

Next ==
  \/ Launch \/ Die \/ Offline
  \/ Publish("offline", "starting")
  \/ Publish("starting", "online")
  \/ Publish("online", "stopping")

Spec == Init /\ [][Next]_<<state, live>>
=============================================================================
