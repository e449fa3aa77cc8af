------------------------------ MODULE ClientConn ------------------------------
(***************************************************************************)
(* lib/conn: what happens to a client from Accept to the end of its        *)
(* connection.  HandlerClientConn finds out what the client wants, answers *)
(* itself while the server sleeps, or warms the server and opens a proxy   *)
(* of two forwardTCP goroutines.                                           *)
(*                                                                         *)
(* A Read returns any packet the client may have sent, or an error.  The   *)
(* server is seen through Lifecycle, and WarmMS is one step (ServCtrl has  *)
(* its detail, that of the freeze timer and the launch of a second one).   *)
(***************************************************************************)
EXTENDS MsgHeader

CONSTANTS
  Servers,       \* java processes, for Lifecycle
  Clients,       \* client connections
  Listed,        \* clients in Msh.Whitelist
  Imported,      \* clients in the whitelist.json of the server
  WhitelistOn,   \* Msh.Whitelist is not empty or Msh.WhitelistImport is set
  SuspendAllow,  \* Msh.SuspendAllow
  Faults,        \* what may happen: a subset of AllFaults
  Lengths        \* Lengths[k]: lengths the JSON of a reply of kind k may have

AllFaults == {"crash", "startfail", "major"}
Kinds     == {"info", "text"}   \* the status with the icon, a text to show

ASSUME ClientConnAssumption ==
  /\ Servers # {}
  /\ Listed \subseteq Clients /\ Imported \subseteq Clients
  /\ {WhitelistOn, SuspendAllow} \subseteq BOOLEAN
  /\ Faults \subseteq AllFaults
  /\ Lengths \in [Kinds -> SUBSET Nat]

VARIABLES
  state, live,            \* Stats.Status and the java processes, as in Lifecycle
  suspended, majorError,  \* servstats.Stats
  connCount,              \* servstats.Stats.ConnCount
  here,     \* clients that have not closed their end
  conn,     \* conn[c]: the end of msh: "none", "open" or "closed"
  at,       \* at[c]: statement of the HandlerClientConn of c
  req,      \* req[c]: the request type
  seen,     \* seen[c]: the status the handler of a JOIN decided by
  reply,    \* reply[c]: the kind of the last message msh wrote itself, or "none"
  sock,     \* sock[c]: the connection to the server: "none", "open" or "closed"
  reach,    \* clients whose sock has a living process at its other end
  fwd,      \* fwd[c][d]: the forwardTCP of c in direction d; the one that
            \* counts relays in "play"
  num       \* num[c]: ConnCount as loaded by ConnCount++ or ConnCount--

server  == <<state, live, suspended, majorError, connCount>>
client  == <<here, conn, at, req, seen, reply>>
proxy   == <<sock, reach, fwd, num>>
vars    == <<server, client, proxy>>

Life == INSTANCE Lifecycle WITH Instances <- Servers

Directions == {"up", "down"}   \* client --> server, server --> client
Ats  == {"idle", "type", "type2", "decide", "ping", "ping2", "listed",
         "warm", "rewarm", "dial"}
Fwds == {"none", "relay", "inc", "store+", "play", "dec", "store-"}
TcpStates == {"none", "open", "closed"}

(* Every variable stays in its domain; only the direction from the server to
   the client ever counts (conn.go:219). *)
TypeOK ==
  /\ state \in Life!States /\ live \in SUBSET Servers
  /\ suspended \in BOOLEAN /\ majorError \in BOOLEAN /\ connCount \in Int
  /\ here \in SUBSET Clients /\ conn \in [Clients -> TcpStates]
  /\ at \in [Clients -> Ats] /\ req \in [Clients -> {"none", "info", "join"}]
  /\ seen \in [Clients -> Life!States] /\ reply \in [Clients -> Kinds \cup {"none"}]
  /\ sock \in [Clients -> TcpStates] /\ reach \in SUBSET Clients
  /\ fwd \in [Clients -> [up : {"none", "relay"}, down : Fwds]] /\ num \in [Clients -> Int]

Init ==
  /\ Life!Init /\ suspended = FALSE /\ majorError = FALSE /\ connCount = 0
  /\ here = {} /\ conn = [c \in Clients |-> "none"]
  /\ at = [c \in Clients |-> "idle"] /\ req = [c \in Clients |-> "none"]
  /\ seen = [c \in Clients |-> "offline"] /\ reply = [c \in Clients |-> "none"]
  /\ sock = [c \in Clients |-> "none"] /\ reach = {}
  /\ fwd = [c \in Clients |-> [d \in Directions |-> "none"]]
  /\ num = [c \in Clients |-> 0]

Goto(c, a) == at' = [at EXCEPT ![c] = a]
Write(c, k) == reply' = [reply EXCEPT ![c] = k]
Close(c)   == conn' = [conn EXCEPT ![c] = "closed"]
Proxied(c) == \E d \in Directions : fwd[c][d] # "none"

(* The handler returns, with or without a deferred Close. *)
Return(c) ==
  /\ Goto(c, "idle")
  /\ req' = [req EXCEPT ![c] = "none"] /\ seen' = [seen EXCEPT ![c] = "offline"]

ReturnAndClose(c) == Return(c) /\ Close(c)

-----------------------------------------------------------------------------
(* The server, and who else changes its state *)

PublishStarting ==
  /\ live # {}
  /\ Life!Publish("offline", "starting")
  /\ connCount' = 0 /\ suspended' = FALSE
  /\ UNCHANGED <<majorError, client, proxy>>

PublishOnlineOrStopping ==
  /\ Life!Publish("starting", "online") \/ Life!Publish("online", "stopping")
  /\ UNCHANGED <<suspended, majorError, connCount, client, proxy>>

(* The kernel closes the server's end of its connections. *)
Die ==
  /\ state = "stopping" \/ (state # "offline" /\ "crash" \in Faults)
  /\ Life!Die
  /\ reach' = {}
  /\ UNCHANGED <<suspended, majorError, connCount, client, sock, fwd, num>>

PublishOffline ==
  /\ Life!Offline
  /\ connCount' = 0 /\ suspended' = FALSE
  /\ UNCHANGED <<majorError, client, proxy>>

(* A soft freeze suspends the process, a refresh or a stop resumes it. *)
SuspendOrResume ==
  /\ SuspendAllow /\ state = "online" /\ live # {}
  /\ suspended' = ~suspended
  /\ UNCHANGED <<state, live, majorError, connCount, client, proxy>>

SetMajorError ==
  /\ "major" \in Faults
  /\ majorError' = TRUE
  /\ UNCHANGED <<state, live, suspended, connCount, client, proxy>>

ServerStep ==
  \/ PublishStarting \/ PublishOnlineOrStopping \/ Die \/ PublishOffline
  \/ SuspendOrResume \/ SetMajorError

(* A resume that is denied sets Stats.Suspended, a start that fails sets
   MajorError. *)
WarmMS(ok) ==
  /\ UNCHANGED connCount
  /\ \/ majorError /\ ~ok /\ UNCHANGED <<state, live, suspended, majorError>>
     \/ /\ ~majorError /\ state = "offline" /\ ok
        /\ suspended' = FALSE
        /\ IF live = {} THEN Life!Launch ELSE UNCHANGED <<state, live>>
        /\ UNCHANGED majorError
     \/ /\ ~majorError /\ state = "offline" /\ ~ok /\ "startfail" \in Faults
        /\ suspended' = FALSE /\ majorError' = TRUE
        /\ UNCHANGED <<state, live>>
     \/ /\ ~majorError /\ state # "offline"
        /\ ok \/ (SuspendAllow /\ live = {})
        /\ suspended' = IF SuspendAllow THEN ~ok ELSE suspended
        /\ UNCHANGED <<state, live, majorError>>

(* "start" at the console. *)
ConsoleStart == \E ok \in BOOLEAN : WarmMS(ok) /\ UNCHANGED <<client, proxy>>

-----------------------------------------------------------------------------
(* The client *)

(* A connection is accepted once: Clients bounds their number. *)
Accept(c) ==
  /\ conn[c] = "none"
  /\ here' = here \cup {c}
  /\ conn' = [conn EXCEPT ![c] = "open"]
  /\ Goto(c, "type")
  /\ UNCHANGED <<server, req, seen, reply, proxy>>

Leave(c) ==
  /\ c \in here /\ conn[c] = "open"
  /\ here' = here \ {c}
  /\ UNCHANGED <<server, conn, at, req, seen, reply, proxy>>

(* net.Conn has a finalizer: the garbage collector closes a connection that
   nobody refers to. *)
Collect(c) ==
  /\ conn[c] = "open" /\ at[c] = "idle" /\ ~Proxied(c)
  /\ Close(c)
  /\ UNCHANGED <<server, here, at, req, seen, reply, proxy>>

-----------------------------------------------------------------------------
(* HandlerClientConn *)

(* A mistaken ReadFails: no deadline is set. *)
ReadFailsIfGone(c) ==
  /\ c \notin here
  /\ at[c] \in {"type", "type2", "ping", "ping2"}
  /\ IF at[c] \in {"type", "type2"} THEN Return(c) /\ UNCHANGED conn ELSE ReturnAndClose(c)
  /\ UNCHANGED <<server, here, reply, proxy>>

(* getClientPacket: a Read ends in an error, after a second at the latest. *)
ReadFails(c) ==
  /\ at[c] \in {"type", "type2", "ping", "ping2"}
  /\ IF at[c] \in {"type", "type2"} THEN Return(c) /\ UNCHANGED conn ELSE ReturnAndClose(c)
  /\ UNCHANGED <<server, here, reply, proxy>>

(* getReqType: a JOIN may come in one packet or in two; an unknown first packet
   ends the handler, which closes nothing. *)
ReqType(c) ==
  /\ c \in here
  /\ \/ /\ at[c] = "type"
        /\ \E r \in {"info", "join"} : req' = [req EXCEPT ![c] = r]
        /\ Goto(c, "decide")
        /\ UNCHANGED seen
     \/ /\ at[c] = "type"
        /\ req' = [req EXCEPT ![c] = "join"]
        /\ Goto(c, "type2")
        /\ UNCHANGED seen
     \/ at[c] = "type2" /\ Goto(c, "decide") /\ UNCHANGED <<req, seen>>
     \/ at[c] = "type" /\ Return(c)
  /\ UNCHANGED <<server, here, conn, reply, proxy>>

(* buildMessage answers in the format of the request. *)
ReplyTo(c) == IF req[c] = "info" THEN "info" ELSE "text"

(* The test of an INFO. *)
Sleeps == state # "online" \/ suspended

(* A mistaken WantsStart: a booting server is taken for an online one. *)
WantsStartAtRest == state \in {"offline", "stopping"}

(* The test of a JOIN. *)
WantsStart == state # "online"

Decide(c) ==
  /\ at[c] = "decide"
  /\ \/ /\ majorError
        /\ Write(c, ReplyTo(c))
        /\ IF req[c] = "info" THEN Goto(c, "ping") /\ UNCHANGED <<conn, req, seen>>
           ELSE ReturnAndClose(c)
     \/ /\ ~majorError /\ req[c] = "info"
        /\ IF Sleeps THEN Goto(c, "ping") /\ Write(c, "info") ELSE Goto(c, "dial") /\ UNCHANGED reply
        /\ UNCHANGED <<conn, req, seen>>
     \/ /\ ~majorError /\ req[c] = "join"
        /\ seen' = [seen EXCEPT ![c] = state]
        /\ Goto(c, IF WantsStart THEN "listed" ELSE "rewarm")
        /\ UNCHANGED <<conn, req, reply>>
  /\ UNCHANGED <<server, here, proxy>>

(* getPing: the ping comes in one packet or in two; an unknown packet ends the
   handler like an answer does. *)
Ping(c) ==
  /\ c \in here
  /\ \/ at[c] = "ping" /\ Goto(c, "ping2") /\ UNCHANGED <<conn, req, seen>>
     \/ at[c] \in {"ping", "ping2"} /\ ReturnAndClose(c)
  /\ UNCHANGED <<server, here, reply, proxy>>

(* What the whitelists say of c: whitelist.json may be unreadable. *)
IsWhitelist(c) ==
  IF ~WhitelistOn \/ c \in Listed THEN {TRUE}
  ELSE IF c \in Imported THEN {TRUE, FALSE} ELSE {FALSE}

Whitelist(c) ==
  /\ at[c] = "listed"
  /\ \E ok \in IsWhitelist(c) :
       IF ok THEN Goto(c, "warm") /\ UNCHANGED <<conn, req, seen, reply>>
       ELSE Write(c, "text") /\ ReturnAndClose(c)
  /\ UNCHANGED <<server, here, proxy>>

Warm(c) ==
  /\ at[c] = "warm"
  /\ \E ok \in BOOLEAN : WarmMS(ok)
  /\ Write(c, "text")
  /\ ReturnAndClose(c)
  /\ UNCHANGED <<here, proxy>>

(* The branch of a server that was seen online: no whitelist, and a failed
   WarmMS returns without closing. *)
Rewarm(c) ==
  /\ at[c] = "rewarm"
  /\ \/ WarmMS(TRUE) /\ Goto(c, "dial") /\ UNCHANGED <<req, seen, reply>>
     \/ WarmMS(FALSE) /\ Write(c, "text") /\ Return(c)
  /\ UNCHANGED <<here, conn, proxy>>

(* openProxy: a server listens some time before it is online; when it cannot be
   dialled the handler returns and closes nothing. *)
Dial(c) ==
  /\ at[c] = "dial"
  /\ Return(c)
  /\ \/ /\ live # {} /\ state # "offline"
        /\ sock' = [sock EXCEPT ![c] = "open"]
        /\ reach' = reach \cup {c}
        /\ fwd' = [fwd EXCEPT ![c] =
             [up |-> "relay", down |-> IF req[c] = "join" THEN "inc" ELSE "relay"]]
        /\ UNCHANGED reply
     \/ Write(c, "text") /\ UNCHANGED <<sock, reach, fwd>>
  /\ UNCHANGED <<server, here, conn, num>>

Packet(c) == ReqType(c) \/ Ping(c)

Handles(c) == Decide(c) \/ Whitelist(c) \/ Warm(c) \/ Rewarm(c) \/ Dial(c)

HandlerStep(c) == Packet(c) \/ ReadFails(c) \/ Handles(c)

-----------------------------------------------------------------------------
(* forwardTCP *)

Forward(c, d, from, to) == fwd[c][d] = from /\ fwd' = [fwd EXCEPT ![c][d] = to]

(* ConnCount++ and ConnCount-- load and store without a lock; the deferred
   function then schedules a freeze. *)
LoadConnCount(c) ==
  /\ Forward(c, "down", "inc", "store+") \/ Forward(c, "down", "dec", "store-")
  /\ num' = [num EXCEPT ![c] = connCount]
  /\ UNCHANGED <<server, client, sock, reach>>

StoreConnCount(c) ==
  /\ \/ Forward(c, "down", "store+", "play") /\ connCount' = num[c] + 1
     \/ Forward(c, "down", "store-", "none") /\ connCount' = num[c] - 1
  /\ num' = [num EXCEPT ![c] = 0]
  /\ UNCHANGED <<state, live, suspended, majorError, client, sock, reach>>

(* Bytes cannot go on between the two ends: one of them is closed. *)
Broken(c) == c \notin here \/ c \notin reach \/ conn[c] = "closed" \/ sock[c] = "closed"

(* A mistaken Ends: both directions have the deferred call. *)
EndsCounting(c, d) == Forward(c, d, "relay", "dec") \/ Forward(c, d, "play", "dec")

(* The goroutine returns; the one that counts still has its deferred call. *)
Ends(c, d) == Forward(c, d, "relay", "none") \/ Forward(c, d, "play", "dec")

(* A mistaken HangUp: the direction that fails closes nothing. *)
HangUpQuietly(c, d) ==
  /\ Ends(c, d)
  /\ UNCHANGED <<server, client, sock, reach, num>>

(* Read or Write fails, or ten seconds pass without data. *)
HangUp(c, d) ==
  /\ Ends(c, d)
  /\ Close(c)
  /\ sock' = [sock EXCEPT ![c] = "closed"]
  /\ reach' = reach \ {c}
  /\ UNCHANGED <<server, here, at, req, seen, reply, num>>

-----------------------------------------------------------------------------
Next ==
  \/ ServerStep \/ ConsoleStart
  \/ \E c \in Clients :
       \/ Accept(c) \/ Leave(c) \/ Collect(c) \/ HandlerStep(c)
       \/ LoadConnCount(c) \/ StoreConnCount(c)
       \/ \E d \in Directions : HangUp(c, d)

Spec == Init /\ [][Next]_vars

(* The Go scheduler runs every goroutine, a Read of a handler fails within a
   second if no packet comes, and a direction whose ends are closed or gone
   fails within ten seconds.  Nobody has to come, to send or to leave, and the server
   need not live. *)
Fairness ==
  \A c \in Clients :
    /\ WF_vars(ReadFails(c)) /\ WF_vars(Handles(c))
    /\ WF_vars(LoadConnCount(c)) /\ WF_vars(StoreConnCount(c))
    /\ \A d \in Directions : WF_vars(Broken(c) /\ HangUp(c, d))

FairSpec == Spec /\ Fairness
-----------------------------------------------------------------------------
(* Properties *)

(* A client that is on no whitelist starts the server only when that server
   was online as the client asked, and went offline before WarmMS looked again
   (conn.go:107, 151). *)
UnlistedNeverStart ==
  [][\A c \in Clients \ (Listed \cup Imported) :
       WhitelistOn /\ HandlerStep(c) /\ live = {} /\ live' # {} => seen[c] = "online"]_vars

(* No client holds a HandlerClientConn goroutine for ever, whatever it sends
   or does not send. *)
HandlersEnd == \A c \in Clients : at[c] # "idle" ~> at[c] = "idle"

Torn(c) == ~Proxied(c) /\ conn[c] = "closed" /\ sock[c] = "closed"

(* When the client or the server leaves a proxy, both its goroutines end and
   msh has closed both connections, in whatever order the two directions
   notice. *)
ProxiesEnd == \A c \in Clients : Proxied(c) /\ Broken(c) ~> Torn(c)

(* Of the messages msh writes itself a client can read exactly those of at most
   MaxMessage bytes: the header of a longer one, an INFO with a large icon
   (config-utils.go:97-160), names a packet that is shorter than what follows
   (conn-prot.go:15-40). *)
RepliesReadable ==
  \A c \in Clients : reply[c] # "none" =>
    \A n \in Lengths[reply[c]] : Readable(n) <=> n <= MaxMessage
=============================================================================
