--------------------------- MODULE ClientConnProofs ---------------------------
(***************************************************************************)
(* Proofs about ClientConn and MsgHeader: which headers, and with them     *)
(* which replies of msh, a client can read; type correctness; who may      *)
(* start the server; that a proxy closes both its connections or none;     *)
(* that a client takes few statements.                                     *)
(***************************************************************************)
EXTENDS ClientConn, SequenceTheorems, TLAPS

(* The bytes of a header, one after the other. *)
LEMMA HeaderBytes ==
  \A a, b, c, d \in Int :
    LET h == <<a, b>> \o <<0>> \o <<c, d>>
    IN  h[1] = a /\ h[2] = b /\ h[3] = 0 /\ h[4] = c /\ h[5] = d
<1> TAKE a, b, c, d \in Int
<1> DEFINE h == <<a, b>> \o <<0>> \o <<c, d>>
           p == <<a, b>>
           z == <<0>>
           q == p \o z
           r == <<c, d>>
<1>1. p \in Seq(Int) /\ Len(p) = 2 /\ p[1] = a /\ p[2] = b
  OBVIOUS
<1>2. z \in Seq(Int) /\ Len(z) = 1 /\ z[1] = 0
  OBVIOUS
<1>3. r \in Seq(Int) /\ Len(r) = 2 /\ r[1] = c /\ r[2] = d
  OBVIOUS
<1>4. /\ q \in Seq(Int) /\ Len(q) = 3
      /\ \A i \in 1..3 : q[i] = IF i <= 2 THEN p[i] ELSE z[i - 2]
  <2> HIDE DEF p, z
  <2>1. /\ q \in Seq(Int) /\ Len(q) = Len(p) + Len(z)
        /\ \A i \in 1..Len(p) + Len(z) : q[i] = IF i <= Len(p) THEN p[i] ELSE z[i - Len(p)]
    BY <1>1, <1>2, ConcatProperties
  <2> HIDE DEF q
  <2> QED BY <1>1, <1>2, <2>1
<1>5. \A i \in 1..5 : h[i] = IF i <= 3 THEN q[i] ELSE r[i - 3]
  <2>1. h = q \o r
    OBVIOUS
  <2>2. /\ Len(q \o r) = Len(q) + Len(r)
        /\ \A i \in 1..Len(q) + Len(r) : (q \o r)[i] = IF i <= Len(q) THEN q[i] ELSE r[i - Len(q)]
    <3> HIDE DEF p, z, q, r
    <3> QED BY <1>3, <1>4, ConcatProperties
  <2>3. Len(q) + Len(r) = 5 /\ Len(q) = 3
    <3> HIDE DEF p, z, q, r
    <3> QED BY <1>3, <1>4
  <2> HIDE DEF h, p, z, q, r
  <2> QED BY <2>1, <2>2, <2>3
<1>6. q[1] = a /\ q[2] = b /\ q[3] = 0
  <2> HIDE DEF p, q, z
  <2> QED BY <1>1, <1>2, <1>4
<1>7. h[1] = a /\ h[2] = b /\ h[3] = 0 /\ h[4] = c /\ h[5] = d
  <2> HIDE DEF h, q, r
  <2> QED BY <1>3, <1>5, <1>6
<1>8. QED
  BY <1>7

(* A client finds in the header the length of the packet and that of the JSON,
   up to MaxMessage and no further. *)
THEOREM HeaderReadable == \A n \in Nat : Readable(n) <=> n <= MaxMessage
<1> TAKE n \in Nat
<1> DEFINE m == n + 3
           h == MountHeader(n)
<1>1. m \in Nat /\ MaxMessage = 16380
  BY DEF MaxMessage
<1>2. /\ n % 128 \in 0..127 /\ n \div 128 \in Nat /\ n = 128 * (n \div 128) + (n % 128)
      /\ m % 128 \in 0..127 /\ m \div 128 \in Nat /\ m = 128 * (m \div 128) + (m % 128)
      /\ (n \div 128) % 256 \in 0..255 /\ (m \div 128) % 256 \in 0..255
  <2>1. \A k \in Nat : /\ k % 128 \in 0..127 /\ k \div 128 \in Nat /\ k = 128 * (k \div 128) + (k % 128)
                       /\ k % 256 \in 0..255
    <3> TAKE k \in Nat
    <3>1. k % 128 \in 0..127
      OBVIOUS
    <3>2. k % 256 \in 0..255
      OBVIOUS
    <3>3. k \div 128 \in Nat
      OBVIOUS
    <3>4. k = 128 * (k \div 128) + (k % 128)
      OBVIOUS
    <3> QED BY <3>1, <3>2, <3>3, <3>4
  <2>2. n \in Nat /\ m \in Nat /\ n \div 128 \in Nat /\ m \div 128 \in Nat
    BY <1>1, <2>1
  <2> HIDE DEF m
  <2> QED BY <2>1, <2>2
<1>4. /\ h[1] = (m % 128) + 128 /\ h[2] = (m \div 128) % 256 /\ h[3] = 0
      /\ h[4] = (n % 128) + 128 /\ h[5] = (n \div 128) % 256
  <2>1. h = <<(m % 128) + 128, (m \div 128) % 256>> \o <<0>>
              \o <<(n % 128) + 128, (n \div 128) % 256>>
    BY DEF MountHeader, SubHeader
  <2>2. /\ (m % 128) + 128 \in Int /\ (m \div 128) % 256 \in Int
        /\ (n % 128) + 128 \in Int /\ (n \div 128) % 256 \in Int
    BY <1>2
  <2> HIDE DEF h, m
  <2> QED BY <2>1, <2>2, HeaderBytes
<1>5. CASE n <= MaxMessage
  <2>1. n \div 128 \in 0..127 /\ m \div 128 \in 0..127
    BY <1>1, <1>5
  <2>2. /\ (m \div 128) % 256 = m \div 128
        /\ (n \div 128) % 256 = n \div 128
    <3>1. \A k \in 0..127 : k % 256 = k
      OBVIOUS
    <3> HIDE DEF m
    <3> QED BY <2>1, <3>1
  <2>3. /\ VarInt((m % 128) + 128, (m \div 128) % 256, 0) = m
        /\ \A next \in {34, 123} : VarInt((n % 128) + 128, (n \div 128) % 256, next) = n
    <3>1. \A r, k \in 0..127, next \in Nat : VarInt(r + 128, k, next) = 128 * k + r
      BY DEF VarInt
    <3> HIDE DEF m
    <3>2. VarInt((m % 128) + 128, m \div 128, 0) = 128 * (m \div 128) + (m % 128)
      BY <1>2, <2>1, <3>1
    <3>3. \A next \in {34, 123} : VarInt((n % 128) + 128, n \div 128, next) = 128 * (n \div 128) + (n % 128)
      <4>1. \A next \in {34, 123} : next \in Nat
        OBVIOUS
      <4>2. n % 128 \in 0..127 /\ n \div 128 \in 0..127
        BY <1>2, <2>1
      <4> QED BY <3>1, <4>1, <4>2
    <3> QED BY <1>2, <2>2, <3>2, <3>3
  <2> HIDE DEF h
  <2>4. \A next \in {34, 123} : PacketLength(h, next) = m /\ JsonLength(h, next) = n
    BY <1>4, <2>3 DEF PacketLength, JsonLength
  <2> QED BY <1>5, <2>4 DEF Readable, h
<1>6. CASE n > MaxMessage
  <2>1. m > 16383
    BY <1>1, <1>6
  <2>2. VarInt((m % 128) + 128, (m \div 128) % 256, 0) <= 16383
    BY <1>2 DEF VarInt
  <2> HIDE DEF h
  <2>3. PacketLength(h, 34) # m
    <3> HIDE DEF m
    <3>1. PacketLength(h, 34) <= 16383
      BY <1>4, <2>2 DEF PacketLength
    <3> QED BY <1>1, <2>1, <3>1
  <2> QED BY <1>1, <1>6, <2>3 DEF Readable, h
<1> QED BY <1>1, <1>5, <1>6
-----------------------------------------------------------------------------
(* Type correctness *)

(* The parts of TypeOK, and how the ways a handler moves keep them. *)
ServerOK == /\ state \in Life!States /\ live \in SUBSET Servers
            /\ suspended \in BOOLEAN /\ majorError \in BOOLEAN /\ connCount \in Int
ConnOK   == here \in SUBSET Clients /\ conn \in [Clients -> TcpStates]
PcOK     == /\ at \in [Clients -> Ats] /\ req \in [Clients -> {"none", "info", "join"}]
            /\ seen \in [Clients -> Life!States]
ReplyOK  == reply \in [Clients -> Kinds \cup {"none"}]
ProxyOK  == /\ sock \in [Clients -> TcpStates] /\ reach \in SUBSET Clients
            /\ fwd \in [Clients -> [up : {"none", "relay"}, down : Fwds]]
            /\ num \in [Clients -> Int]

Types == ServerOK /\ ConnOK /\ PcOK /\ ReplyOK /\ ProxyOK

(* TypeOK by its parts, so that a step need only look at those it changes. *)
LEMMA TypeParts == TypeOK <=> Types
  BY DEF Types, TypeOK, ServerOK, ConnOK, PcOK, ReplyOK, ProxyOK

(* The domains spelled out for the provers. *)
LEMMA Names ==
  /\ {"offline", "online", "starting", "stopping"} = Life!States
  /\ {"none", "open", "closed"} = TcpStates
  /\ {"info", "text"} = Kinds
  /\ {"idle", "type", "type2", "decide", "ping", "ping2", "listed", "warm",
      "rewarm", "dial"} = Ats
  BY DEF Life!States, TcpStates, Kinds, Ats

(* A handler that goes on or returns stays in the domains. *)
LEMMA MoveType ==
  ASSUME PcOK, NEW c \in Clients
  PROVE  /\ \A a \in Ats : Goto(c, a) => at' \in [Clients -> Ats]
         /\ Return(c) => PcOK'
         /\ \A s \in Life!States : seen' = [seen EXCEPT ![c] = s] => seen' \in [Clients -> Life!States]
         /\ \A r \in {"info", "join"} :
              req' = [req EXCEPT ![c] = r] => req' \in [Clients -> {"none", "info", "join"}]
  BY Names DEF PcOK, Goto, Return

(* So does a reply, *)
LEMMA WriteType ==
  ASSUME ReplyOK, NEW c \in Clients, NEW k \in Kinds, Write(c, k)
  PROVE  ReplyOK'
  BY DEF ReplyOK, Write

(* a connection that is closed, *)
LEMMA CloseType ==
  ASSUME ConnOK, NEW c \in Clients, Close(c), UNCHANGED here
  PROVE  ConnOK'
  BY Names DEF ConnOK, Close

(* and WarmMS. *)
LEMMA WarmType ==
  ASSUME ServerOK, NEW ok \in BOOLEAN, WarmMS(ok)
  PROVE  ServerOK'
  BY DEF ServerOK, WarmMS, Life!Launch

(* Parts whose variables are unchanged keep their types. *)
LEMMA Same ==
  /\ UNCHANGED server => (ServerOK => ServerOK')
  /\ UNCHANGED <<here, conn>> => (ConnOK => ConnOK')
  /\ UNCHANGED <<at, req, seen>> => (PcOK => PcOK')
  /\ UNCHANGED reply => (ReplyOK => ReplyOK')
  /\ UNCHANGED proxy => (ProxyOK => ProxyOK')
  BY DEF server, proxy, ServerOK, ConnOK, PcOK, ReplyOK, ProxyOK

(* The two directions of a proxy: only the one from the server counts. *)
LEMMA ForwardType ==
  ASSUME ProxyOK, NEW c \in Clients
  PROVE  /\ \A from : \A to \in Fwds : Forward(c, "down", from, to)
                => fwd' \in [Clients -> [up : {"none", "relay"}, down : Fwds]]
         /\ \A d \in Directions : Ends(c, d)
                => fwd' \in [Clients -> [up : {"none", "relay"}, down : Fwds]]
<1>1. fwd[c] \in [up : {"none", "relay"}, down : Fwds]
  BY DEF ProxyOK
<1>2. \A to \in Fwds : [fwd[c] EXCEPT !["down"] = to] \in [up : {"none", "relay"}, down : Fwds]
  BY <1>1
<1>3. \A to \in {"none", "relay"} : [fwd[c] EXCEPT !["up"] = to] \in [up : {"none", "relay"}, down : Fwds]
  BY <1>1
<1>4. ASSUME NEW from, NEW to \in Fwds, Forward(c, "down", from, to)
      PROVE  fwd' \in [Clients -> [up : {"none", "relay"}, down : Fwds]]
  BY <1>2, <1>4 DEF Forward, ProxyOK
<1>5. ASSUME Ends(c, "up")
      PROVE  fwd' \in [Clients -> [up : {"none", "relay"}, down : Fwds]]
  <2>1. fwd[c]["up"] # "play"
    BY <1>1
  <2> QED BY <1>3, <1>5, <2>1 DEF Ends, Forward, ProxyOK
<1>6. ASSUME Ends(c, "down")
      PROVE  fwd' \in [Clients -> [up : {"none", "relay"}, down : Fwds]]
  <2>1. {"none", "dec"} \subseteq Fwds
    BY DEF Fwds
  <2> QED BY <1>4, <1>6, <2>1 DEF Ends
<1> QED BY <1>4, <1>5, <1>6 DEF Directions

-----------------------------------------------------------------------------
(* The initial states are in the domains. *)
LEMMA InitType == Init => Types
<1>1. Init => ServerOK
  <2>1. Init => state \in Life!States /\ live \in SUBSET Servers /\ connCount \in Int
    BY DEF Init, Life!Init, Life!States
  <2>2. Init => suspended \in BOOLEAN /\ majorError \in BOOLEAN
    BY Zenon DEF Init
  <2> QED BY <2>1, <2>2 DEF ServerOK
<1>2. Init => ConnOK /\ PcOK /\ ReplyOK
  BY Names DEF Init, ConnOK, PcOK, ReplyOK
<1>3. Init => ProxyOK
  <2>1. [d \in Directions |-> "none"] \in [up : {"none", "relay"}, down : Fwds]
    BY DEF Directions, Fwds
  <2> QED BY <2>1, Names DEF Init, ProxyOK
<1> QED BY <1>1, <1>2, <1>3 DEF Types

(* Steps of the server stay in the domains, *)
LEMMA ServerStepType ==
  ASSUME Types, ServerStep \/ ConsoleStart
  PROVE  Types'
<1>1. ServerOK /\ ConnOK /\ PcOK /\ ReplyOK /\ ProxyOK
  BY DEF Types
<1>2. UNCHANGED client => (ConnOK /\ PcOK /\ ReplyOK)'
  BY <1>1, Same DEF client
<1>3. CASE PublishStarting \/ PublishOnlineOrStopping \/ PublishOffline
  <2>1. state' \in Life!States /\ live' \in SUBSET Servers /\ majorError' = majorError
    BY <1>1, <1>3, Names DEF PublishStarting, PublishOnlineOrStopping, PublishOffline,
       Life!Publish, Life!Offline, ServerOK
  <2>2. suspended' \in {FALSE, suspended} /\ connCount' \in {0, connCount}
    BY <1>3 DEF PublishStarting, PublishOnlineOrStopping, PublishOffline
  <2>3. suspended' \in BOOLEAN /\ majorError' \in BOOLEAN
    <3>1. suspended' = FALSE \/ suspended' = suspended
      BY <2>2
    <3> QED BY <1>1, <2>1, <3>1, Zenon DEF ServerOK
  <2>5. ServerOK'
    <3>1. connCount' \in Int
      BY <1>1, <2>2 DEF ServerOK
    <3> QED BY <2>1, <2>3, <3>1 DEF ServerOK
  <2>4. UNCHANGED <<client, proxy>>
    BY <1>3 DEF PublishStarting, PublishOnlineOrStopping, PublishOffline
  <2> QED BY <1>1, <1>2, <2>4, <2>5, Same DEF Types
<1>4. CASE Die
  BY <1>1, <1>2, <1>4 DEF Types, Die, Life!Die, ServerOK, ProxyOK
<1>5. CASE SuspendOrResume \/ SetMajorError
  BY <1>1, <1>2, <1>5, Same DEF Types, SuspendOrResume, SetMajorError, ServerOK
<1>6. CASE ConsoleStart
  BY <1>1, <1>2, <1>6, WarmType, Same DEF Types, ConsoleStart
<1> QED BY <1>3, <1>4, <1>5, <1>6 DEF ServerStep

(* so do steps of a HandlerClientConn, *)
LEMMA HandlerStepType ==
  ASSUME Types, NEW c \in Clients, HandlerStep(c)
  PROVE  Types'
<1>1. ServerOK /\ ConnOK /\ PcOK /\ ReplyOK /\ ProxyOK
  BY DEF Types
<1>2. CASE ReadFails(c)
  BY <1>1, <1>2, Same, MoveType, CloseType DEF Types, ReadFails, ReturnAndClose
<1>3. CASE ReqType(c)
  <2>1. PcOK'
    BY <1>1, <1>3, MoveType, Names DEF ReqType, PcOK
  <2> QED BY <1>1, <1>3, <2>1, Same DEF Types, ReqType
<1>4. CASE Ping(c)
  <2>1. PcOK'
    BY <1>1, <1>4, MoveType, Names DEF Ping, PcOK, ReturnAndClose
  <2> QED BY <1>1, <1>4, <2>1, Same, CloseType DEF Types, Ping, ReturnAndClose
<1>5. CASE Decide(c)
  <2>1. CASE majorError
    <3>1. ReplyTo(c) \in Kinds
      BY Names DEF ReplyTo
    <3>2. ReplyOK'
      BY <1>1, <1>5, <2>1, <3>1, WriteType DEF Decide
    <3>3. PcOK' /\ ConnOK'
      BY <1>1, <1>5, <2>1, MoveType, CloseType, Same, Names DEF Decide, PcOK, ReturnAndClose
    <3> QED BY <1>1, <1>5, <3>2, <3>3, Same DEF Types, Decide
  <2>2. CASE ~majorError
    <3>1. PcOK'
      BY <1>1, <1>5, <2>2, MoveType, Names DEF Decide, PcOK, ServerOK
    <3>2. ReplyOK' /\ ConnOK'
      BY <1>1, <1>5, <2>2, WriteType, Same, Names DEF Decide
    <3> QED BY <1>1, <1>5, <3>1, <3>2, Same DEF Types, Decide
  <2> QED BY <2>1, <2>2
<1>6. CASE Whitelist(c)
  <2>1. PcOK'
    BY <1>1, <1>6, MoveType, Names DEF Whitelist, PcOK, ReturnAndClose
  <2>2. ReplyOK' /\ ConnOK'
    BY <1>1, <1>6, WriteType, CloseType, Same, Names DEF Whitelist, ReturnAndClose
  <2> QED BY <1>1, <1>6, <2>1, <2>2, Same DEF Types, Whitelist
<1>7. CASE Warm(c)
  <2>1. PcOK' /\ ReplyOK' /\ ConnOK'
    BY <1>1, <1>7, MoveType, WriteType, CloseType, Names DEF Warm, ReturnAndClose
  <2> QED BY <1>1, <1>7, <2>1, WarmType, Same DEF Types, Warm
<1>8. CASE Rewarm(c)
  <2>1. PcOK'
    BY <1>1, <1>8, MoveType, Names DEF Rewarm, PcOK
  <2>2. ReplyOK' /\ ConnOK'
    BY <1>1, <1>8, WriteType, Same, Names DEF Rewarm
  <2> QED BY <1>1, <1>8, <2>1, <2>2, WarmType, Same DEF Types, Rewarm
<1>9. CASE Dial(c)
  <2>1. PcOK'
    BY <1>1, <1>9, MoveType DEF Dial
  <2>2. ReplyOK'
    BY <1>1, <1>9, WriteType, Same, Names DEF Dial
  <2>3. [up |-> "relay", down |-> IF req[c] = "join" THEN "inc" ELSE "relay"]
          \in [up : {"none", "relay"}, down : Fwds]
    BY DEF Fwds
  <2>4. ProxyOK'
    BY <1>1, <1>9, <2>3, Names DEF Dial, ProxyOK
  <2> QED BY <1>1, <1>9, <2>1, <2>2, <2>4, Same DEF Types, Dial
<1> QED BY <1>2, <1>3, <1>4, <1>5, <1>6, <1>7, <1>8, <1>9 DEF HandlerStep, Packet, Handles

(* and those of its proxy. *)
LEMMA ProxyStepType ==
  ASSUME Types, NEW c \in Clients,
         LoadConnCount(c) \/ StoreConnCount(c) \/ \E d \in Directions : HangUp(c, d)
  PROVE  Types'
<1>1. ServerOK /\ ConnOK /\ PcOK /\ ReplyOK /\ ProxyOK
  BY DEF Types
<1>2. {"inc", "store+", "dec", "store-", "play", "none"} \subseteq Fwds
  BY DEF Fwds
<1>3. CASE LoadConnCount(c)
  <2>1. ProxyOK'
    BY <1>1, <1>2, <1>3, ForwardType DEF LoadConnCount, ProxyOK, ServerOK
  <2> QED BY <1>1, <1>3, <2>1, Same DEF Types, LoadConnCount, client
<1>4. CASE StoreConnCount(c)
  <2>1. ProxyOK'
    BY <1>1, <1>2, <1>4, ForwardType DEF StoreConnCount, ProxyOK
  <2>2. connCount' \in Int
    BY <1>1, <1>4 DEF StoreConnCount, ProxyOK
  <2> QED BY <1>1, <1>4, <2>1, <2>2, Same DEF Types, StoreConnCount, client, ServerOK
<1>5. ASSUME NEW d \in Directions, HangUp(c, d) PROVE Types'
  <2>1. ProxyOK'
    BY <1>1, <1>5, ForwardType, Names DEF HangUp, ProxyOK
  <2> QED BY <1>1, <1>5, <2>1, Same, CloseType DEF Types, HangUp
<1> QED BY <1>3, <1>4, <1>5

(* Every variable stays in its domain, for all clients and configurations. *)
THEOREM TypeCorrect == Spec => []TypeOK
<1>1. Types /\ [Next]_vars => Types'
  <2> SUFFICES ASSUME Types, [Next]_vars PROVE Types'
    OBVIOUS
  <2>1. ServerOK /\ ConnOK /\ PcOK /\ ReplyOK /\ ProxyOK
    BY DEF Types
  <2>2. CASE UNCHANGED vars
    BY <2>1, <2>2, Same DEF Types, vars, client
  <2>3. ASSUME NEW c \in Clients, Accept(c) \/ Leave(c) \/ Collect(c) PROVE Types'
    <3>1. CASE Accept(c)
      <4>1. PcOK' /\ ConnOK'
        BY <2>1, <3>1, MoveType, Names DEF Accept, PcOK, ConnOK
      <4> QED BY <2>1, <3>1, <4>1, Same DEF Types, Accept
    <3>2. CASE Leave(c)
      BY <2>1, <3>2, Same DEF Types, Leave, ConnOK
    <3>3. CASE Collect(c)
      BY <2>1, <3>3, Same, CloseType DEF Types, Collect
    <3> QED BY <2>3, <3>1, <3>2, <3>3
  <2> QED
    BY <2>2, <2>3, ServerStepType, HandlerStepType, ProxyStepType DEF Next
<1> QED BY <1>1, InitType, TypeParts, PTL DEF Spec

-----------------------------------------------------------------------------
(* Of the messages msh writes a client can read those of at most MaxMessage bytes
   and no other, whatever lengths they have. *)
THEOREM RepliesReadableCorrect == Spec => []RepliesReadable
<1>1. TypeOK => RepliesReadable
  BY ClientConnAssumption, HeaderReadable DEF TypeOK, RepliesReadable
<1> QED BY <1>1, TypeCorrect, PTL

-----------------------------------------------------------------------------
(* A handler warms the server past the whitelists, or because it saw the server
   online. *)
Admitted ==
  \A c \in Clients :
    /\ at[c] = "warm" => ~WhitelistOn \/ c \in Listed \cup Imported
    /\ at[c] = "rewarm" => seen[c] = "online"

(* Every step keeps it. *)
LEMMA AdmittedStep ==
  ASSUME Types, Admitted, [Next]_vars
  PROVE  Admitted'
<1>0. PcOK
  BY DEF Types
<1>1. UNCHANGED <<at, seen>> => Admitted'
  BY DEF Admitted
<1>2. ASSUME NEW c \in Clients, Return(c) PROVE Admitted'
  BY <1>0, <1>2 DEF Return, Goto, Admitted, PcOK
<1>3. ASSUME NEW c \in Clients, NEW a \in Ats \ {"warm", "rewarm"}, Goto(c, a), UNCHANGED seen
      PROVE  Admitted'
  BY <1>0, <1>3 DEF Goto, Admitted, PcOK
<1>4. CASE UNCHANGED vars \/ ServerStep \/ ConsoleStart
  BY <1>1, <1>4 DEF vars, client, ServerStep, ConsoleStart, PublishStarting,
     PublishOnlineOrStopping, PublishOffline, Die, SuspendOrResume, SetMajorError
<1>5. ASSUME NEW c \in Clients,
             Accept(c) \/ Leave(c) \/ Collect(c) \/ LoadConnCount(c) \/ StoreConnCount(c)
             \/ \E d \in Directions : HangUp(c, d)
      PROVE  Admitted'
  BY <1>1, <1>3, <1>5, Names DEF Accept, Leave, Collect, LoadConnCount, StoreConnCount, HangUp, client
<1>6. ASSUME NEW c \in Clients, ReadFails(c) \/ Packet(c) \/ Warm(c) \/ Dial(c)
      PROVE  Admitted'
  BY <1>2, <1>3, <1>6, Names DEF ReadFails, Packet, ReqType, Ping, Warm, Dial, ReturnAndClose
<1>7. ASSUME NEW c \in Clients, Decide(c) PROVE Admitted'
  <2>1. ASSUME ~majorError, req[c] = "join" PROVE Admitted'
    <3>1. CASE WantsStart
      BY <1>0, <1>7, <2>1, <3>1 DEF Decide, Goto, Admitted, PcOK
    <3>2. CASE ~WantsStart
      BY <1>0, <1>7, <2>1, <3>2 DEF Decide, Goto, Admitted, PcOK, WantsStart
    <3> QED BY <3>1, <3>2
  <2> QED BY <1>2, <1>3, <1>7, <2>1, Names DEF Decide, ReturnAndClose
<1>8. ASSUME NEW c \in Clients, Whitelist(c) PROVE Admitted'
  <2>1. PICK ok \in IsWhitelist(c) :
          IF ok THEN Goto(c, "warm") /\ UNCHANGED <<conn, req, seen, reply>>
          ELSE Write(c, "text") /\ ReturnAndClose(c)
    BY <1>8 DEF Whitelist
  <2>2. CASE ok
    <3>1. ~WhitelistOn \/ c \in Listed \cup Imported
      BY <2>2 DEF IsWhitelist
    <3> QED BY <1>0, <2>1, <2>2, <3>1 DEF Goto, Admitted, PcOK
  <2> QED BY <1>2, <2>1, <2>2 DEF ReturnAndClose
<1>9. ASSUME NEW c \in Clients, Rewarm(c) PROVE Admitted'
  BY <1>2, <1>3, <1>9, Names DEF Rewarm
<1> QED
  BY <1>4, <1>5, <1>6, <1>7, <1>8, <1>9 DEF Next, HandlerStep, Handles

(* A client on no whitelist starts the server only in the window after it saw
   the server online. *)
THEOREM UnlistedCorrect == Spec => UnlistedNeverStart
<1> DEFINE Start == \A c \in Clients \ (Listed \cup Imported) :
       WhitelistOn /\ HandlerStep(c) /\ live = {} /\ live' # {} => seen[c] = "online"
<1>1. Init => Admitted
  BY DEF Init, Admitted
<1>2. Admitted /\ [Next]_vars => [Start]_vars
  <2> SUFFICES ASSUME Admitted, NEW c \in Clients \ (Listed \cup Imported),
                      WhitelistOn, HandlerStep(c), live = {}, live' # {}
               PROVE  seen[c] = "online"
    OBVIOUS
  <2>1. ~(ReadFails(c) \/ Packet(c) \/ Decide(c) \/ Whitelist(c) \/ Dial(c))
    BY DEF ReadFails, Packet, ReqType, Ping, Decide, Whitelist, Dial, server
  <2>2. Warm(c) \/ Rewarm(c)
    BY <2>1 DEF HandlerStep, Handles
  <2> QED BY <2>2 DEF Admitted, Warm, Rewarm
<1> QED BY <1>1, <1>2, TypeCorrect, TypeParts, AdmittedStep, PTL DEF Spec, UnlistedNeverStart
-----------------------------------------------------------------------------
(* Connections *)

(* Which connections a client has, by the statements its handler and its proxy
   are at: the handler is done when there is a proxy, a proxy that is whole has
   two open ends, and one that any direction has left has two closed ones. *)
Whole(c) == fwd[c].up = "relay" /\ fwd[c].down \in {"relay", "inc", "store+", "play"}

EndsOK(c) ==
  /\ conn[c] = "none" => at[c] = "idle" /\ sock[c] = "none"
  /\ at[c] # "idle" => conn[c] = "open" /\ sock[c] = "none"
  /\ sock[c] = "none" => ~Proxied(c)
  /\ sock[c] = "open" => conn[c] = "open" /\ Whole(c)
  /\ sock[c] = "closed" => conn[c] = "closed" /\ ~Whole(c)
  /\ c \in reach => sock[c] = "open"

ProxyInv == \A c \in Clients : EndsOK(c)

(* How many statements the goroutines of c have left, at most: its handler, *)
Statements(a) ==
  CASE a = "idle"              -> 0
    [] a \in {"ping2", "warm"}  -> 1
    [] a \in {"ping", "listed"} -> 2
    [] a = "dial"              -> 7
    [] a = "rewarm"            -> 8
    [] a = "decide"            -> 9
    [] a = "type2"             -> 10
    [] a = "type"              -> 11

ToHandle(c) == Statements(at[c])

(* and its two directions. *)
ToRelay(c) ==
  (IF fwd[c].up = "relay" THEN 1 ELSE 0) +
  CASE fwd[c].down = "none"   -> 0
    [] fwd[c].down = "store-" -> 1
    [] fwd[c].down = "relay"  -> 1
    [] fwd[c].down = "dec"    -> 2
    [] fwd[c].down = "play"   -> 3
    [] fwd[c].down = "store+" -> 4
    [] fwd[c].down = "inc"    -> 5

Effort(c) == ToHandle(c) + ToRelay(c)

Moves(c) ==
  \/ HandlerStep(c) \/ LoadConnCount(c) \/ StoreConnCount(c)
  \/ \E d \in Directions : HangUp(c, d)

(* What c has left is untouched. *)
Rests(c) == at'[c] = at[c] /\ conn'[c] = conn[c] /\ sock'[c] = sock[c] /\ fwd'[c] = fwd[c]

(* The numbers spelled out for the provers. *)
LEMMA Numbers ==
  /\ Statements("idle") = 0 /\ Statements("ping2") = 1 /\ Statements("warm") = 1
  /\ Statements("ping") = 2 /\ Statements("listed") = 2 /\ Statements("dial") = 7
  /\ Statements("rewarm") = 8 /\ Statements("decide") = 9
  /\ Statements("type2") = 10 /\ Statements("type") = 11
<1>1. /\ Statements("idle") = 0 /\ Statements("ping2") = 1 /\ Statements("warm") = 1
      /\ Statements("ping") = 2 /\ Statements("listed") = 2
  BY DEF Statements
<1>2. Statements("dial") = 7 /\ Statements("rewarm") = 8 /\ Statements("decide") = 9
  BY DEF Statements
<1>3. Statements("type2") = 10 /\ Statements("type") = 11
  BY DEF Statements
<1> QED
  BY <1>1, <1>2, <1>3

(* The efforts are numbers. *)
LEMMA Efforts ==
  ASSUME PcOK, ProxyOK, NEW c \in Clients
  PROVE  /\ ToHandle(c) \in 0..11 /\ ToRelay(c) \in 0..6
         /\ at[c] = "idle" => ToHandle(c) = 0
         /\ ~Proxied(c) => ToRelay(c) = 0
<1>1. at[c] \in Ats
  BY DEF PcOK
<1>2. fwd[c].up \in {"none", "relay"} /\ fwd[c].down \in Fwds
  BY DEF ProxyOK
<1>3. ToHandle(c) \in 0..11 /\ (at[c] = "idle" => ToHandle(c) = 0)
  BY <1>1, Numbers DEF ToHandle, Ats
<1>4. ToRelay(c) \in 0..6
  BY <1>2 DEF ToRelay, Fwds
<1>5. ~Proxied(c) => fwd[c].up = "none" /\ fwd[c].down = "none"
  BY DEF Proxied, Directions
<1>6. ~Proxied(c) => ToRelay(c) = 0
  BY <1>5 DEF ToRelay
<1> QED
  BY <1>3, <1>4, <1>6

(* The server, the console, other clients and a client that leaves move nothing of c. *)
LEMMA OthersRest ==
  ASSUME Types, NEW c \in Clients,
         \/ ServerStep \/ ConsoleStart \/ UNCHANGED vars \/ Leave(c)
         \/ \E b \in Clients \ {c} : Accept(b) \/ Leave(b) \/ Collect(b) \/ Moves(b)
  PROVE  Rests(c) /\ (c \in reach' => c \in reach)
<1>1. ConnOK /\ PcOK /\ ProxyOK
  BY DEF Types
<1>2. CASE ServerStep \/ ConsoleStart \/ UNCHANGED vars \/ Leave(c)
  <2>1. UNCHANGED <<at, conn, sock, fwd>> /\ reach' \in {reach, {}}
    BY <1>2 DEF ServerStep, ConsoleStart, Leave, PublishStarting, PublishOnlineOrStopping,
       PublishOffline, Die, SuspendOrResume, SetMajorError, vars, client, proxy
  <2> QED
    BY <2>1 DEF Rests
<1>3. ASSUME NEW b \in Clients \ {c}, Accept(b) \/ Leave(b) \/ Collect(b) \/ Moves(b)
      PROVE  Rests(c) /\ (c \in reach' => c \in reach)
  <2>1. CASE Accept(b) \/ Leave(b) \/ Collect(b)
    BY <1>1, <1>3, <2>1 DEF Accept, Leave, Collect, Goto, Close, proxy, Rests, ConnOK, PcOK
  <2>2. CASE ReadFails(b) \/ Packet(b)
    BY <1>1, <1>3, <2>2 DEF ReadFails, Packet, ReqType, Ping, Goto, Close, Return, ReturnAndClose, proxy,
       Rests, ConnOK, PcOK
  <2>3. CASE Decide(b) \/ Whitelist(b) \/ Warm(b) \/ Rewarm(b)
    BY <1>1, <1>3, <2>3 DEF Decide, Whitelist, Warm, Rewarm, Goto, Close, Return, ReturnAndClose, proxy,
       Rests, ConnOK, PcOK
  <2>4. CASE Dial(b)
    BY <1>1, <1>3, <2>4 DEF Dial, Goto, Return, Rests, ProxyOK, PcOK
  <2>5. CASE LoadConnCount(b) \/ StoreConnCount(b)
    BY <1>1, <1>3, <2>5 DEF LoadConnCount, StoreConnCount, Forward, client, Rests, ProxyOK
  <2>6. ASSUME NEW d \in Directions, HangUp(b, d) PROVE Rests(c) /\ (c \in reach' => c \in reach)
    BY <1>1, <1>3, <2>6 DEF HangUp, Ends, Forward, Close, Rests, ProxyOK, ConnOK
  <2> QED
    BY <1>3, <2>1, <2>2, <2>3, <2>4, <2>5, <2>6 DEF Moves, HandlerStep, Handles
<1> QED
  BY <1>2, <1>3

(* A handler before it has dialled keeps no connection to the server, and takes
   a statement of its own. *)
LEMMA HandlerShorter ==
  ASSUME Types, NEW c \in Clients, EndsOK(c), HandlerStep(c), ~Dial(c)
  PROVE  EndsOK(c)' /\ Effort(c)' < Effort(c)
<1>1. ConnOK /\ PcOK /\ ProxyOK
  BY DEF Types
<1>2. UNCHANGED <<sock, fwd, reach>>
  BY DEF HandlerStep, Packet, Handles, ReadFails, ReqType, Ping, Decide, Whitelist, Warm, Rewarm, proxy
<1>3. at[c] # "idle" /\ at'[c] \in Ats /\ ToHandle(c)' < ToHandle(c)
  <2>1. CASE ReadFails(c) \/ ReqType(c) \/ Ping(c)
    BY <1>1, <2>1, Names, Numbers DEF ReadFails, ReqType, Ping, Goto, Return, ReturnAndClose, PcOK, ToHandle
  <2>2. CASE Decide(c)
    BY <1>1, <2>2, Names, Numbers DEF Decide, Goto, Return, ReturnAndClose, PcOK, ToHandle
  <2>3. CASE Whitelist(c) \/ Warm(c) \/ Rewarm(c)
    <3>1. /\ <<at[c], at'[c]>> \in {<<"listed", "warm">>, <<"listed", "idle">>, <<"warm", "idle">>,
                                   <<"rewarm", "dial">>, <<"rewarm", "idle">>}
      BY <1>1, <2>3 DEF Whitelist, Warm, Rewarm, Goto, Return, ReturnAndClose, PcOK
    <3> QED
      BY <3>1, Numbers, Names DEF ToHandle
  <2> QED
    BY <2>1, <2>2, <2>3 DEF HandlerStep, Packet, Handles
<1>4. conn'[c] = conn[c] \/ (conn'[c] = "closed" /\ at'[c] = "idle")
  BY <1>1 DEF HandlerStep, Packet, Handles, ReadFails, ReqType, Ping, Decide, Whitelist, Warm, Rewarm,
     Goto, Close, Return, ReturnAndClose, ConnOK, PcOK
<1>5. conn[c] = "open" /\ sock[c] = "none" /\ ~Proxied(c) /\ c \notin reach
  BY <1>3 DEF EndsOK
<1>6. EndsOK(c)'
  BY <1>2, <1>4, <1>5 DEF EndsOK, Proxied
<1>7. ToRelay(c)' = ToRelay(c)
  BY <1>2 DEF ToRelay
<1>8. ToHandle(c) \in Int /\ ToHandle(c)' \in Int /\ ToRelay(c) \in Int
  <2>1. ToHandle(c)' \in Int
    BY <1>3, Numbers DEF ToHandle, Ats
  <2> QED
    BY <1>1, <2>1, Efforts
<1>9. \A x, y, z \in Int : x < y => x + z < y + z
  OBVIOUS
<1> QED
  BY <1>3, <1>6, <1>7, <1>8, <1>9 DEF Effort

(* It dials with a whole proxy, or none. *)
LEMMA DialShorter ==
  ASSUME Types, NEW c \in Clients, EndsOK(c), Dial(c)
  PROVE  EndsOK(c)' /\ Effort(c)' < Effort(c)
<1>1. PcOK /\ ProxyOK
  BY DEF Types
<1>2. at[c] = "dial" /\ at'[c] = "idle" /\ conn' = conn
  BY <1>1 DEF Dial, Return, Goto, PcOK
<1>3. conn[c] = "open" /\ sock[c] = "none" /\ ~Proxied(c) /\ c \notin reach
  BY <1>2 DEF EndsOK
<1>4. ToHandle(c) = 7 /\ ToHandle(c)' = 0 /\ ToRelay(c) = 0
  BY <1>1, <1>2, <1>3, Efforts, Numbers DEF ToHandle
<1>5. CASE UNCHANGED <<sock, reach, fwd>>
  <2>1. EndsOK(c)'
    BY <1>2, <1>3, <1>5 DEF EndsOK, Proxied
  <2>2. ToRelay(c)' = ToRelay(c)
    BY <1>5 DEF ToRelay
  <2> QED
    BY <1>4, <2>1, <2>2 DEF Effort
<1>6. CASE sock' = [sock EXCEPT ![c] = "open"] /\ fwd' = [fwd EXCEPT ![c] =
             [up |-> "relay", down |-> IF req[c] = "join" THEN "inc" ELSE "relay"]]
  <2>1. sock'[c] = "open" /\ fwd'[c].up = "relay" /\ fwd'[c].down \in {"inc", "relay"}
    BY <1>1, <1>6 DEF ProxyOK
  <2>2. EndsOK(c)'
    BY <1>2, <1>3, <2>1 DEF EndsOK, Whole
  <2>3. ToRelay(c)' \in {2, 6}
    BY <2>1 DEF ToRelay
  <2> QED
    BY <1>4, <2>2, <2>3 DEF Effort
<1> QED
  BY <1>5, <1>6 DEF Dial

(* A direction that counts or fails takes a statement of its own, and the first
   one that fails closes both ends. *)
LEMMA ProxyShorter ==
  ASSUME Types, NEW c \in Clients, EndsOK(c),
         LoadConnCount(c) \/ StoreConnCount(c) \/ \E d \in Directions : HangUp(c, d)
  PROVE  EndsOK(c)' /\ Effort(c)' < Effort(c)
<1>1. ConnOK /\ PcOK /\ ProxyOK
  BY DEF Types
<1>2. fwd[c] \in [up : {"none", "relay"}, down : Fwds]
  BY <1>1 DEF ProxyOK
<1>3. UNCHANGED at
  BY DEF LoadConnCount, StoreConnCount, HangUp, client
<1>4. ToHandle(c)' = ToHandle(c) /\ ToHandle(c) \in Int
  BY <1>1, <1>3, Efforts DEF ToHandle
<1>5. ASSUME NEW from, NEW to, <<from, to>> \in {<<"inc", "store+">>, <<"dec", "store-">>,
               <<"store+", "play">>, <<"store-", "none">>, <<"relay", "none">>, <<"play", "dec">>},
             Forward(c, "down", from, to)
      PROVE  /\ fwd[c].down = from /\ fwd'[c].down = to /\ fwd'[c].up = fwd[c].up
             /\ ToRelay(c)' < ToRelay(c) /\ ToRelay(c)' \in Int
  <2>1. fwd[c].down = from /\ fwd'[c] = [fwd[c] EXCEPT !.down = to]
    BY <1>1, <1>5 DEF Forward, ProxyOK
  <2>2. fwd'[c].down = to /\ fwd'[c].up = fwd[c].up
    BY <1>2, <2>1
  <2>3. ToRelay(c)' < ToRelay(c) /\ ToRelay(c)' \in Int
    BY <1>5, <2>1, <2>2 DEF ToRelay
  <2> QED
    BY <2>1, <2>2, <2>3
<1>6. ASSUME Ends(c, "up")
      PROVE  /\ fwd[c].up = "relay" /\ fwd'[c].up = "none" /\ fwd'[c].down = fwd[c].down
             /\ ToRelay(c)' < ToRelay(c) /\ ToRelay(c)' \in Int
  <2>1. fwd[c].up = "relay" /\ fwd'[c] = [fwd[c] EXCEPT !.up = "none"]
    BY <1>1, <1>2, <1>6 DEF Ends, Forward, ProxyOK
  <2>2. fwd'[c].up = "none" /\ fwd'[c].down = fwd[c].down
    BY <1>2, <2>1
  <2>3. ToRelay(c)' < ToRelay(c) /\ ToRelay(c)' \in Int
    BY <1>2, <2>1, <2>2 DEF ToRelay, Fwds
  <2> QED
    BY <2>1, <2>2, <2>3
<1>7. ToRelay(c)' < ToRelay(c) /\ ToRelay(c)' \in Int
  BY <1>5, <1>6 DEF LoadConnCount, StoreConnCount, HangUp, Ends, Directions
<1>8. CASE LoadConnCount(c) \/ StoreConnCount(c)
  <2>1. UNCHANGED <<conn, sock, reach>>
    BY <1>8 DEF LoadConnCount, StoreConnCount, client
  <2>2. /\ fwd'[c].up = fwd[c].up
        /\ <<fwd[c].down, fwd'[c].down>> \in {<<"inc", "store+">>, <<"dec", "store-">>,
               <<"store+", "play">>, <<"store-", "none">>}
    BY <1>5, <1>8 DEF LoadConnCount, StoreConnCount
  <2>3. Proxied(c) /\ (Whole(c)' <=> Whole(c))
    BY <2>2 DEF Proxied, Directions, Whole
  <2> QED
    BY <1>3, <1>4, <1>7, <2>1, <2>3, Efforts, <1>1 DEF EndsOK, Effort
<1>9. ASSUME NEW d \in Directions, HangUp(c, d) PROVE EndsOK(c)'
  <2>1. sock'[c] = "closed" /\ conn'[c] = "closed" /\ c \notin reach'
    BY <1>1, <1>9 DEF HangUp, Close, ProxyOK, ConnOK
  <2>2. ~Whole(c)'
    BY <1>5, <1>6, <1>9 DEF HangUp, Ends, Directions, Whole
  <2>3. Proxied(c)
    BY <1>5, <1>6, <1>9 DEF HangUp, Ends, Directions, Proxied
  <2>4. at'[c] = "idle"
    BY <1>3, <2>3 DEF EndsOK
  <2> QED
    BY <2>1, <2>2, <2>4 DEF EndsOK
<1> QED
  BY <1>1, <1>4, <1>7, <1>8, <1>9, Efforts DEF Effort

(* Every step of msh for a client leaves it less to do; so does nobody else more. *)
LEMMA ProxyStep ==
  ASSUME Types, ProxyInv, [Next]_vars, NEW c \in Clients
  PROVE  /\ EndsOK(c)'
         /\ Moves(c) => Effort(c)' < Effort(c)
         /\ ~Moves(c) /\ ~Accept(c) => Effort(c)' = Effort(c)
         /\ Effort(c) \in 0..11
<1>1. ConnOK /\ PcOK /\ ProxyOK /\ EndsOK(c)
  BY DEF Types, ProxyInv
<1>2. Effort(c) \in 0..11
  BY <1>1, Efforts DEF Effort, EndsOK
<1>3. CASE Moves(c)
  <2>1. EndsOK(c)' /\ Effort(c)' < Effort(c)
    BY <1>1, <1>3, HandlerShorter, DialShorter, ProxyShorter DEF Moves
  <2> QED
    BY <1>2, <1>3, <2>1
<1>4. CASE ~Moves(c) /\ Accept(c)
  <2>1. /\ conn[c] = "none" /\ conn'[c] = "open" /\ UNCHANGED <<sock, fwd, reach>>
    BY <1>1, <1>4 DEF Accept, ConnOK, proxy
  <2> QED
    BY <1>1, <1>2, <1>4, <2>1 DEF EndsOK, Proxied
<1>5. CASE ~Moves(c) /\ Collect(c)
  <2>1. /\ conn[c] = "open" /\ at[c] = "idle" /\ ~Proxied(c) /\ conn'[c] = "closed"
        /\ UNCHANGED <<at, sock, fwd, reach>>
    BY <1>1, <1>5 DEF Collect, Close, ConnOK, proxy
  <2>2. sock[c] = "none"
    <3>1. fwd[c].up = "none"
      BY <2>1, Zenon DEF Proxied, Directions
    <3>2. sock[c] # "open"
      BY <1>1, <3>1 DEF EndsOK, Whole
    <3>3. sock[c] # "closed"
      BY <1>1, <2>1 DEF EndsOK
    <3> QED
      BY <1>1, <3>2, <3>3, Names DEF ProxyOK
  <2>3. Effort(c)' = Effort(c)
    BY <2>1 DEF Effort, ToHandle, ToRelay
  <2> QED
    BY <1>1, <1>2, <1>5, <2>1, <2>2, <2>3 DEF EndsOK, Proxied
<1>6. CASE ~Moves(c) /\ ~Accept(c) /\ ~Collect(c)
  <2>1. Rests(c) /\ (c \in reach' => c \in reach)
    BY <1>6, OthersRest DEF Next, Moves
  <2>2. Effort(c)' = Effort(c)
    BY <2>1 DEF Rests, Effort, ToHandle, ToRelay
  <2> QED
    BY <1>1, <1>2, <1>6, <2>1, <2>2 DEF Rests, EndsOK, Proxied, Whole
<1> QED
  BY <1>3, <1>4, <1>5, <1>6

(* The invariant holds. *)
LEMMA ProxyInvCorrect == Spec => [](Types /\ ProxyInv)
<1>1. Init => ProxyInv
  <2> SUFFICES ASSUME Init, NEW c \in Clients PROVE EndsOK(c)
    BY DEF ProxyInv
  <2>1. /\ at[c] = "idle" /\ conn[c] = "none" /\ sock[c] = "none" /\ reach = {}
        /\ \A d \in Directions : fwd[c][d] = "none"
    BY DEF Init
  <2> QED
    BY <2>1 DEF EndsOK, Proxied
<1>2. Types /\ ProxyInv /\ [Next]_vars => ProxyInv'
  BY ProxyStep DEF ProxyInv
<1> QED
  BY <1>1, <1>2, TypeCorrect, TypeParts, PTL DEF Spec

(* Both connections of a proxy are open while both directions relay, and both are
   closed from the moment the first one ends, in whatever order they notice: no
   direction is left waiting on a connection that nobody closes. *)
THEOREM LeftIsTorn ==
  Spec => [](\A c \in Clients : sock[c] # "none" =>
               \/ conn[c] = "open" /\ sock[c] = "open" /\ Whole(c)
               \/ conn[c] = "closed" /\ sock[c] = "closed" /\ ~Whole(c))
<1>1. Types /\ ProxyInv => \A c \in Clients : sock[c] # "none" =>
               \/ conn[c] = "open" /\ sock[c] = "open" /\ Whole(c)
               \/ conn[c] = "closed" /\ sock[c] = "closed" /\ ~Whole(c)
  BY Names DEF Types, ProxyOK, ProxyInv, EndsOK
<1> QED
  BY <1>1, ProxyInvCorrect, PTL

(* A client takes at most 11 statements of msh, whatever it, the server and the
   other clients do: each one brings its handler and its proxy nearer to their
   end, and nothing but Accept sends them back. *)
THEOREM ClientsAreShort ==
  Spec => [][\A c \in Clients : /\ Moves(c) => Effort(c)' < Effort(c)
                                /\ ~Accept(c) => Effort(c)' <= Effort(c)
                                /\ Effort(c) \in 0..11]_vars
<1>a. Types /\ ProxyInv => \A c \in Clients : Effort(c) \in 0..11
  BY Efforts DEF Effort, EndsOK, ProxyInv, Types
<1>b. (Types /\ ProxyInv => \A c \in Clients : Effort(c) \in 0..11)'
  BY <1>a, PTL
<1>c. ASSUME Types, ProxyInv, Types', ProxyInv', [Next]_vars, NEW c \in Clients
      PROVE  /\ Moves(c) => Effort(c)' < Effort(c)
             /\ ~Accept(c) => Effort(c)' <= Effort(c)
             /\ Effort(c) \in 0..11
  <2>1. Effort(c) \in 0..11 /\ Effort(c)' \in 0..11
    BY <1>a, <1>b, <1>c
  <2>2. Moves(c) => Effort(c)' < Effort(c)
    BY <1>c, ProxyStep
  <2>3. ~Moves(c) /\ ~Accept(c) => Effort(c)' = Effort(c)
    BY <1>c, ProxyStep
  <2> QED
    BY <2>1, <2>2, <2>3
<1>1. Types /\ ProxyInv /\ (Types /\ ProxyInv)' /\ [Next]_vars =>
        [\A c \in Clients : /\ Moves(c) => Effort(c)' < Effort(c)
                            /\ ~Accept(c) => Effort(c)' <= Effort(c)
                            /\ Effort(c) \in 0..11]_vars
  BY <1>c
<1> QED
  BY <1>1, ProxyInvCorrect, PTL DEF Spec
=============================================================================
