------------------------------ MODULE MsgHeader ------------------------------
(***************************************************************************)
(* The header msh puts before the JSON it sends to a client (mountHeader   *)
(* in lib/conn/conn-prot.go), and how a client reads it.  A message is     *)
(* known by its length: a header is the sequence of its bytes.             *)
(***************************************************************************)
EXTENDS Integers, Sequences

(* The longest JSON the header can stand for: two digits of seven bits count
   to 16383, and sub-header 1 counts three bytes more than the JSON.  Nothing
   in msh keeps a JSON below it. *)
MaxMessage == 16380

(* A mistaken SubHeader: the second digit is the length in hundreds. *)
SubHeaderHundreds(n) == <<(n % 128) + 128, (n \div 100) % 256>>

(* The two digits of a length, least significant first; byte() keeps eight
   bits. *)
SubHeader(n) == <<(n % 128) + 128, (n \div 128) % 256>>

(* Sub-header 3 is the length of the JSON, sub-header 2 a zero byte, and
   sub-header 1 the length of all that follows it. *)
MountHeader(n) == SubHeader(n + 3) \o <<0>> \o SubHeader(n)

(* The client reads two VarInts of the protocol: seven bits a byte, the eighth
   says that another byte follows. *)
VarInt(b1, b2, b3) ==
  IF b1 < 128 THEN b1
  ELSE IF b2 < 128 THEN (b1 - 128) + 128 * b2
  ELSE (b1 - 128) + 128 * (b2 - 128) + 16384 * b3

(* What a client takes for the length of the packet and for that of the JSON,
   when another three bytes or more of JSON follow. *)
PacketLength(h, next) == VarInt(h[1], h[2], h[3])
JsonLength(h, next)   == VarInt(h[4], h[5], next)

(* The client finds the JSON where it is: the packet is the zero byte, two
   digits and the n bytes, and the JSON is the n bytes. *)
Readable(n) ==
  \A next \in {34, 123} :
    LET h == MountHeader(n)
    IN PacketLength(h, next) = n + 3 /\ JsonLength(h, next) = n
=============================================================================
