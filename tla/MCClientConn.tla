----------------------------- MODULE MCClientConn -----------------------------
EXTENDS ClientConn, TLC

(* Lengths around those where a digit of a sub-header turns over, where the
   digits end and where byte() drops a bit.  An INFO reply carries the icon: 64
   by 64 pixels of four bytes that do not compress make some 22000 bytes. *)
ReplyLengths ==
  [k \in Kinds |-> IF k = "text" THEN {0, 124, 125, 127, 128}
     ELSE {16127, 16252, 16255, 16256} \cup (MaxMessage - 1 .. MaxMessage + 4)
            \cup {22000, 32764, 32765, 32768}]
=============================================================================
