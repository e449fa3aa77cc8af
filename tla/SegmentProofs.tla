---------------------------- MODULE SegmentProofs ----------------------------
(***************************************************************************)
(* What the segment manager reports, for all durations, timeouts and       *)
(* bounds of the counters, and that it keeps a timer for the next report:  *)
(* theorems about Segment.                                                 *)
(***************************************************************************)
EXTENDS Segment, TLAPS

(* Every variable of Segment stays in its domain. *)
THEOREM TypeCorrect == Spec => []TypeOK
<1>1. Init => TypeOK
  <2> SUFFICES ASSUME Init PROVE TypeOK
    OBVIOUS
  <2>1. NoReport \in Reports
    BY SegmentAssumption DEF NoReport, Reports
  <2>2. 0 \in 0..MaxDur /\ 0 \in 0..Timeout /\ PushPeriod \in 1..PushPeriod
    BY SegmentAssumption
  <2> QED
    BY <2>1, <2>2 DEF Init, TypeOK, Servers
<1>2. TypeOK /\ [Next]_vars => TypeOK'
  <2> SUFFICES ASSUME TypeOK, [Next]_vars PROVE TypeOK'
    OBVIOUS
  <2> USE SegmentAssumption
  <2>1. CASE Second
    BY <2>1 DEF Second, TypeOK, counters, network, Off
  <2>2. CASE ServerChanges
    BY <2>2 DEF ServerChanges, TypeOK, counters, clock, network
  <2>3. CASE Deliver
    BY <2>3 DEF Deliver, TypeOK, counters, clock
  <2>4. CASE Tick
    <3>1. Capped(dur + 1) \in 0..MaxDur /\ Capped(hibe + 1) \in 0..MaxDur
      BY DEF TypeOK, Capped
    <3>2. dur' \in 0..MaxDur /\ hibe' \in 0..MaxDur
      BY <2>4, <3>1 DEF Tick, TypeOK
    <3> QED
      BY <2>4, <3>2 DEF Tick, TypeOK, network
  <2>5. CASE Push
    BY <2>5 DEF Push, TypeOK, counters, network
  <2>6. CASE End
    <3>1. [dur |-> dur, hibe |-> hibe] \in Reports
      BY DEF TypeOK, Reports
    <3>2. 0 \in 0..Timeout
      OBVIOUS
    <3> QED
      BY <2>6, <3>1, <3>2 DEF End, TypeOK, counters
  <2>7. CASE Answer
    <3>1. at = "request" /\ reply.status # "none" => reply.length \in Durations /\ reply.news \in BOOLEAN
      BY DEF TypeOK, Replies, NoReply
    <3>2. Durations \subseteq Nat
      BY DEF Durations
    <3>3. CASE Fails
      BY <3>3 DEF Fails, TypeOK, counters
    <3>4. CASE Reset
      <4>1. 0 \in 0..MaxDur /\ PushPeriod \in 1..PushPeriod
        OBVIOUS
      <4>2. reply.length \in Durations /\ (texts \/ reply.news) \in BOOLEAN
        BY <3>4, <3>1 DEF Reset
      <4> QED
        BY <3>4, <3>2, <4>1, <4>2 DEF Reset, Shows, TypeOK
    <3>5. CASE Forbidden
      BY <3>5 DEF Forbidden, TypeOK, counters, clock, network
    <3>6. CASE Prolong
      BY <3>6, <3>1, <3>2 DEF Prolong, TypeOK, counters
    <3> QED
      BY <2>7, <3>3, <3>4, <3>5, <3>6 DEF Answer
  <2>8. CASE Terminated
    BY <2>8 DEF Terminated, Shows, TypeOK, counters, clock
  <2>9. CASE UNCHANGED vars
    BY <2>9 DEF vars, TypeOK, counters, clock, network
  <2> QED
    BY <2>1, <2>2, <2>3, <2>4, <2>5, <2>6, <2>7, <2>8, <2>9 DEF Next
<1> QED
  BY <1>1, <1>2, PTL DEF Spec

-----------------------------------------------------------------------------
(* What makes the reports right: the counters stand still while a request is
   made, and an answer belongs to the request that is being made. *)
ReportInv ==
  /\ hibe <= dur
  /\ report.hibe <= report.dur
  /\ at = "request" => report = [dur |-> dur, hibe |-> hibe]
  /\ at = "select" => reply = NoReply
  /\ reply.status = "ok" => accepted

(* ReportInv is an invariant. *)
LEMMA ReportInvCorrect == Spec => []ReportInv
<1>1. Init => ReportInv
  BY DEF Init, ReportInv, NoReport, NoReply
<1>2. TypeOK /\ ReportInv /\ [Next]_vars => ReportInv'
  <2> SUFFICES ASSUME TypeOK, ReportInv, [Next]_vars PROVE ReportInv'
    OBVIOUS
  <2> USE SegmentAssumption DEF ReportInv
  <2>1. CASE Second
    BY <2>1 DEF Second, counters, network
  <2>2. CASE ServerChanges
    BY <2>2 DEF ServerChanges, counters, network
  <2>3. CASE Deliver
    BY <2>3 DEF Deliver, counters
  <2>4. CASE Tick
    <3>1. Capped(dur) <= Capped(dur + 1) /\ Capped(hibe + 1) <= Capped(dur + 1)
          /\ Capped(dur) = dur
      BY DEF TypeOK, Capped
    <3>2. hibe' <= dur'
      <4>1. dur' = Capped(dur + 1) /\ (hibe' = Capped(hibe + 1) \/ hibe' = hibe)
        BY <2>4 DEF Tick
      <4>2. CASE hibe' = hibe
        BY <4>1, <4>2, <3>1 DEF TypeOK, Capped
      <4> QED
        BY <4>1, <4>2, <3>1
    <3> QED
      BY <2>4, <3>2 DEF Tick, network
  <2>5. CASE Push
    BY <2>5 DEF Push, counters, network
  <2>6. CASE End
    BY <2>6 DEF End, counters, NoReply
  <2>7. CASE Answer
    <3>1. NoReply.status # "ok"
      BY DEF NoReply
    <3>2. CASE Fails
      BY <3>1, <3>2 DEF Fails, counters
    <3>3. CASE Reset
      BY <3>1, <3>3 DEF Reset
    <3>4. CASE Forbidden
      BY <3>4 DEF Forbidden, counters, network
    <3>5. CASE Prolong
      BY <3>1, <3>5 DEF Prolong, counters
    <3> QED
      BY <2>7, <3>2, <3>3, <3>4, <3>5 DEF Answer
  <2>8. CASE Terminated
    BY <2>8 DEF Terminated, counters, NoReply
  <2>9. CASE UNCHANGED vars
    BY <2>9 DEF vars, counters, network
  <2> QED
    BY <2>1, <2>2, <2>3, <2>4, <2>5, <2>6, <2>7, <2>8, <2>9 DEF Next
<1> QED
  BY <1>1, <1>2, TypeCorrect, PTL DEF Spec

(* No report of sgmMgr claims more hibernation than its segment lasted
   (sgmMgr, buildApi2Req). *)
THEOREM ReportsFitCorrect == Spec => []ReportsFit
<1>1. ReportInv => ReportsFit
  BY DEF ReportInv, ReportsFit
<1> QED
  BY <1>1, ReportInvCorrect, PTL

(* The counters go back only once the update server has what they hold: lost,
   refused and late requests lose no second (reset, prolong). *)
THEOREM NoSecondLostCorrect == Spec => NoSecondLost
<1> DEFINE Kept == dur' < dur \/ hibe' < hibe
                     => accepted /\ report = [dur |-> dur, hibe |-> hibe]
<1>1. TypeOK /\ ReportInv /\ [Next]_vars => [Kept]_vars
  <2> SUFFICES ASSUME TypeOK, ReportInv, Next PROVE Kept
    OBVIOUS
  <2>1. CASE Reset
    BY <2>1 DEF Reset, ReportInv
  <2>2. CASE Tick
    <3>1. dur <= Capped(dur + 1) /\ hibe <= Capped(hibe + 1) /\ hibe <= hibe
      BY SegmentAssumption DEF TypeOK, Capped
    <3>2. dur' = Capped(dur + 1) /\ (hibe' = Capped(hibe + 1) \/ hibe' = hibe)
      BY <2>2 DEF Tick
    <3> QED
      BY <3>1, <3>2, SegmentAssumption DEF TypeOK, Capped
  <2>3. CASE dur' = dur /\ hibe' = hibe
    BY <2>3 DEF TypeOK
  <2> QED
    BY <2>1, <2>2, <2>3 DEF Next, Second, ServerChanges, Deliver, Push, End, Answer,
         Fails, Forbidden, Prolong, Terminated, counters
<1> QED
  BY <1>1, TypeCorrect, ReportInvCorrect, PTL DEF Spec, NoSecondLost

(* Whatever becomes of a request, lost, late, refused, or answered with any
   header, the timer of the next one is set when sgmMgr waits again; only an
   update server that forbids the version leaves it without one, and then for
   good (sgmMgr, prolong, reset). *)
THEOREM TimerIsSet ==
  Spec => [][/\ at' = "select" /\ end' = Off => at = "terminate" \/ (at = "select" /\ end = Off)
             /\ at = "select" /\ end = Off => at' = "select" /\ end' = Off]_vars
<1> DEFINE Set  == at' = "select" /\ end' = Off => at = "terminate" \/ (at = "select" /\ end = Off)
           Lost == at = "select" /\ end = Off => at' = "select" /\ end' = Off
<1>1. TypeOK /\ [Next]_vars => [Set /\ Lost]_vars
  <2> SUFFICES ASSUME TypeOK, Next PROVE Set /\ Lost
    OBVIOUS
  <2>0. end \in Int
    BY DEF TypeOK, Off
  <2>1. CASE Second
    <3>1. at' = at /\ end' = IF end > 0 THEN end - 1 ELSE end
      BY <2>1 DEF Second
    <3> QED
      BY <2>0, <3>1 DEF Off
  <2>2. CASE End
    BY <2>2 DEF End, Off
  <2>3. CASE Answer
    <3>1. CASE Fails
      BY <3>1, SegmentAssumption DEF Fails, Off
    <3>2. CASE Forbidden
      BY <3>2 DEF Forbidden
    <3>3. CASE Reset \/ Prolong
      <4>1. at = "request" /\ end' = reply.length /\ reply.status # "none"
        BY <3>3 DEF Reset, Prolong
      <4>2. reply \in Replies
        BY <4>1 DEF TypeOK, NoReply
      <4>3. reply.length \in Nat
        BY <4>2, SegmentAssumption DEF Replies, Durations
      <4>4. end' # Off
        BY <4>1, <4>3 DEF Off
      <4> QED
        BY <4>1, <4>4
    <3> QED
      BY <2>3, <3>1, <3>2, <3>3 DEF Answer
  <2>4. CASE Terminated
    BY <2>4 DEF Terminated
  <2>5. CASE UNCHANGED <<at, end>>
    BY <2>5
  <2> QED
    BY <2>1, <2>2, <2>3, <2>4, <2>5 DEF Next, ServerChanges, Deliver, Tick, Push, clock
<1> QED
  BY <1>1, TypeCorrect, PTL DEF Spec
=============================================================================
