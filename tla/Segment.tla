------------------------------- MODULE Segment -------------------------------
(***************************************************************************)
(* The segment manager of lib/progmgr (sgmMgr): it counts the seconds of   *)
(* a segment, reports them to the update server when the segment ends,     *)
(* and shows the players what the update server said of the version.       *)
(* Time is counted in ticks of sgm.tk; the durations are constants.        *)
(***************************************************************************)
EXTENDS Integers

CONSTANTS
  Headers,     \* values of x-ratelimit-reset in the answers; 0 stands for all below 1
  DefDur,      \* sgm.defDur: a segment whose answer has no such header
  ProlongDur,  \* what a request that failed prolongs the segment by
  PushPeriod,  \* the period of sgm.push.tk
  Timeout,     \* the timeout of the http client
  MaxDur       \* bound of the counters, which stop there

ASSUME SegmentAssumption ==
  /\ Headers \subseteq Nat
  /\ DefDur \in Nat \ {0} /\ ProlongDur \in Nat \ {0} /\ PushPeriod \in Nat \ {0}
  /\ Timeout \in Nat /\ MaxDur \in Nat

VARIABLES
  at,        \* statement of sgmMgr
  dur, hibe, \* sgm.stats.dur, sgm.stats.hibeDur
  tick,      \* a tick waits in the channel of sgm.tk
  end,       \* ticks left until sgm.end fires; 0 when it has; Off when drained
  length,    \* the duration the timer of this segment was made with
  push,      \* ticks left until sgm.push.tk fires
  pushed,    \* a tick waits in the channel of sgm.push.tk
  texts,     \* sgm.push.verCheck or sgm.push.messages is not empty
  report,    \* the counters in the last request built at the end of a segment
  reply,     \* the answer of the update server to the request being made
  accepted,  \* the update server has accepted that report
  waited,    \* ticks since the request was sent
  server     \* "cold" when CheckMSWarm fails; "empty", or "played" when ConnCount > 0

clock    == <<tick, end, push, pushed, waited>>
counters == <<dur, hibe>>
network  == <<report, reply, accepted>>
vars     == <<at, counters, clock, length, texts, network, server>>

Off == -1
Statuses == {"ok", "forbidden", "other"}
Durations == Headers \cup {DefDur}
Reports == [dur : 0..MaxDur, hibe : 0..MaxDur]
(* news: the body holds something to show: a deprecated version always, another
   result or messages if NotifyUpdate and NotifyMessage let them through.  A
   body that cannot be read holds nothing. *)
Replies == [status : Statuses, length : Durations, news : BOOLEAN]
Servers == {"cold", "empty", "played"}
NoReport == [dur |-> 0, hibe |-> 0]
NoReply == [status |-> "none"]

(* Every variable stays in its domain. *)
TypeOK ==
  /\ at \in {"select", "request", "terminate"}
  /\ dur \in 0..MaxDur /\ hibe \in 0..MaxDur
  /\ tick \in BOOLEAN /\ pushed \in BOOLEAN
  /\ end \in Nat \cup {Off}
  /\ length \in Durations \cup {0}
  /\ push \in 1..PushPeriod
  /\ texts \in BOOLEAN
  /\ report \in Reports /\ accepted \in BOOLEAN
  /\ reply \in Replies \cup {NoReply}
  /\ waited \in 0..Timeout
  /\ server \in Servers

(* sgm.reset(0): the first request is sent at once. *)
Init ==
  /\ at = "select"
  /\ dur = 0 /\ hibe = 0
  /\ tick = FALSE /\ end = 0 /\ length = 0 /\ push = PushPeriod /\ pushed = FALSE
  /\ texts = FALSE
  /\ report = NoReport /\ reply = NoReply /\ accepted = FALSE /\ waited = 0
  /\ server = "cold"

-----------------------------------------------------------------------------
(* The clock and the rest of the world *)

(* A mistaken Second: the ticker of the notification is a timer. *)
SecondFiresOnce ==
  /\ at = "request" => waited < Timeout
  /\ tick' = TRUE
  /\ end' = IF end > 0 THEN end - 1 ELSE end
  /\ push' = push - 1
  /\ pushed' = (pushed \/ push = 1)
  /\ waited' = IF at = "request" THEN waited + 1 ELSE 0
  /\ UNCHANGED <<at, counters, length, texts, network, server>>

(* A second passes.  A tick that finds its channel full is dropped, and the
   http client does not wait longer than its timeout. *)
Second ==
  /\ at = "request" => waited < Timeout
  /\ tick' = TRUE
  /\ end' = IF end > 0 THEN end - 1 ELSE end
  /\ push' = IF push = 1 THEN PushPeriod ELSE push - 1
  /\ pushed' = (pushed \/ push = 1)
  /\ waited' = IF at = "request" THEN waited + 1 ELSE 0
  /\ UNCHANGED <<at, counters, length, texts, network, server>>

(* The server comes and goes, players join and leave. *)
ServerChanges ==
  /\ server' \in Servers
  /\ UNCHANGED <<at, counters, clock, length, texts, network>>

(* The update server takes the request and answers.  It keeps the counters of
   a request it accepts, whether or not its answer arrives in time. *)
Deliver ==
  /\ at = "request" /\ reply = NoReply
  /\ reply' \in Replies
  /\ accepted' = (reply'.status = "ok")
  /\ UNCHANGED <<at, counters, clock, length, texts, report, server>>

-----------------------------------------------------------------------------
(* sgmMgr *)

Capped(n) == IF n > MaxDur THEN MaxDur ELSE n

(* case <-sgm.tk.C *)
Tick ==
  /\ at = "select" /\ tick
  /\ tick' = FALSE
  /\ dur' = Capped(dur + 1)
  /\ hibe' = IF server = "cold" THEN Capped(hibe + 1) ELSE hibe
  /\ UNCHANGED <<at, end, push, pushed, waited, length, texts, network, server>>

(* case <-sgm.push.tk.C: TellRaw writes to a server that is warm. *)
Announces == texts /\ server = "played"
Push ==
  /\ at = "select" /\ pushed
  /\ pushed' = FALSE
  /\ UNCHANGED <<at, counters, tick, end, push, waited, length, texts, network, server>>

(* A mistaken End: the segment is over when its request is sent. *)
EndResets ==
  /\ at = "select" /\ end = 0
  /\ end' = Off
  /\ report' = [dur |-> dur, hibe |-> hibe]
  /\ dur' = 0 /\ hibe' = 0
  /\ accepted' = FALSE /\ waited' = 0
  /\ at' = "request"
  /\ UNCHANGED <<tick, push, pushed, length, texts, reply, server>>

(* case <-sgm.end.C: the request is built and sent. *)
End ==
  /\ at = "select" /\ end = 0
  /\ end' = Off
  /\ report' = [dur |-> dur, hibe |-> hibe]
  /\ accepted' = FALSE /\ waited' = 0
  /\ at' = "request"
  /\ UNCHANGED <<counters, tick, push, pushed, length, texts, reply, server>>

(* A mistaken Fails: the timer is not set again. *)
FailsForGood ==
  /\ at = "request"
  /\ at' = "select" /\ reply' = NoReply
  /\ UNCHANGED <<counters, clock, length, texts, report, accepted, server>>

(* A mistaken Fails: the ticker of the notification starts anew, as in reset. *)
FailsAndPutsOff ==
  /\ at = "request"
  /\ end' = ProlongDur /\ push' = PushPeriod /\ pushed' = FALSE
  /\ at' = "select" /\ reply' = NoReply
  /\ UNCHANGED <<counters, tick, waited, length, texts, report, accepted, server>>

(* The request was lost, or its answer is late or was cut off. *)
Fails ==
  /\ at = "request"
  /\ end' = ProlongDur
  /\ at' = "select" /\ reply' = NoReply
  /\ UNCHANGED <<counters, tick, push, pushed, waited, length, texts, report, accepted, server>>

(* readApi2Res and the switch on the result, added to what is shown already. *)
Shows(shown) == texts' = (shown \/ reply.news)

(* A mistaken Reset: the seconds of hibernation go on. *)
ResetKeepsHibe ==
  /\ at = "request" /\ reply.status = "ok"
  /\ dur' = 0
  /\ end' = reply.length /\ length' = reply.length
  /\ push' = PushPeriod /\ pushed' = FALSE
  /\ Shows(FALSE)
  /\ at' = "select" /\ reply' = NoReply
  /\ UNCHANGED <<hibe, tick, waited, report, accepted, server>>

(* status 200: reset(res) *)
Reset ==
  /\ at = "request" /\ reply.status = "ok"
  /\ dur' = 0 /\ hibe' = 0
  /\ end' = reply.length /\ length' = reply.length
  /\ push' = PushPeriod /\ pushed' = FALSE
  /\ Shows(FALSE)
  /\ at' = "select" /\ reply' = NoReply
  /\ UNCHANGED <<tick, waited, report, accepted, server>>

(* status 403: AutoTerminate, which may wait for the manager for ever. *)
Forbidden ==
  /\ at = "request" /\ reply.status = "forbidden"
  /\ at' = "terminate"
  /\ UNCHANGED <<counters, clock, length, texts, network, server>>

(* AutoTerminate has returned: the answer is read all the same, and no timer is set. *)
Terminated ==
  /\ at = "terminate"
  /\ Shows(texts)
  /\ at' = "select" /\ reply' = NoReply
  /\ UNCHANGED <<counters, clock, length, report, accepted, server>>

(* any other status: prolong(res) *)
Prolong ==
  /\ at = "request" /\ reply.status = "other"
  /\ end' = reply.length
  /\ at' = "select" /\ reply' = NoReply
  /\ UNCHANGED <<counters, tick, push, pushed, waited, length, texts, report, accepted, server>>

Answer == Fails \/ Reset \/ Forbidden \/ Prolong

Next == Second \/ ServerChanges \/ Deliver \/ Tick \/ Push \/ End \/ Answer \/ Terminated

Spec == Init /\ [][Next]_vars

(* Time passes, the http client returns at its timeout at the latest, and
   select takes each of the channels that are ready again and again: Go picks
   among them at random. *)
Fairness ==
  /\ WF_vars(Second) /\ WF_vars(Answer)
  /\ SF_vars(Tick) /\ SF_vars(Push) /\ SF_vars(End)

FairSpec == Spec /\ Fairness
-----------------------------------------------------------------------------
(* The hibernation a segment reports lies within the segment: "segment seconds
   in which ms server was hibernating" (model.go:68) of those that sgmMgr counts. *)
ReportsFit == report.hibe <= report.dur

(* No second that was counted is lost: the counters go back only when the
   update server has accepted a report of exactly what they hold, however many
   requests were lost, refused or answered too late before (sgmMgr, reset). *)
NoSecondLost ==
  [][dur' < dur \/ hibe' < hibe => accepted /\ report = [dur |-> dur, hibe |-> hibe]]_vars

(* sgmMgr goes on reporting until the update server forbids it: every way a
   request may end sets the timer of the next one (prolong, reset). *)
KeepsReporting == []<>(at = "request") \/ <>(at = "terminate")

Notified == Push /\ Announces

(* While somebody plays on a warm server, what the update server said of the
   version is shown to the players again and again, if segments are not shorter
   than the period of the notification, which reset starts anew, and msh was
   not told to end. *)
PlayersAreNotified ==
  <>[](server = "played" /\ texts /\ length >= PushPeriod /\ at # "terminate")
    => []<><<Notified>>_vars
=============================================================================
