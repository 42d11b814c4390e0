----------------------------- MODULE AlertRouter -----------------------------
(***************************************************************************)
(* Alert routing (alerting/router.py): AlertRouter.decide and dispatch,    *)
(* the cooldown lookup in mon.alert_log (Repository.last_alert_time and    *)
(* log_alert), AlertsConfig.routing_for and timeutil.in_quiet_hours.       *)
(*                                                                         *)
(* A dispatcher is one worker thread handing its findings to a router of   *)
(* its own.  Two dispatchers for the same monitored server exist whenever  *)
(* a fast and a daily run overlap: the tier locks are distinct, the        *)
(* alert_log is shared, and nothing spans lookup, send and log.            *)
(*                                                                         *)
(* Time is the hour of a day of Day hours.  Of alert_log the router only   *)
(* asks how long ago a fingerprint was last delivered, so the log is an    *)
(* age per fingerprint that saturates at Cooldown, where "long ago" and    *)
(* "never" answer alike; the state space is finite without a time bound.   *)
(***************************************************************************)
EXTENDS Integers, Sequences, FiniteSetsExt

CONSTANTS
  Dispatcher,
  Fingerprint,
  Channel,
  Enabled,      \* the channels _build_channels made
  Routing,      \* alerts.routing: a sequence of channels per severity
  Tags,         \* server.tags, a sequence
  ByTag,        \* alerts.by_tag: per tag, the severities it reroutes
  Batches,      \* the lists of findings an evaluation may hand over
  Day,          \* hours in a day
  Cooldown,     \* cooldown_minutes, in hours; 0 turns it off
  QuietStart, QuietEnd, AllowCrit,
  Slow,         \* the hour may turn while a dispatch is under way
  MaxBurst,     \* bound on the count of pages within one window
  Faults        \* the faults the environment may inject, see FaultKind

(* "channel"  a send raises and nothing was delivered                        *)
(* "ack"      a send raises although the message went out (a read timeout)   *)
(* "log"      the INSERT into alert_log raises                               *)
(* "lookup"   the SELECT for the cooldown raises                             *)
(* "crash"    the process is killed                                          *)
FaultKind == {"channel", "ack", "log", "lookup", "crash"}

Severity == {"info", "warn", "crit"}
AlertableSeverities == {"warn", "crit"}
AlertableCategories == {"cpu", "memory", "io", "space", "blocking", "deadlock", "availability"}
Category == AlertableCategories \cup {"index", "stats", "query"}
Finding == [fp : Fingerprint, severity : Severity, category : Category]
Verdict == {"send", "severity", "category", "unrouted", "disabled", "cooldown", "quiet"}

ASSUME RouteAssumption ==
  /\ Enabled \subseteq Channel /\ Channel # {}
  /\ Routing \in [Severity -> Seq(Channel)]
  /\ \A i \in DOMAIN Tags : Tags[i] \in DOMAIN ByTag
  /\ \A t \in DOMAIN ByTag : /\ DOMAIN ByTag[t] \subseteq Severity
                             /\ \A v \in DOMAIN ByTag[t] : ByTag[t][v] \in Seq(Channel)
ASSUME BatchAssumption == Batches \subseteq Seq(Finding)
ASSUME TimeAssumption ==
  /\ Day \in Nat \ {0} /\ Cooldown \in Nat /\ MaxBurst \in Nat \ {0}
  /\ QuietStart \in 0..Day-1 /\ QuietEnd \in 0..Day-1
  /\ AllowCrit \in BOOLEAN /\ Slow \in BOOLEAN /\ Faults \subseteq FaultKind

VARIABLES
  hour,      \* the local hour
  logAge,    \* logAge[f]: hours since the newest ok row of f in alert_log
  pc,        \* pc[d]: "idle", "deciding", "sending" or "recording"
  batch,     \* batch[d]: the findings still to route, the current one first
  quiet,     \* quiet[d]: AlertRouter.now, taken at construction, is in quiet hours
  verdict,   \* verdict[d]: the last AlertDecision
  left,      \* left[d]: the positions in its route the current finding is still to go to
  sendOk,    \* sendOk[d]: whether the send just made returned
  sentAge,   \* sentAge[f][c]: hours since c really delivered f
  burst      \* burst[f][c]: deliveries of f on c, each within Cooldown of the last,
             \* since a fault last hid one of f from the cooldown

routerVars == <<pc, batch, quiet, verdict, left, sendOk>>
pageVars   == <<sentAge, burst>>
vars == <<hour, logAge, routerVars, pageVars>>

(* routing_for: the last tag of the server that reroutes the severity wins.  *)
RoutingFor(severity) ==
  LET Over == {i \in DOMAIN Tags : severity \in DOMAIN ByTag[Tags[i]]}
  IN  IF Over = {} THEN Routing[severity]
      ELSE LET last == CHOOSE i \in Over : \A j \in Over : j <= i
           IN  ByTag[Tags[last]][severity]

(* The route of the finding that d is at.                                    *)
Route(d) == RoutingFor(Head(batch[d]).severity)

TypeOK ==
  /\ hour \in 0..Day-1
  /\ logAge \in [Fingerprint -> 0..Cooldown]
  /\ pc \in [Dispatcher -> {"idle", "deciding", "sending", "recording"}]
  /\ batch \in [Dispatcher -> Seq(Finding)]
  /\ quiet \in [Dispatcher -> BOOLEAN]
  /\ verdict \in [Dispatcher -> Verdict \cup {"none"}]
  /\ left \in [Dispatcher -> SUBSET Nat]
  /\ \A d \in Dispatcher : pc[d] \in {"sending", "recording"} =>
       /\ batch[d] # <<>> /\ left[d] # {} /\ left[d] \subseteq 1..Len(Route(d))
       /\ \A i \in left[d] : Route(d)[i] \in Enabled
  /\ sendOk \in [Dispatcher -> BOOLEAN]
  /\ sentAge \in [Fingerprint -> [Channel -> 0..Cooldown]]
  /\ burst \in [Fingerprint -> [Channel -> 0..MaxBurst]]

Init ==
  /\ hour \in 0..Day-1
  /\ logAge = [f \in Fingerprint |-> Cooldown]
  /\ pc = [d \in Dispatcher |-> "idle"]
  /\ batch = [d \in Dispatcher |-> <<>>]
  /\ quiet = [d \in Dispatcher |-> FALSE]
  /\ verdict = [d \in Dispatcher |-> "none"]
  /\ left = [d \in Dispatcher |-> {}]
  /\ sendOk = [d \in Dispatcher |-> FALSE]
  /\ sentAge = [f \in Fingerprint |-> [c \in Channel |-> Cooldown]]
  /\ burst = [f \in Fingerprint |-> [c \in Channel |-> 0]]

-----------------------------------------------------------------------------
(* AlertRouter.decide.                                                       *)

InQuietHoursAlways(h, from, to) ==  \* mutant: an empty window wraps to a full one
  IF from < to THEN from <= h /\ h < to ELSE h >= from \/ h < to

(* Quiet hours may wrap past midnight; equal ends mean there are none.       *)
InQuietHours(h, from, to) ==
  CASE from = to -> FALSE
    [] from < to -> from <= h /\ h < to
    [] OTHER     -> h >= from \/ h < to

EnabledRouteAll(severity) == 1..Len(RoutingFor(severity))  \* mutant: disabled channels are kept

(* The positions in a route of the channels that there are.                  *)
EnabledRoute(severity) ==
  {i \in 1..Len(RoutingFor(severity)) : RoutingFor(severity)[i] \in Enabled}

(* _in_cooldown; a lookup that fails lets the alert through.                 *)
InCooldown(f) ==
  {Cooldown > 0 /\ logAge[f] < Cooldown} \cup (IF "lookup" \in Faults THEN {FALSE} ELSE {})

QuietAtAnyHour(d, severity) == ~(AllowCrit /\ severity = "crit")  \* mutant: the hour is not asked

Quiet(d, severity) == quiet[d] /\ ~(AllowCrit /\ severity = "crit")

Verdicts(d, f) ==
  CASE f.severity \notin AlertableSeverities -> {"severity"}
    [] f.severity \in AlertableSeverities /\ f.category \notin AlertableCategories -> {"category"}
    [] OTHER ->
         CASE RoutingFor(f.severity) = <<>>   -> {"unrouted"}
           [] RoutingFor(f.severity) # <<>> /\ EnabledRoute(f.severity) = {} -> {"disabled"}
           [] OTHER -> {IF cool THEN "cooldown" ELSE IF Quiet(d, f.severity) THEN "quiet" ELSE "send" :
                          cool \in InCooldown(f.fp)}

-----------------------------------------------------------------------------
(* AlertRouter.dispatch, one finding and one channel after the other.        *)

(* A fault lets f page again however recent its last page: no fault, no more *)
(* pages (of the history variable burst; the code keeps no such count).      *)
Hidden(f) == burst' = [burst EXCEPT ![f] = [c \in Channel |-> 0]]

(* A worker builds its router, which reads the clock once, and hands over.   *)
Begin(d) ==
  /\ pc[d] = "idle"
  /\ \E b \in Batches : batch' = [batch EXCEPT ![d] = b]
  /\ quiet' = [quiet EXCEPT ![d] = InQuietHours(hour, QuietStart, QuietEnd)]
  /\ pc' = [pc EXCEPT ![d] = "deciding"]
  /\ UNCHANGED <<hour, logAge, verdict, left, sendOk, pageVars>>

Decide(d) ==
  /\ pc[d] = "deciding" /\ batch[d] # <<>>
  /\ \E v \in Verdicts(d, Head(batch[d])) :
       /\ verdict' = [verdict EXCEPT ![d] = v]
       /\ IF v = "send" /\ logAge[Head(batch[d]).fp] < Cooldown
          THEN Hidden(Head(batch[d]).fp)
          ELSE UNCHANGED burst
       /\ \/ /\ v = "send"
             /\ left' = [left EXCEPT ![d] = EnabledRoute(Head(batch[d]).severity)]
             /\ pc' = [pc EXCEPT ![d] = "sending"]
             /\ UNCHANGED batch
          \/ /\ v # "send"
             /\ batch' = [batch EXCEPT ![d] = Tail(@)]
             /\ UNCHANGED <<left, pc>>
  /\ UNCHANGED <<hour, logAge, quiet, sendOk, sentAge>>

(* The position d sends to, and the channel.                                 *)
At(d)      == Min(left[d])
Current(d) == Route(d)[At(d)]

(* What a message that goes out means to whoever carries the pager.          *)
Deliver(f, c) == sentAge' = [sentAge EXCEPT ![f][c] = 0]

Count(f, c) ==
  burst' = [burst EXCEPT ![f][c] =
              IF sentAge[f][c] >= Cooldown THEN 1 ELSE IF @ < MaxBurst THEN @ + 1 ELSE @]

Sent(d, ok) ==
  /\ pc' = [pc EXCEPT ![d] = "recording"]
  /\ sendOk' = [sendOk EXCEPT ![d] = ok]
  /\ UNCHANGED <<hour, logAge, batch, quiet, verdict, left>>

Send(d) ==
  /\ pc[d] = "sending"
  /\ Deliver(Head(batch[d]).fp, Current(d))
  /\ \/ Sent(d, TRUE) /\ Count(Head(batch[d]).fp, Current(d))
     \/ "ack" \in Faults /\ Sent(d, FALSE) /\ Hidden(Head(batch[d]).fp)

SendFails(d) ==
  /\ pc[d] = "sending"
  /\ "channel" \in Faults
  /\ Sent(d, FALSE)
  /\ UNCHANGED pageVars

(* The next channel, or the next finding when there is none.                 *)
NextChannel(d) ==
  /\ left' = [left EXCEPT ![d] = @ \ {At(d)}]
  /\ sendOk' = [sendOk EXCEPT ![d] = FALSE]
  /\ IF left[d] = {At(d)}
     THEN /\ pc' = [pc EXCEPT ![d] = "deciding"]
          /\ batch' = [batch EXCEPT ![d] = Tail(@)]
     ELSE /\ pc' = [pc EXCEPT ![d] = "sending"]
          /\ UNCHANGED batch

RecordAnyway(d) ==  \* mutant: the cooldown counts failed rows (no AND ok = 1)
  /\ pc[d] = "recording"
  /\ logAge' = [logAge EXCEPT ![Head(batch[d]).fp] = 0]
  /\ NextChannel(d)
  /\ UNCHANGED <<hour, quiet, verdict, pageVars>>

RecordNever(d) ==  \* mutant: a delivered page leaves no ok row
  /\ pc[d] = "recording"
  /\ NextChannel(d)
  /\ UNCHANGED <<hour, logAge, quiet, verdict, pageVars>>

(* _record: a row per attempt, of which last_alert_time sees the ok ones.    *)
(* A failing INSERT is swallowed.                                            *)
Record(d) ==
  /\ pc[d] = "recording"
  /\ \/ /\ logAge' = IF sendOk[d] THEN [logAge EXCEPT ![Head(batch[d]).fp] = 0] ELSE logAge
        /\ UNCHANGED burst
     \/ /\ "log" \in Faults /\ sendOk[d]
        /\ UNCHANGED logAge
        /\ Hidden(Head(batch[d]).fp)
  /\ NextChannel(d)
  /\ UNCHANGED <<hour, quiet, verdict, sentAge>>

(* The router goes, and what it kept.                                        *)
Dismiss(d) ==
  /\ pc' = [pc EXCEPT ![d] = "idle"]
  /\ batch' = [batch EXCEPT ![d] = <<>>]
  /\ quiet' = [quiet EXCEPT ![d] = FALSE]
  /\ verdict' = [verdict EXCEPT ![d] = "none"]
  /\ left' = [left EXCEPT ![d] = {}]
  /\ sendOk' = [sendOk EXCEPT ![d] = FALSE]

Finish(d) ==
  /\ pc[d] = "deciding" /\ batch[d] = <<>>
  /\ Dismiss(d)
  /\ UNCHANGED <<hour, logAge, pageVars>>

(* Killed with findings still to route; without any it is as good as done.   *)
Crash(d) ==
  /\ "crash" \in Faults
  /\ pc[d] # "idle" /\ batch[d] # <<>>
  /\ Dismiss(d)
  /\ IF pc[d] = "recording" /\ sendOk[d] THEN Hidden(Head(batch[d]).fp) ELSE UNCHANGED burst
  /\ UNCHANGED <<hour, logAge, sentAge>>

Older(age) == IF age < Cooldown THEN age + 1 ELSE age

(* An hour passes.  A dispatch takes seconds (SMTP waits 15, webhooks 10),   *)
(* so unless Slow says otherwise none is under way when the hour turns.      *)
Tick ==
  /\ Slow \/ \A d \in Dispatcher : pc[d] = "idle"
  /\ hour' = (hour + 1) % Day
  /\ logAge' = [f \in Fingerprint |-> Older(logAge[f])]
  /\ sentAge' = [f \in Fingerprint |-> [c \in Channel |-> Older(sentAge[f][c])]]
  /\ UNCHANGED <<routerVars, burst>>

Step(d) == Decide(d) \/ Send(d) \/ SendFails(d) \/ Record(d) \/ Finish(d)

Next ==
  \/ \E d \in Dispatcher : Begin(d) \/ Step(d) \/ Crash(d)
  \/ Tick

Spec == Init /\ [][Next]_vars

(* Dispatchers keep running and the scheduler, every 15 minutes, also starts *)
(* them outside quiet hours; no failure hits every attempt, and processes    *)
(* are not killed for ever.  A dispatch takes seconds, so there always comes *)
(* a moment with none under way, time passes, and every hour comes again.    *)
Fairness ==
  /\ \A h \in 0..Day-1 : []<>(hour = h)
  /\ <>[][\A d \in Dispatcher : ~Crash(d)]_vars
  /\ \A d \in Dispatcher :
       /\ SF_vars(Begin(d) /\ ~InQuietHours(hour, QuietStart, QuietEnd))
       /\ SF_vars(Decide(d)) /\ SF_vars(Send(d))
       /\ WF_vars(Step(d))

FairSpec == Spec /\ Fairness

-----------------------------------------------------------------------------
(* Correctness.                                                              *)

(* router.py's header: "the same fingerprint is not re-sent within the       *)
(* cooldown window".  The lookup, the send and the log row are three steps   *)
(* with nothing to keep another process out, so each dispatcher that decided *)
(* before the first of them logged may send one page, and never more, unless *)
(* a fault hides a page from the cooldown: a send that only seems to fail, a *)
(* lost row, a failing lookup, a kill.  After it the same holds again.  With *)
(* one dispatcher this is the header's sentence.                             *)
BurstBounded ==
  \A f \in Fingerprint, c \in Channel : burst[f][c] <= Cardinality(Dispatcher)

(* "A repo hiccup must not silence alerts", nor may a failed channel, a lost *)
(* row or a crash: when the cooldown suppresses a finding, somebody really   *)
(* was paged for that fingerprint within the window.                         *)
SuppressionJustified ==
  [][\A d \in Dispatcher :
       /\ pc[d] = "deciding" /\ batch'[d] # batch[d] /\ batch[d] # <<>>
       /\ verdict'[d] = "cooldown"
       => \E c \in Channel : sentAge[Head(batch[d]).fp][c] < Cooldown]_vars

(* The log never claims a fresher delivery than there was.                   *)
LogNotAhead ==
  \A f \in Fingerprint : \E c \in Channel : sentAge[f][c] <= logAge[f]

(* in_quiet_hours against its meaning: the hour is quiet when the clock,     *)
(* started at the window's first hour, shows it before the window's end; and *)
(* a router that reads the clock once, when it is built, judges all its      *)
(* findings by the hour they are sent in.                                    *)
QuietWindow ==
  /\ \A from, to \in 0..Day-1 :
       InQuietHours(hour, from, to) <=> (hour - from) % Day < (to - from) % Day
  /\ \A d \in Dispatcher :
       pc[d] # "idle" => (quiet[d] <=> (hour - QuietStart) % Day < (QuietEnd - QuietStart) % Day)

(* A problem that every evaluation reports keeps paging: neither a cooldown  *)
(* nor the quiet hours nor a failing channel ever silences it for good.      *)
StandingProblemPaged ==
  \A f \in Fingerprint : []<>(\E c \in Channel : sentAge[f][c] = 0)
=============================================================================
