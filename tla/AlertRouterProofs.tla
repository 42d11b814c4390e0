-------------------------- MODULE AlertRouterProofs --------------------------
(***************************************************************************)
(* What AlertRouter guarantees for any number of dispatchers, fingerprints *)
(* and channels, under every fault.                                        *)
(***************************************************************************)
EXTENDS AlertRouter, WellFoundedInduction, FiniteSetTheorems, TLAPS

LEMMA MinOfSet ==
  ASSUME NEW S \in SUBSET Nat, S # {}
  PROVE  Min(S) \in S
<1>1. \E x \in S : \A y \in S : x <= y
  <2>1. PICK x \in S : \A y \in S : ~(<<y, x>> \in OpToRel(<, Nat))
    BY Zenon, NatLessThanWellFounded, WFMin
  <2>2. \A y \in S : ~(y < x)
    BY <2>1 DEF OpToRel
  <2>3. QED
    BY <2>2
<1>2. QED
  BY <1>1 DEF Min

(* What TypeOK is made of: the clock and the ages, the routers, and where    *)
(* the current finding of a router is still to go to.                        *)
AgeType ==
  /\ hour \in 0..Day-1
  /\ logAge \in [Fingerprint -> 0..Cooldown]
  /\ sentAge \in [Fingerprint -> [Channel -> 0..Cooldown]]
  /\ burst \in [Fingerprint -> [Channel -> 0..MaxBurst]]

RouterType ==
  /\ pc \in [Dispatcher -> {"idle", "deciding", "sending", "recording"}]
  /\ batch \in [Dispatcher -> Seq(Finding)]
  /\ quiet \in [Dispatcher -> BOOLEAN]
  /\ verdict \in [Dispatcher -> Verdict \cup {"none"}]
  /\ left \in [Dispatcher -> SUBSET Nat]
  /\ sendOk \in [Dispatcher -> BOOLEAN]

Underway(d) ==
  pc[d] \in {"sending", "recording"} =>
    /\ batch[d] # <<>> /\ left[d] # {} /\ left[d] \subseteq 1..Len(Route(d))
    /\ \A i \in left[d] : Route(d)[i] \in Enabled

LEMMA TypeParts == TypeOK <=> AgeType /\ RouterType /\ \A d \in Dispatcher : Underway(d)
BY DEF TypeOK, AgeType, RouterType, Underway

(* The finding and the channel a router is at.                               *)
LEMMA CurrentFinding ==
  ASSUME RouterType, NEW d \in Dispatcher, batch[d] # <<>>
  PROVE  /\ Head(batch[d]) \in Finding /\ Head(batch[d]).fp \in Fingerprint
         /\ Head(batch[d]).severity \in Severity
         /\ Tail(batch[d]) \in Seq(Finding)
<1>1. batch[d] \in Seq(Finding)
  BY DEF RouterType
<1>2. Head(batch[d]) \in Finding /\ Tail(batch[d]) \in Seq(Finding)
  BY <1>1
<1>3. QED
  BY <1>2 DEF Finding

LEMMA CurrentChannel ==
  ASSUME RouterType, NEW d \in Dispatcher, Underway(d), pc[d] \in {"sending", "recording"}
  PROVE  /\ At(d) \in left[d] /\ At(d) \in Nat
         /\ Current(d) \in Enabled /\ Current(d) \in Channel
<1>1. left[d] \in SUBSET Nat /\ left[d] # {}
  BY DEF RouterType, Underway
<1>2. At(d) \in left[d]
  BY <1>1, MinOfSet DEF At
<1>3. QED
  BY <1>1, <1>2, RouteAssumption DEF Underway, Current

LEMMA VerdictFacts ==
  ASSUME NEW d \in Dispatcher, NEW f \in Finding, NEW v \in Verdicts(d, f)
  PROVE  /\ v \in Verdict
         /\ v = "send" => EnabledRoute(f.severity) # {}
         /\ v = "cooldown" => logAge[f.fp] < Cooldown
<1>1. CASE f.severity \notin AlertableSeverities
  BY <1>1 DEF Verdicts, Verdict
<1>2. CASE f.severity \in AlertableSeverities /\ f.category \notin AlertableCategories
  BY <1>2 DEF Verdicts, Verdict
<1>3. CASE f.severity \in AlertableSeverities /\ f.category \in AlertableCategories
  <2>1. CASE RoutingFor(f.severity) = <<>>
    BY <1>3, <2>1 DEF Verdicts, Verdict
  <2>2. CASE RoutingFor(f.severity) # <<>> /\ EnabledRoute(f.severity) = {}
    BY <1>3, <2>2 DEF Verdicts, Verdict
  <2>3. CASE RoutingFor(f.severity) # <<>> /\ EnabledRoute(f.severity) # {}
    <3>1. PICK cool \in InCooldown(f.fp) :
            v = IF cool THEN "cooldown" ELSE IF Quiet(d, f.severity) THEN "quiet" ELSE "send"
      BY <1>3, <2>3 DEF Verdicts
    <3>2. v = "cooldown" => cool
      BY <3>1
    <3>3. cool => Cooldown > 0 /\ logAge[f.fp] < Cooldown
      BY DEF InCooldown
    <3>4. QED
      BY <2>3, <3>1, <3>2, <3>3 DEF Verdict
  <2>4. QED
    BY <2>1, <2>2, <2>3
<1>4. QED
  BY <1>1, <1>2, <1>3

-----------------------------------------------------------------------------
(* Types.                                                                    *)

LEMMA TypeInit == Init => TypeOK
BY RouteAssumption, TimeAssumption DEF Init, TypeOK, Verdict

(* A step of one router leaves the others where they are.                    *)
LEMMA OneRouter ==
  ASSUME TypeOK, NEW d \in Dispatcher, AgeType', RouterType', Underway(d)',
         pc' = [pc EXCEPT ![d] = pc'[d]], batch' = [batch EXCEPT ![d] = batch'[d]],
         left' = [left EXCEPT ![d] = left'[d]]
  PROVE  TypeOK'
<1>1. ASSUME NEW e \in Dispatcher, e # d PROVE Underway(e)'
  BY <1>1, TypeParts DEF RouterType, Underway, Route
<1>2. \A e \in Dispatcher : Underway(e)'
  BY <1>1
<1>3. QED
  BY <1>2 DEF TypeOK, AgeType, RouterType, Underway

LEMMA BeginType == ASSUME TypeOK, NEW d \in Dispatcher, Begin(d) PROVE TypeOK'
<1> USE TypeParts
<1>1. AgeType'
  BY DEF AgeType, Begin, pageVars
<1>2. RouterType'
  <2>1. PICK b \in Batches : batch' = [batch EXCEPT ![d] = b]
    BY DEF Begin
  <2>2. b \in Seq(Finding)
    BY BatchAssumption
  <2>3. InQuietHours(hour, QuietStart, QuietEnd) \in BOOLEAN
    BY DEF InQuietHours
  <2>4. QED
    BY <2>1, <2>2, <2>3 DEF RouterType, Begin
<1>3. Underway(d)'
  BY DEF Begin, RouterType, Underway
<1>4. QED
  BY <1>1, <1>2, <1>3, OneRouter DEF Begin, RouterType

(* A count that a fault resets, or that a page raises, stays within bounds.  *)
LEMMA HiddenType == ASSUME AgeType, NEW f \in Fingerprint, Hidden(f)
                    PROVE  burst' \in [Fingerprint -> [Channel -> 0..MaxBurst]]
BY TimeAssumption DEF AgeType, Hidden

LEMMA DecideType == ASSUME TypeOK, NEW d \in Dispatcher, Decide(d) PROVE TypeOK'
<1> USE TypeParts
<1> DEFINE finding == Head(batch[d])
<1>1. /\ finding \in Finding /\ finding.fp \in Fingerprint /\ finding.severity \in Severity
      /\ Tail(batch[d]) \in Seq(Finding)
  BY CurrentFinding DEF Decide
<1>2. PICK v \in Verdicts(d, finding) :
        /\ verdict' = [verdict EXCEPT ![d] = v]
        /\ Hidden(finding.fp) \/ UNCHANGED burst
        /\ \/ /\ v = "send"
              /\ left' = [left EXCEPT ![d] = EnabledRoute(finding.severity)]
              /\ pc' = [pc EXCEPT ![d] = "sending"]
              /\ UNCHANGED batch
           \/ /\ v # "send"
              /\ batch' = [batch EXCEPT ![d] = Tail(@)]
              /\ UNCHANGED <<left, pc>>
  BY DEF Decide
<1>3. v \in Verdict /\ (v = "send" => EnabledRoute(finding.severity) # {})
  BY <1>1, VerdictFacts
<1>4. EnabledRoute(finding.severity) \in SUBSET Nat
  BY DEF EnabledRoute
<1>5. AgeType'
  BY <1>1, <1>2, HiddenType DEF AgeType, Decide
<1>6. RouterType'
  <2>1. verdict' \in [Dispatcher -> Verdict \cup {"none"}] /\ UNCHANGED <<quiet, sendOk>>
    BY <1>2, <1>3 DEF RouterType, Decide
  <2>2. pc' \in [Dispatcher -> {"idle", "deciding", "sending", "recording"}]
    BY <1>2 DEF RouterType
  <2>3. left' \in [Dispatcher -> SUBSET Nat]
    BY <1>2, <1>4 DEF RouterType
  <2>4. batch' \in [Dispatcher -> Seq(Finding)]
    BY <1>1, <1>2 DEF RouterType
  <2>5. QED
    BY <2>1, <2>2, <2>3, <2>4 DEF RouterType
<1>7. Underway(d)'
  <2>1. CASE v = "send"
    <3>1. batch[d] # <<>> /\ batch' = batch /\ left'[d] = EnabledRoute(finding.severity)
      BY <1>2, <2>1 DEF Decide, RouterType
    <3>2. QED
      BY <1>3, <2>1, <3>1 DEF Underway, Route, EnabledRoute
  <2>2. CASE v # "send"
    BY <1>2, <2>2 DEF Underway, Decide
  <2>3. QED
    BY <2>1, <2>2
<1>8. QED
  <2>1. CASE v = "send"
    BY <1>2, <1>5, <1>6, <1>7, <2>1, OneRouter DEF RouterType
  <2>2. CASE v # "send"
    BY <1>2, <1>5, <1>6, <1>7, <2>2, OneRouter DEF RouterType
  <2>3. QED
    BY <2>1, <2>2

LEMMA SendType == ASSUME TypeOK, NEW d \in Dispatcher, Send(d) \/ SendFails(d) PROVE TypeOK'
<1> USE TypeParts
<1>1. pc[d] = "sending" /\ batch[d] # <<>>
  BY DEF Send, SendFails, Underway
<1>2. Head(batch[d]).fp \in Fingerprint /\ Current(d) \in Channel
  BY <1>1, CurrentFinding, CurrentChannel
<1>3. PICK ok \in BOOLEAN : Sent(d, ok)
  BY DEF Send, SendFails
<1>4. AgeType'
  <2>1. CASE UNCHANGED pageVars
    BY <1>3, <2>1 DEF AgeType, Sent, pageVars
  <2>2. CASE Deliver(Head(batch[d]).fp, Current(d)) /\ Count(Head(batch[d]).fp, Current(d))
    BY <1>2, <1>3, <2>2, TimeAssumption DEF AgeType, Sent, Deliver, Count
  <2>3. CASE Deliver(Head(batch[d]).fp, Current(d)) /\ Hidden(Head(batch[d]).fp)
    BY <1>2, <1>3, <2>3, HiddenType, TimeAssumption DEF AgeType, Sent, Deliver
  <2>4. QED
    BY <2>1, <2>2, <2>3 DEF Send, SendFails
<1>5. RouterType'
  BY <1>3 DEF RouterType, Sent
<1>6. Underway(d)'
  BY <1>1, <1>3 DEF Underway, Sent, Route
<1>7. QED
  BY <1>3, <1>4, <1>5, <1>6, OneRouter DEF Sent, RouterType

LEMMA RecordType == ASSUME TypeOK, NEW d \in Dispatcher, Record(d) PROVE TypeOK'
<1> USE TypeParts
<1>1. pc[d] = "recording" /\ batch[d] # <<>> /\ NextChannel(d)
  BY DEF Record, Underway
<1>2. Head(batch[d]).fp \in Fingerprint /\ Tail(batch[d]) \in Seq(Finding) /\ At(d) \in left[d]
  BY <1>1, CurrentFinding, CurrentChannel
<1>3. AgeType'
  <2>1. logAge' \in [Fingerprint -> 0..Cooldown]
    <3>1. UNCHANGED logAge \/ logAge' = [logAge EXCEPT ![Head(batch[d]).fp] = 0]
      BY DEF Record
    <3>2. logAge \in [Fingerprint -> 0..Cooldown] /\ 0 \in 0..Cooldown
      BY TimeAssumption DEF AgeType
    <3>3. QED
      BY <1>2, <3>1, <3>2
  <2>2. burst' \in [Fingerprint -> [Channel -> 0..MaxBurst]]
    BY <1>2, HiddenType DEF Record, AgeType
  <2>3. QED
    BY <2>1, <2>2 DEF Record, AgeType
<1>4. RouterType'
  BY <1>1, <1>2 DEF RouterType, NextChannel, Record
<1>5. Underway(d)'
  <2>1. CASE left[d] = {At(d)}
    BY <1>1, <2>1 DEF NextChannel, RouterType, Underway
  <2>2. CASE left[d] # {At(d)}
    <3>1. batch' = batch /\ left'[d] = left[d] \ {At(d)}
      BY <1>1, <2>2 DEF NextChannel, RouterType
    <3>2. left'[d] # {}
      BY <1>2, <2>2, <3>1
    <3>3. QED
      BY <1>1, <3>1, <3>2 DEF Underway, Route
  <2>3. QED
    BY <2>1, <2>2
<1>6. QED
  <2>1. CASE left[d] = {At(d)}
    BY <1>1, <1>3, <1>4, <1>5, <2>1, OneRouter DEF NextChannel, RouterType
  <2>2. CASE left[d] # {At(d)}
    BY <1>1, <1>3, <1>4, <1>5, <2>2, OneRouter DEF NextChannel, RouterType
  <2>3. QED
    BY <2>1, <2>2

LEMMA EndType == ASSUME TypeOK, NEW d \in Dispatcher, Finish(d) \/ Crash(d) PROVE TypeOK'
<1> USE TypeParts
<1>1. Dismiss(d)
  BY DEF Finish, Crash
<1>2. AgeType'
  <2>1. CASE UNCHANGED burst
    BY <2>1 DEF Finish, Crash, AgeType, pageVars
  <2>2. CASE ~UNCHANGED burst
    <3>1. Crash(d) /\ batch[d] # <<>> /\ Hidden(Head(batch[d]).fp)
      BY <2>2 DEF Finish, Crash, pageVars
    <3>2. Head(batch[d]).fp \in Fingerprint
      BY <3>1, CurrentFinding
    <3>3. QED
      BY <3>1, <3>2, HiddenType DEF Crash, AgeType
  <2>3. QED
    BY <2>1, <2>2
<1>3. RouterType'
  BY <1>1 DEF Dismiss, RouterType
<1>4. Underway(d)'
  BY <1>1 DEF Dismiss, RouterType, Underway
<1>5. QED
  BY <1>1, <1>2, <1>3, <1>4, OneRouter DEF Dismiss, RouterType

LEMMA TickType == ASSUME TypeOK, Tick PROVE TypeOK'
<1>1. AgeType'
  BY TypeParts, TimeAssumption DEF Tick, AgeType, Older
<1>2. QED
  BY <1>1, TypeParts DEF Tick, AgeType, RouterType, Underway, Route, TypeOK, routerVars

LEMMA TypeStep == TypeOK /\ [Next]_vars => TypeOK'
<1>1. ASSUME TypeOK, UNCHANGED vars PROVE TypeOK'
  BY <1>1 DEF TypeOK, vars, routerVars, pageVars, Route
<1>2. QED
  BY <1>1, BeginType, DecideType, SendType, RecordType, EndType, TickType DEF Next, Step

(* Every value keeps its type, and a router that is sending has somewhere to *)
(* send to: positions of the route of its current finding, at channels that  *)
(* were made, however dispatchers interleave, fail, time out and crash.      *)
THEOREM TypeCorrect == Spec => []TypeOK
BY TypeInit, TypeStep, PTL DEF Spec

-----------------------------------------------------------------------------
(* What the log claims.  A row is written after the send it tells of, so the *)
(* log can only be right if a router about to write an ok row has delivered  *)
(* its finding, and within this very hour.                                   *)

Recorded ==
  \A d \in Dispatcher : pc[d] = "recording" /\ sendOk[d] =>
    \E c \in Channel : sentAge[Head(batch[d]).fp][c] = 0

LEMMA HonestInit == Init => LogNotAhead /\ Recorded
BY RouteAssumption, TimeAssumption DEF Init, LogNotAhead, Recorded

(* Deliveries only make the pages fresher.                                   *)
LEMMA FresherPages ==
  ASSUME TypeOK, NEW d \in Dispatcher, Send(d)
  PROVE  /\ pc[d] = "sending" /\ Head(batch[d]).fp \in Fingerprint /\ Current(d) \in Channel
         /\ sentAge' = [sentAge EXCEPT ![Head(batch[d]).fp][Current(d)] = 0]
         /\ sentAge'[Head(batch[d]).fp][Current(d)] = 0
         /\ \A f \in Fingerprint, c \in Channel :
              sentAge'[f][c] = sentAge[f][c] \/ sentAge'[f][c] = 0
<1>1. AgeType /\ RouterType /\ Underway(d) /\ pc[d] = "sending"
  BY TypeParts DEF Send
<1>2. Head(batch[d]).fp \in Fingerprint /\ Current(d) \in Channel
  BY <1>1, CurrentFinding, CurrentChannel DEF Underway
<1>3. sentAge' = [sentAge EXCEPT ![Head(batch[d]).fp][Current(d)] = 0]
  BY DEF Send, Deliver
<1>4. QED
  BY <1>1, <1>2, <1>3 DEF AgeType

LEMMA HonestSend ==
  ASSUME TypeOK, LogNotAhead, Recorded, NEW d \in Dispatcher, Send(d)
  PROVE  LogNotAhead' /\ Recorded'
<1>1. logAge' = logAge /\ batch' = batch
  BY DEF Send, Sent
<1>2. LogNotAhead'
  <2>1. SUFFICES ASSUME NEW f \in Fingerprint
                 PROVE  \E c \in Channel : sentAge'[f][c] <= logAge'[f]
    BY DEF LogNotAhead
  <2>2. PICK c \in Channel : sentAge[f][c] <= logAge[f]
    BY DEF LogNotAhead
  <2>3. logAge[f] \in Nat /\ (sentAge'[f][c] = sentAge[f][c] \/ sentAge'[f][c] = 0)
    <3>1. logAge \in [Fingerprint -> 0..Cooldown]
      BY TypeParts DEF AgeType
    <3>2. logAge[f] \in Nat
      BY <3>1, TimeAssumption
    <3>3. QED
      BY <3>2, FresherPages
  <2>4. QED
    BY <1>1, <2>2, <2>3
<1>3. Recorded'
  <2>1. SUFFICES ASSUME NEW e \in Dispatcher, pc'[e] = "recording", sendOk'[e]
                 PROVE  \E c \in Channel : sentAge'[Head(batch[e]).fp][c] = 0
    BY <1>1 DEF Recorded
  <2>2. CASE e = d
    BY <2>2, FresherPages
  <2>3. CASE e # d
    <3>1. pc[e] = "recording" /\ sendOk[e]
      BY <2>1, <2>3, TypeParts DEF Send, Sent, RouterType
    <3>2. PICK c \in Channel : sentAge[Head(batch[e]).fp][c] = 0
      BY <3>1 DEF Recorded
    <3>3. Head(batch[e]).fp \in Fingerprint
      BY <3>1, TypeParts, CurrentFinding DEF Underway
    <3>4. QED
      BY <3>2, <3>3, FresherPages
  <2>4. QED
    BY <2>2, <2>3
<1>4. QED
  BY <1>2, <1>3

LEMMA HonestRecord ==
  ASSUME TypeOK, LogNotAhead, Recorded, NEW d \in Dispatcher, Record(d)
  PROVE  LogNotAhead' /\ Recorded'
<1>1. /\ sentAge' = sentAge /\ pc[d] = "recording"
      /\ \/ UNCHANGED logAge
         \/ sendOk[d] /\ logAge' = [logAge EXCEPT ![Head(batch[d]).fp] = 0]
  BY DEF Record
<1>2. LogNotAhead'
  <2>1. CASE UNCHANGED logAge
    BY <1>1, <2>1 DEF LogNotAhead
  <2>2. CASE sendOk[d] /\ logAge' = [logAge EXCEPT ![Head(batch[d]).fp] = 0]
    <3>1. PICK c \in Channel : sentAge[Head(batch[d]).fp][c] = 0
      BY <1>1, <2>2 DEF Recorded
    <3>2. logAge \in [Fingerprint -> 0..Cooldown]
      BY TypeParts DEF AgeType
    <3>3. QED
      BY <1>1, <2>2, <3>1, <3>2 DEF LogNotAhead
  <2>3. QED
    BY <1>1, <2>1, <2>2
<1>3. Recorded'
  <2>1. SUFFICES ASSUME NEW e \in Dispatcher, pc'[e] = "recording", sendOk'[e]
                 PROVE  \E c \in Channel : sentAge[Head(batch'[e]).fp][c] = 0
    BY <1>1 DEF Recorded
  <2>2. NextChannel(d)
    BY DEF Record
  <2>3. e # d
    BY <2>1, <2>2, TypeParts DEF NextChannel, RouterType
  <2>4. pc[e] = "recording" /\ sendOk[e] /\ batch'[e] = batch[e]
    BY <2>1, <2>2, <2>3, TypeParts DEF NextChannel, RouterType
  <2>5. QED
    BY <2>4 DEF Recorded
<1>4. QED
  BY <1>2, <1>3

(* The other steps of a router write no row and deliver nothing.             *)
LEMMA HonestQuiet ==
  ASSUME TypeOK, LogNotAhead, Recorded, NEW d \in Dispatcher,
         Begin(d) \/ Decide(d) \/ SendFails(d) \/ Finish(d) \/ Crash(d)
  PROVE  LogNotAhead' /\ Recorded'
<1>1. logAge' = logAge /\ sentAge' = sentAge
  BY DEF Begin, Decide, SendFails, Sent, Finish, Crash, pageVars
<1>2. ASSUME NEW e \in Dispatcher, pc'[e] = "recording", sendOk'[e]
      PROVE  pc[e] = "recording" /\ sendOk[e] /\ batch'[e] = batch[e]
  <2>1. e # d
    <3>1. CASE Begin(d) \/ Decide(d)
      BY <1>2, <3>1, TypeParts DEF Begin, Decide, RouterType
    <3>2. CASE SendFails(d) \/ Finish(d) \/ Crash(d)
      BY <1>2, <3>2, TypeParts DEF SendFails, Sent, Finish, Crash, Dismiss, RouterType
    <3>3. QED
      BY <3>1, <3>2
  <2>2. CASE Begin(d) \/ Decide(d)
    BY <1>2, <2>1, <2>2, TypeParts DEF Begin, Decide, RouterType
  <2>3. CASE SendFails(d) \/ Finish(d) \/ Crash(d)
    BY <1>2, <2>1, <2>3, TypeParts DEF SendFails, Sent, Finish, Crash, Dismiss, RouterType
  <2>4. QED
    BY <2>2, <2>3
<1>3. QED
  BY <1>1, <1>2 DEF LogNotAhead, Recorded

LEMMA HonestTick ==
  ASSUME ~Slow, TypeOK, LogNotAhead, Tick
  PROVE  LogNotAhead' /\ Recorded'
<1>1. Recorded'
  BY DEF Tick, Recorded, routerVars
<1>2. LogNotAhead'
  BY TypeParts, TimeAssumption DEF Tick, LogNotAhead, AgeType, Older
<1>3. QED
  BY <1>1, <1>2

LEMMA HonestStep ==
  ASSUME ~Slow
  PROVE  TypeOK /\ LogNotAhead /\ Recorded /\ [Next]_vars => (LogNotAhead /\ Recorded)'
<1>1. ASSUME LogNotAhead, Recorded, UNCHANGED vars PROVE (LogNotAhead /\ Recorded)'
  BY <1>1 DEF LogNotAhead, Recorded, vars, routerVars, pageVars
<1>2. QED
  BY <1>1, HonestSend, HonestRecord, HonestQuiet, HonestTick DEF Next, Step

(* When no dispatch outlasts the hour, the log never claims a fresher        *)
(* delivery than there was, whatever interleaves and whatever fails.         *)
THEOREM LogHonest == ASSUME ~Slow PROVE Spec => []LogNotAhead
<1>1. Init => TypeOK /\ LogNotAhead /\ Recorded
  BY TypeInit, HonestInit
<1>2. TypeOK /\ LogNotAhead /\ Recorded /\ [Next]_vars => (TypeOK /\ LogNotAhead /\ Recorded)'
  BY TypeStep, HonestStep
<1>3. QED
  BY <1>1, <1>2, PTL DEF Spec

(* "A repo hiccup must not silence alerts": when the cooldown suppresses a   *)
(* finding, somebody really was paged for it within the window, in spite of  *)
(* failing channels, lost rows, failing lookups, crashes and interleavings.  *)
THEOREM SuppressesOnlyThePaged == ASSUME ~Slow PROVE Spec => SuppressionJustified
<1> DEFINE Justified ==
      \A d \in Dispatcher :
        /\ pc[d] = "deciding" /\ batch'[d] # batch[d] /\ batch[d] # <<>>
        /\ verdict'[d] = "cooldown"
        => \E c \in Channel : sentAge[Head(batch[d]).fp][c] < Cooldown
<1>1. TypeOK /\ LogNotAhead /\ [Next]_vars => [Justified]_vars
  <2>1. SUFFICES ASSUME TypeOK, LogNotAhead, Next, NEW d \in Dispatcher, pc[d] = "deciding",
                        batch'[d] # batch[d], batch[d] # <<>>, verdict'[d] = "cooldown"
                 PROVE  \E c \in Channel : sentAge[Head(batch[d]).fp][c] < Cooldown
    OBVIOUS
  <2>2. Decide(d)
    <3>1. ASSUME NEW e \in Dispatcher, e # d, Begin(e) \/ Step(e) \/ Crash(e) PROVE FALSE
      <4>1. UNCHANGED batch \/ \E x : batch' = [batch EXCEPT ![e] = x]
        BY <3>1 DEF Begin, Step, Decide, Send, SendFails, Sent, Record, NextChannel, Finish, Crash, Dismiss
      <4>2. QED
        BY <2>1, <3>1, <4>1, TypeParts DEF RouterType
    <3>2. ~Tick
      BY <2>1 DEF Tick, routerVars
    <3>3. ~Begin(d) /\ ~Send(d) /\ ~SendFails(d) /\ ~Record(d) /\ ~Finish(d)
      BY <2>1 DEF Begin, Send, SendFails, Record, Finish
    <3>4. ~Crash(d)
      BY <2>1, TypeParts DEF Crash, Dismiss, RouterType
    <3>5. QED
      BY <2>1, <3>1, <3>2, <3>3, <3>4 DEF Next, Step
  <2>3. "cooldown" \in Verdicts(d, Head(batch[d]))
    BY <2>1, <2>2, TypeParts DEF Decide, RouterType
  <2>4. Head(batch[d]) \in Finding /\ Head(batch[d]).fp \in Fingerprint
    BY <2>1, CurrentFinding, TypeParts
  <2>5. logAge[Head(batch[d]).fp] < Cooldown
    BY <2>3, <2>4, VerdictFacts
  <2>6. PICK c \in Channel : sentAge[Head(batch[d]).fp][c] <= logAge[Head(batch[d]).fp]
    BY <2>1, <2>4 DEF LogNotAhead
  <2>7. QED
    BY <2>1, <2>4, <2>5, <2>6, TypeParts, TimeAssumption DEF AgeType
<1>2. QED
  BY <1>1, TypeCorrect, LogHonest, PTL DEF Spec, SuppressionJustified

-----------------------------------------------------------------------------
(* How many pages slip through.  Between two faults that hide a page, a      *)
(* router that decided to send has at most one page on a channel to its      *)
(* account, and no new one decides to once a page is logged; so the pages    *)
(* made and the routers that still have one to make never outnumber the      *)
(* routers.                                                                  *)

(* A route names a channel at most once.                                     *)
NoChannelTwice ==
  \A s \in Severity : \A i, j \in 1..Len(RoutingFor(s)) :
    RoutingFor(s)[i] = RoutingFor(s)[j] => i = j

(* d will still send f to c; d has sent f to c and will log that it did.     *)
IsAhead(d, f, c) ==
  /\ pc[d] \in {"sending", "recording"} /\ Head(batch[d]).fp = f
  /\ \E i \in left[d] : Route(d)[i] = c /\ (pc[d] = "recording" => i # At(d))

IsUnlogged(d, f, c) ==
  pc[d] = "recording" /\ sendOk[d] /\ Head(batch[d]).fp = f /\ Current(d) = c

Ahead(f, c)    == {d \in Dispatcher : IsAhead(d, f, c)}
Unlogged(f, c) == {d \in Dispatcher : IsUnlogged(d, f, c)}

(* While f is fresh on c: pages made and still to make are one per router;   *)
(* and pages that the log does not tell of yet are one per router about to   *)
(* log.                                                                      *)
Book(f, c) ==
  /\ burst[f][c] <= Cardinality(Dispatcher)
  /\ sentAge[f][c] < Cooldown =>
       /\ burst[f][c] + Cardinality(Ahead(f, c)) <= Cardinality(Dispatcher)
       /\ logAge[f] > sentAge[f][c] \/ (logAge[f] # 0 /\ Ahead(f, c) # {})
          => burst[f][c] <= Cardinality(Unlogged(f, c))

Booked == \A f \in Fingerprint, c \in Channel : Book(f, c)

LEMMA SubsetSize ==
  ASSUME IsFiniteSet(Dispatcher), NEW T \in SUBSET Dispatcher, NEW S \in SUBSET T
  PROVE  /\ IsFiniteSet(S) /\ Cardinality(S) \in Nat /\ Cardinality(T) \in Nat
         /\ Cardinality(S) <= Cardinality(T) /\ Cardinality(T) <= Cardinality(Dispatcher)
         /\ Cardinality(Dispatcher) \in Nat
<1>1. IsFiniteSet(T) /\ Cardinality(T) <= Cardinality(Dispatcher)
  BY FS_Subset
<1>2. IsFiniteSet(S) /\ Cardinality(S) <= Cardinality(T)
  BY <1>1, FS_Subset
<1>3. QED
  BY <1>1, <1>2, FS_CardinalityType

LEMMA OneMore ==
  ASSUME IsFiniteSet(Dispatcher), NEW S \in SUBSET Dispatcher, NEW d \in Dispatcher, d \notin S
  PROVE  S \cup {d} \in SUBSET Dispatcher /\ Cardinality(S \cup {d}) = Cardinality(S) + 1
<1>1. IsFiniteSet(S)
  BY FS_Subset
<1>2. QED
  BY <1>1, FS_AddElement

LEMMA ApartSize ==
  ASSUME IsFiniteSet(Dispatcher), NEW S \in SUBSET Dispatcher, NEW T \in SUBSET Dispatcher,
         S \cap T = {}
  PROVE  Cardinality(S) + Cardinality(T) <= Cardinality(Dispatcher)
<1>1. IsFiniteSet(S) /\ IsFiniteSet(T)
  BY FS_Subset
<1>2. Cardinality(S \cup T) = Cardinality(S) + Cardinality(T) - Cardinality(S \cap T)
  BY <1>1, FS_Union
<1>3. Cardinality(S \cap T) = 0
  BY FS_EmptySet
<1>4. Cardinality(S \cup T) <= Cardinality(Dispatcher)
  BY SubsetSize
<1>5. Cardinality(S) \in Nat /\ Cardinality(T) \in Nat
  BY SubsetSize
<1>6. QED
  BY <1>2, <1>3, <1>4, <1>5

(* Nobody is still to make a page and about to log it.                       *)
LEMMA AheadOrUnlogged ==
  ASSUME TypeOK, NoChannelTwice, NEW d \in Dispatcher, NEW f, NEW c, IsAhead(d, f, c)
  PROVE  ~IsUnlogged(d, f, c)
<1>1. SUFFICES ASSUME pc[d] = "recording", Current(d) = c PROVE FALSE
  BY DEF IsUnlogged
<1>2. PICK i \in left[d] : Route(d)[i] = c /\ i # At(d)
  BY <1>1 DEF IsAhead
<1>3. /\ left[d] \subseteq 1..Len(Route(d)) /\ At(d) \in left[d]
      /\ Head(batch[d]).severity \in Severity
  BY <1>1, TypeParts, CurrentChannel, CurrentFinding DEF Underway
<1>4. QED
  BY <1>1, <1>2, <1>3 DEF NoChannelTwice, Route, Current

(* One router steps.                                                         *)
OnlyRouter(d) ==
  /\ pc' = [pc EXCEPT ![d] = pc'[d]] /\ batch' = [batch EXCEPT ![d] = batch'[d]]
  /\ left' = [left EXCEPT ![d] = left'[d]] /\ sendOk' = [sendOk EXCEPT ![d] = sendOk'[d]]

LEMMA OneSteps ==
  ASSUME TypeOK, NEW d \in Dispatcher, Begin(d) \/ Step(d) \/ Crash(d)
  PROVE  OnlyRouter(d)
<1>1. RouterType
  BY TypeParts
<1>2. CASE Begin(d) \/ Decide(d)
  BY <1>1, <1>2 DEF Begin, Decide, OnlyRouter, RouterType
<1>3. CASE Send(d) \/ SendFails(d)
  BY <1>1, <1>3 DEF Send, SendFails, Sent, OnlyRouter, RouterType
<1>4. CASE Record(d)
  BY <1>1, <1>4 DEF Record, NextChannel, OnlyRouter, RouterType
<1>5. CASE Finish(d) \/ Crash(d)
  BY <1>1, <1>5 DEF Finish, Crash, Dismiss, OnlyRouter, RouterType
<1>6. QED
  BY <1>2, <1>3, <1>4, <1>5 DEF Step

LEMMA OthersAlone ==
  ASSUME TypeOK, NEW d \in Dispatcher, OnlyRouter(d), NEW e \in Dispatcher, e # d, NEW f, NEW c
  PROVE  /\ IsAhead(e, f, c)' <=> IsAhead(e, f, c)
         /\ IsUnlogged(e, f, c)' <=> IsUnlogged(e, f, c)
<1>1. pc'[e] = pc[e] /\ batch'[e] = batch[e] /\ left'[e] = left[e] /\ sendOk'[e] = sendOk[e]
  BY TypeParts DEF RouterType, OnlyRouter
<1>2. QED
  BY <1>1 DEF IsAhead, IsUnlogged, Route, At, Current

(* What a step does to the two sets: it may move d in or out of them.        *)
LEMMA SetsMove ==
  ASSUME TypeOK, NEW d \in Dispatcher, OnlyRouter(d), NEW f, NEW c
  PROVE  /\ IsAhead(d, f, c)' => Ahead(f, c)' = Ahead(f, c) \cup {d}
         /\ ~IsAhead(d, f, c)' => Ahead(f, c)' = Ahead(f, c) \ {d}
         /\ IsUnlogged(d, f, c)' => Unlogged(f, c)' = Unlogged(f, c) \cup {d}
         /\ ~IsUnlogged(d, f, c)' => Unlogged(f, c)' = Unlogged(f, c) \ {d}
BY OthersAlone DEF Ahead, Unlogged

LEMMA Ages ==
  ASSUME TypeOK, NEW f \in Fingerprint, NEW c \in Channel
  PROVE  logAge[f] \in 0..Cooldown /\ sentAge[f][c] \in 0..Cooldown /\ burst[f][c] \in 0..MaxBurst
BY TypeParts DEF AgeType

(* Nothing is sent; nothing that must be logged is dropped.                  *)
LEMMA BookKept ==
  ASSUME IsFiniteSet(Dispatcher), TypeOK, TypeOK', NEW d \in Dispatcher, OnlyRouter(d),
         NEW f \in Fingerprint, NEW c \in Channel, Book(f, c),
         burst'[f][c] = burst[f][c], sentAge'[f][c] = sentAge[f][c],
         IsAhead(d, f, c)' => IsAhead(d, f, c),
         \/ logAge'[f] = 0
         \/ logAge'[f] = logAge[f] /\ (IsUnlogged(d, f, c) => IsUnlogged(d, f, c)')
  PROVE  Book(f, c)'
<1>1. Ahead(f, c)' \subseteq Ahead(f, c) /\ Ahead(f, c) \subseteq Dispatcher
  <2>1. (IsAhead(d, f, c) => d \in Ahead(f, c)) /\ Ahead(f, c) \subseteq Dispatcher
    BY DEF Ahead
  <2>2. CASE IsAhead(d, f, c)'
    BY <2>1, <2>2, SetsMove
  <2>3. CASE ~IsAhead(d, f, c)'
    BY <2>1, <2>3, SetsMove
  <2>4. QED
    BY <2>1, <2>2, <2>3
<1>2. /\ Cardinality(Ahead(f, c)') <= Cardinality(Ahead(f, c))
      /\ Cardinality(Ahead(f, c)') \in Nat /\ Cardinality(Ahead(f, c)) \in Nat
      /\ Cardinality(Dispatcher) \in Nat
  BY <1>1, SubsetSize
<1>3. /\ burst[f][c] \in Nat /\ logAge[f] \in Nat /\ sentAge[f][c] \in Nat /\ Cooldown \in Nat
  BY Ages, TimeAssumption
<1>4. CASE logAge'[f] = 0
  <2>1. ~(logAge'[f] > sentAge'[f][c])
    BY <1>3, <1>4
  <2>2. QED
    BY <1>2, <1>3, <1>4, <2>1 DEF Book
<1>5. CASE logAge'[f] = logAge[f] /\ (IsUnlogged(d, f, c) => IsUnlogged(d, f, c)')
  <2>1. Unlogged(f, c) \subseteq Unlogged(f, c)' /\ Unlogged(f, c)' \subseteq Dispatcher
    BY <1>5, SetsMove DEF Unlogged
  <2>2. /\ Cardinality(Unlogged(f, c)) <= Cardinality(Unlogged(f, c)')
        /\ Cardinality(Unlogged(f, c)') \in Nat /\ Cardinality(Unlogged(f, c)) \in Nat
    BY <2>1, SubsetSize
  <2>3. QED
    BY <1>1, <1>2, <1>3, <1>5, <2>2 DEF Book
<1>6. QED
  BY <1>4, <1>5

(* A fault hides a page: the count starts anew.                              *)
LEMMA BookHidden ==
  ASSUME IsFiniteSet(Dispatcher), TypeOK, NEW f \in Fingerprint, NEW c \in Channel, Hidden(f)
  PROVE  Book(f, c)'
<1>1. burst'[f][c] = 0
  BY TypeParts DEF Hidden, AgeType
<1>2. Ahead(f, c)' \subseteq Dispatcher /\ Unlogged(f, c)' \subseteq Dispatcher
  BY DEF Ahead, Unlogged
<1>3. /\ Cardinality(Ahead(f, c)') \in Nat /\ Cardinality(Unlogged(f, c)') \in Nat
      /\ Cardinality(Dispatcher) \in Nat /\ Cardinality(Ahead(f, c)') <= Cardinality(Dispatcher)
  BY <1>2, SubsetSize
<1>4. QED
  BY <1>1, <1>3 DEF Book

(* A page goes out: who had it to make now has it to log.                    *)
LEMMA BookCounted ==
  ASSUME IsFiniteSet(Dispatcher), TypeOK, TypeOK', NEW d \in Dispatcher, OnlyRouter(d),
         NEW f \in Fingerprint, NEW c \in Channel, Book(f, c), Count(f, c),
         sentAge'[f][c] = 0, logAge'[f] = logAge[f],
         IsAhead(d, f, c), ~IsUnlogged(d, f, c), ~IsAhead(d, f, c)', IsUnlogged(d, f, c)'
  PROVE  Book(f, c)'
<1>1. /\ Ahead(f, c)' = Ahead(f, c) \ {d} /\ d \in Ahead(f, c)
      /\ Unlogged(f, c)' = Unlogged(f, c) \cup {d} /\ d \notin Unlogged(f, c)
      /\ Ahead(f, c) \subseteq Dispatcher /\ Unlogged(f, c) \subseteq Dispatcher
  BY SetsMove DEF Ahead, Unlogged
<1>2. Cardinality(Ahead(f, c)) = Cardinality(Ahead(f, c)') + 1
  <2>1. Ahead(f, c) = Ahead(f, c)' \cup {d} /\ d \notin Ahead(f, c)' /\ Ahead(f, c)' \subseteq Dispatcher
    BY <1>1
  <2>2. QED
    BY <2>1, OneMore
<1>3. Cardinality(Unlogged(f, c)') = Cardinality(Unlogged(f, c)) + 1
  BY <1>1, OneMore
<1>4. /\ Cardinality(Ahead(f, c)) \in Nat /\ Cardinality(Ahead(f, c)') \in Nat
      /\ Cardinality(Unlogged(f, c)) \in Nat /\ Cardinality(Dispatcher) \in Nat
      /\ Cardinality(Ahead(f, c)) <= Cardinality(Dispatcher)
  BY <1>1, SubsetSize
<1>5. /\ burst[f][c] \in Nat /\ logAge[f] \in Nat /\ sentAge[f][c] \in 0..Cooldown /\ Cooldown \in Nat
  BY Ages, TimeAssumption
<1>6. burst'[f][c] = IF sentAge[f][c] >= Cooldown THEN 1
                     ELSE IF burst[f][c] < MaxBurst THEN burst[f][c] + 1 ELSE burst[f][c]
  BY TypeParts DEF Count, AgeType
<1>7. CASE sentAge[f][c] >= Cooldown
  BY <1>2, <1>3, <1>4, <1>5, <1>6, <1>7 DEF Book
<1>8. CASE sentAge[f][c] < Cooldown
  <2>1. burst'[f][c] <= burst[f][c] + 1 /\ burst'[f][c] \in Nat
    BY <1>5, <1>6, <1>8
  <2>2. burst[f][c] + Cardinality(Ahead(f, c)) <= Cardinality(Dispatcher)
    BY <1>8 DEF Book
  <2>3. logAge[f] # 0 => burst[f][c] <= Cardinality(Unlogged(f, c))
    BY <1>1, <1>8 DEF Book
  <2>4. QED
    BY <1>2, <1>3, <1>4, <1>5, <2>1, <2>2, <2>3 DEF Book
<1>9. QED
  BY <1>5, <1>7, <1>8

(* A router decides to send: no page of this window is logged.               *)
LEMMA BookOpened ==
  ASSUME IsFiniteSet(Dispatcher), NoChannelTwice, TypeOK, TypeOK',
         NEW d \in Dispatcher, OnlyRouter(d), NEW f \in Fingerprint, NEW c \in Channel, Book(f, c),
         burst'[f][c] = burst[f][c], sentAge'[f][c] = sentAge[f][c], logAge'[f] = logAge[f],
         logAge[f] >= Cooldown, pc[d] = "deciding", pc'[d] = "sending"
  PROVE  Book(f, c)'
<1>1. ~IsAhead(d, f, c) /\ ~IsUnlogged(d, f, c) /\ ~IsUnlogged(d, f, c)'
  BY DEF IsAhead, IsUnlogged
<1>2. /\ Unlogged(f, c)' = Unlogged(f, c) /\ Ahead(f, c)' \subseteq Ahead(f, c) \cup {d}
      /\ d \notin Ahead(f, c) /\ d \notin Unlogged(f, c)
      /\ Ahead(f, c) \subseteq Dispatcher /\ Unlogged(f, c) \subseteq Dispatcher
  BY <1>1, SetsMove DEF Ahead, Unlogged
<1>3. Ahead(f, c) \cap Unlogged(f, c) = {}
  BY AheadOrUnlogged DEF Ahead, Unlogged
<1>4. Cardinality(Ahead(f, c)') + Cardinality(Unlogged(f, c)) <= Cardinality(Dispatcher)
  <2>1. Ahead(f, c)' \subseteq Dispatcher /\ Ahead(f, c)' \cap Unlogged(f, c) = {}
    BY <1>2, <1>3
  <2>2. QED
    BY <1>2, <2>1, ApartSize
<1>5. /\ burst[f][c] \in Nat /\ logAge[f] \in Nat /\ sentAge[f][c] \in Nat /\ Cooldown \in Nat
  BY Ages, TimeAssumption
<1>6. /\ Cardinality(Ahead(f, c)') \in Nat /\ Cardinality(Unlogged(f, c)) \in Nat
      /\ Cardinality(Dispatcher) \in Nat
  BY <1>2, SubsetSize
<1>7. sentAge[f][c] < Cooldown => burst[f][c] <= Cardinality(Unlogged(f, c))
  BY <1>5 DEF Book
<1>8. QED
  BY <1>2, <1>4, <1>5, <1>6, <1>7 DEF Book

(* An hour passes over idle routers.                                         *)
LEMMA BookTick ==
  ASSUME ~Slow, TypeOK, NEW f \in Fingerprint, NEW c \in Channel, Book(f, c), Tick
  PROVE  Book(f, c)'
<1>1. /\ burst'[f][c] = burst[f][c] /\ logAge'[f] = Older(logAge[f])
      /\ sentAge'[f][c] = Older(sentAge[f][c])
  BY DEF Tick
<1>2. Ahead(f, c) = {} /\ Unlogged(f, c) = {} /\ Ahead(f, c)' = {} /\ Unlogged(f, c)' = {}
  BY DEF Tick, Ahead, Unlogged, IsAhead, IsUnlogged, routerVars
<1>3. /\ burst[f][c] \in Nat /\ logAge[f] \in Nat /\ sentAge[f][c] \in Nat /\ Cooldown \in Nat
  BY Ages, TimeAssumption
<1>4. QED
  BY <1>1, <1>2, <1>3 DEF Book, Older

-----------------------------------------------------------------------------
(* The books through every action.                                           *)

LEMMA BookInit == ASSUME IsFiniteSet(Dispatcher) PROVE Init => Booked
<1>1. SUFFICES ASSUME Init, NEW f \in Fingerprint, NEW c \in Channel PROVE Book(f, c)
  BY DEF Booked
<1>2. burst[f][c] = 0 /\ sentAge[f][c] = Cooldown /\ Cooldown \in Nat
  BY <1>1, TimeAssumption DEF Init
<1>3. QED
  BY <1>2, FS_CardinalityType DEF Book

LEMMA BookBegin ==
  ASSUME IsFiniteSet(Dispatcher), TypeOK, TypeOK', Booked,
         NEW d \in Dispatcher, Begin(d) \/ SendFails(d) \/ Finish(d)
  PROVE  Booked'
<1>1. SUFFICES ASSUME NEW f \in Fingerprint, NEW c \in Channel PROVE Book(f, c)'
  BY DEF Booked
<1>2. OnlyRouter(d) /\ Book(f, c)
  BY OneSteps DEF Step, Booked
<1>3. burst' = burst /\ sentAge' = sentAge /\ logAge' = logAge
  BY DEF Begin, SendFails, Sent, Finish, pageVars
<1>4. pc[d] # "recording"
  BY DEF Begin, SendFails, Finish
<1>5. IsAhead(d, f, c)' => IsAhead(d, f, c)
  <2>1. CASE SendFails(d)
    BY <2>1, TypeParts DEF SendFails, Sent, RouterType, IsAhead, Route
  <2>2. CASE Begin(d)
    BY <2>2, TypeParts DEF Begin, RouterType, IsAhead
  <2>3. CASE Finish(d)
    BY <2>3, TypeParts DEF Finish, Dismiss, RouterType, IsAhead
  <2>4. QED
    BY <2>1, <2>2, <2>3
<1>6. QED
  BY <1>2, <1>3, <1>4, <1>5, BookKept DEF IsUnlogged

LEMMA BookDecide ==
  ASSUME IsFiniteSet(Dispatcher), NoChannelTwice, TypeOK, TypeOK', Booked,
         NEW d \in Dispatcher, Decide(d)
  PROVE  Booked'
<1>1. SUFFICES ASSUME NEW f \in Fingerprint, NEW c \in Channel PROVE Book(f, c)'
  BY DEF Booked
<1>2. OnlyRouter(d) /\ Book(f, c)
  BY OneSteps DEF Step, Booked
<1>3. sentAge' = sentAge /\ logAge' = logAge /\ pc[d] = "deciding"
  BY DEF Decide
<1>4. ~IsAhead(d, f, c) /\ ~IsUnlogged(d, f, c)
  BY <1>3 DEF IsAhead, IsUnlogged
<1>5. Head(batch[d]).fp \in Fingerprint
  BY TypeParts, CurrentFinding DEF Decide
<1>6. burst' = burst \/ Hidden(Head(batch[d]).fp)
  BY DEF Decide
<1>7. \/ pc'[d] = "sending" /\ batch' = batch
      \/ pc'[d] = "deciding"
  BY <1>3, TypeParts DEF Decide, RouterType
<1>8. CASE Head(batch[d]).fp = f /\ Hidden(f)
  BY <1>8, BookHidden
<1>9. CASE Head(batch[d]).fp = f /\ burst' = burst /\ ~Hidden(f)
  <2>1. CASE pc'[d] = "sending"
    <3>1. logAge[f] >= Cooldown
      <4>1. ~(logAge[f] < Cooldown)
        BY <1>3, <1>9, <2>1, TypeParts DEF Decide, RouterType
      <4>2. QED
        BY <4>1, Ages, TimeAssumption
    <3>2. QED
      BY <1>2, <1>3, <1>9, <2>1, <3>1, BookOpened
  <2>2. CASE pc'[d] # "sending"
    <3>1. ~IsAhead(d, f, c)'
      BY <1>7, <2>2 DEF IsAhead
    <3>2. QED
      BY <1>2, <1>3, <1>4, <1>9, <3>1, BookKept
  <2>3. QED
    BY <2>1, <2>2
<1>10. CASE Head(batch[d]).fp # f
  <2>1. burst'[f][c] = burst[f][c]
    BY <1>5, <1>6, <1>10, TypeParts DEF Hidden, AgeType
  <2>2. ~IsAhead(d, f, c)'
    BY <1>7, <1>10 DEF IsAhead
  <2>3. QED
    BY <1>2, <1>3, <1>4, <2>1, <2>2, BookKept
<1>11. QED
  BY <1>6, <1>8, <1>9, <1>10

LEMMA BookSend ==
  ASSUME IsFiniteSet(Dispatcher), NoChannelTwice, TypeOK, TypeOK', Booked,
         NEW d \in Dispatcher, Send(d)
  PROVE  Booked'
<1>1. SUFFICES ASSUME NEW f \in Fingerprint, NEW c \in Channel PROVE Book(f, c)'
  BY DEF Booked
<1>2. OnlyRouter(d) /\ Book(f, c)
  BY OneSteps DEF Step, Booked
<1>3. /\ pc[d] = "sending" /\ pc'[d] = "recording" /\ logAge' = logAge
      /\ batch' = batch /\ left' = left
  BY TypeParts DEF Send, Sent, RouterType
<1>4. /\ Head(batch[d]).fp \in Fingerprint /\ Current(d) \in Channel
      /\ At(d) \in left[d] /\ left[d] \subseteq 1..Len(Route(d))
      /\ Head(batch[d]).severity \in Severity
  BY <1>3, FresherPages, CurrentChannel, CurrentFinding, TypeParts DEF Underway
<1>5. At(d)' = At(d) /\ Route(d)' = Route(d) /\ Current(d)' = Current(d)
  BY <1>3 DEF At, Route, Current
<1>6. CASE Hidden(f)
  BY <1>6, BookHidden
<1>7. CASE ~Hidden(f) /\ Head(batch[d]).fp = f /\ Current(d) = c
  <2>1. Count(f, c) /\ sendOk'[d] = TRUE
    BY <1>7, TypeParts DEF Send, Sent, RouterType
  <2>2. sentAge'[f][c] = 0
    BY <1>7, FresherPages
  <2>3. IsAhead(d, f, c) /\ ~IsUnlogged(d, f, c)
    BY <1>3, <1>4, <1>7 DEF IsAhead, IsUnlogged, Current
  <2>4. IsUnlogged(d, f, c)'
    BY <1>3, <1>5, <1>7, <2>1 DEF IsUnlogged
  <2>5. ~IsAhead(d, f, c)'
    BY <1>3, <1>4, <1>5, <1>7 DEF IsAhead, NoChannelTwice, Current, Route
  <2>6. QED
    BY <1>2, <1>3, <2>1, <2>2, <2>3, <2>4, <2>5, BookCounted
<1>8. CASE ~Hidden(f) /\ ~(Head(batch[d]).fp = f /\ Current(d) = c)
  <2>1. sentAge'[f][c] = sentAge[f][c]
    <3>1. sentAge' = [sentAge EXCEPT ![Head(batch[d]).fp][Current(d)] = 0]
      BY FresherPages
    <3>2. sentAge \in [Fingerprint -> [Channel -> 0..Cooldown]]
      BY TypeParts DEF AgeType
    <3>3. QED
      BY <1>4, <1>8, <3>1, <3>2
  <2>2. burst'[f][c] = burst[f][c]
    <3>1. CASE Count(Head(batch[d]).fp, Current(d))
      BY <1>4, <1>8, <3>1, TypeParts DEF Count, AgeType
    <3>2. CASE Hidden(Head(batch[d]).fp)
      BY <1>4, <1>8, <3>2, TypeParts DEF Hidden, AgeType
    <3>3. QED
      BY <3>1, <3>2 DEF Send
  <2>3. IsAhead(d, f, c)' => IsAhead(d, f, c)
    BY <1>3, <1>5 DEF IsAhead
  <2>4. ~IsUnlogged(d, f, c)
    BY <1>3 DEF IsUnlogged
  <2>5. QED
    BY <1>2, <1>3, <2>1, <2>2, <2>3, <2>4, BookKept
<1>9. QED
  BY <1>6, <1>7, <1>8

LEMMA BookRecord ==
  ASSUME IsFiniteSet(Dispatcher), NoChannelTwice, TypeOK, TypeOK', Booked,
         NEW d \in Dispatcher, Record(d)
  PROVE  Booked'
<1>1. SUFFICES ASSUME NEW f \in Fingerprint, NEW c \in Channel PROVE Book(f, c)'
  BY DEF Booked
<1>2. OnlyRouter(d) /\ Book(f, c)
  BY OneSteps DEF Step, Booked
<1>3. /\ pc[d] = "recording" /\ NextChannel(d) /\ sentAge' = sentAge
      /\ \/ burst' = burst /\ (logAge' = IF sendOk[d] THEN [logAge EXCEPT ![Head(batch[d]).fp] = 0]
                                                      ELSE logAge)
         \/ Hidden(Head(batch[d]).fp) /\ logAge' = logAge
  BY DEF Record
<1>4. Head(batch[d]).fp \in Fingerprint /\ At(d) \in left[d]
  BY <1>3, CurrentChannel, CurrentFinding, TypeParts DEF Underway
<1>5. IsAhead(d, f, c)' => IsAhead(d, f, c)
  <2>1. CASE left[d] = {At(d)}
    BY <1>3, <2>1, TypeParts DEF NextChannel, RouterType, IsAhead
  <2>2. CASE left[d] # {At(d)}
    <3>1. /\ batch' = batch /\ left'[d] = left[d] \ {At(d)} /\ pc'[d] = "sending"
      BY <1>3, <2>2, TypeParts DEF NextChannel, RouterType
    <3>2. QED
      BY <1>3, <3>1 DEF IsAhead, Route
  <2>3. QED
    BY <2>1, <2>2
<1>6. CASE Head(batch[d]).fp = f /\ Hidden(f)
  BY <1>6, BookHidden
<1>7. CASE Head(batch[d]).fp = f /\ ~Hidden(f)
  <2>1. sendOk[d] => logAge'[f] = 0
    BY <1>3, <1>4, <1>7, TypeParts DEF AgeType
  <2>2. ~sendOk[d] => logAge'[f] = logAge[f] /\ ~IsUnlogged(d, f, c)
    BY <1>3, <1>7 DEF IsUnlogged
  <2>3. QED
    BY <1>2, <1>3, <1>5, <1>7, <2>1, <2>2, BookKept
<1>8. CASE Head(batch[d]).fp # f
  <2>1. burst'[f][c] = burst[f][c]
    BY <1>3, <1>4, <1>8, TypeParts DEF Hidden, AgeType
  <2>2. logAge'[f] = logAge[f] /\ ~IsUnlogged(d, f, c)
    BY <1>3, <1>4, <1>8, TypeParts DEF AgeType, IsUnlogged
  <2>3. QED
    BY <1>2, <1>3, <1>5, <2>1, <2>2, BookKept
<1>9. QED
  BY <1>6, <1>7, <1>8

LEMMA BookCrash ==
  ASSUME IsFiniteSet(Dispatcher), TypeOK, TypeOK', Booked, NEW d \in Dispatcher, Crash(d)
  PROVE  Booked'
<1>1. SUFFICES ASSUME NEW f \in Fingerprint, NEW c \in Channel PROVE Book(f, c)'
  BY DEF Booked
<1>2. OnlyRouter(d) /\ Book(f, c)
  BY OneSteps DEF Booked
<1>3. sentAge' = sentAge /\ logAge' = logAge /\ batch[d] # <<>>
  BY DEF Crash
<1>4. ~IsAhead(d, f, c)'
  BY TypeParts DEF Crash, Dismiss, RouterType, IsAhead
<1>5. CASE IsUnlogged(d, f, c)
  BY <1>5, BookHidden DEF Crash, IsUnlogged
<1>6. CASE Hidden(f)
  BY <1>6, BookHidden
<1>7. CASE ~IsUnlogged(d, f, c) /\ ~Hidden(f)
  <2>1. Head(batch[d]).fp \in Fingerprint
    BY <1>3, CurrentFinding, TypeParts
  <2>2. burst'[f][c] = burst[f][c]
    <3>1. burst' = burst \/ (Hidden(Head(batch[d]).fp) /\ Head(batch[d]).fp # f)
      BY <1>7 DEF Crash
    <3>2. QED
      BY <2>1, <3>1, TypeParts DEF Hidden, AgeType
  <2>3. QED
    BY <1>2, <1>3, <1>4, <1>7, <2>2, BookKept
<1>8. QED
  BY <1>5, <1>6, <1>7

LEMMA BookStep ==
  ASSUME ~Slow, IsFiniteSet(Dispatcher), NoChannelTwice
  PROVE  TypeOK /\ TypeOK' /\ Booked /\ [Next]_vars => Booked'
<1>1. ASSUME Booked, UNCHANGED vars PROVE Booked'
  BY <1>1 DEF Booked, Book, Ahead, Unlogged, IsAhead, IsUnlogged, At, Current, Route,
              vars, routerVars, pageVars
<1>2. ASSUME TypeOK, Booked, Tick PROVE Booked'
  BY <1>2, BookTick DEF Booked
<1>3. QED
  BY <1>1, <1>2, BookBegin, BookDecide, BookSend, BookRecord, BookCrash DEF Next, Step

(* When no dispatch outlasts the hour and no route names a channel twice,    *)
(* the unguarded lookup, send and log let at most one page per dispatcher    *)
(* through within the cooldown, between two faults that hide one.            *)
THEOREM PagesBounded ==
  ASSUME ~Slow, IsFiniteSet(Dispatcher), NoChannelTwice
  PROVE  Spec => []BurstBounded
<1>1. Init => TypeOK /\ Booked
  BY TypeInit, BookInit
<1>2. TypeOK /\ Booked /\ [Next]_vars => (TypeOK /\ Booked)'
  BY TypeStep, BookStep
<1>3. Booked => BurstBounded
  BY DEF Booked, Book, BurstBounded
<1>4. QED
  BY <1>1, <1>2, <1>3, PTL DEF Spec

-----------------------------------------------------------------------------
(* Quiet hours.                                                              *)

(* The clock of the window: of two hours of a day, how far the later one is. *)
LEMMA HoursOn ==
  ASSUME NEW a \in 0..Day-1, NEW b \in 0..Day-1
  PROVE  (a - b) % Day = IF a >= b THEN a - b ELSE a - b + Day
<1>1. /\ Day \in Nat \ {0} /\ a - b \in Int /\ a - b < Day /\ a - b > -Day
  BY TimeAssumption
<1>2. (a - b) % Day = IF a - b >= 0 THEN a - b ELSE (a - b) + Day
  BY <1>1
<1>3. QED
  BY <1>2

LEMMA WindowByTheClock ==
  ASSUME NEW h \in 0..Day-1, NEW from \in 0..Day-1, NEW to \in 0..Day-1
  PROVE  InQuietHours(h, from, to) <=> (h - from) % Day < (to - from) % Day
<1>1. /\ (h - from) % Day = (IF h >= from THEN h - from ELSE h - from + Day)
      /\ (to - from) % Day = (IF to >= from THEN to - from ELSE to - from + Day)
  BY HoursOn
<1>2. Day \in Nat /\ h \in Int /\ from \in Int /\ to \in Int
  BY TimeAssumption
<1>3. CASE from = to
  BY <1>1, <1>2, <1>3 DEF InQuietHours
<1>4. CASE from < to
  BY <1>1, <1>2, <1>4 DEF InQuietHours
<1>5. CASE from > to
  BY <1>1, <1>2, <1>5 DEF InQuietHours
<1>6. QED
  BY <1>2, <1>3, <1>4, <1>5

(* A router at work was built in this very hour.                             *)
JudgedNow ==
  \A d \in Dispatcher :
    pc[d] # "idle" => (quiet[d] <=> InQuietHours(hour, QuietStart, QuietEnd))

LEMMA JudgedStep ==
  ASSUME ~Slow
  PROVE  TypeOK /\ JudgedNow /\ [Next]_vars => JudgedNow'
<1>1. ASSUME JudgedNow, UNCHANGED vars PROVE JudgedNow'
  BY <1>1 DEF JudgedNow, vars, routerVars
<1>2. ASSUME Tick PROVE JudgedNow'
  BY <1>2 DEF JudgedNow, Tick, routerVars
<1>3. ASSUME TypeOK, JudgedNow, NEW d \in Dispatcher, Begin(d) PROVE JudgedNow'
  BY <1>3, TypeParts DEF JudgedNow, Begin, RouterType
<1>4. ASSUME TypeOK, JudgedNow, NEW d \in Dispatcher, Step(d) \/ Crash(d) PROVE JudgedNow'
  <2>1. hour' = hour
    BY <1>4 DEF Step, Decide, Send, SendFails, Sent, Record, Finish, Crash
  <2>2. ASSUME NEW e \in Dispatcher, pc'[e] # "idle" PROVE pc[e] # "idle" /\ quiet'[e] = quiet[e]
    <3>1. CASE Decide(d)
      BY <1>4, <2>2, <3>1, TypeParts DEF Decide, RouterType
    <3>2. CASE Send(d) \/ SendFails(d)
      BY <1>4, <2>2, <3>2, TypeParts DEF Send, SendFails, Sent, RouterType
    <3>3. CASE Record(d)
      BY <1>4, <2>2, <3>3, TypeParts DEF Record, NextChannel, RouterType
    <3>4. CASE Finish(d) \/ Crash(d)
      BY <1>4, <2>2, <3>4, TypeParts DEF Finish, Crash, Dismiss, RouterType
    <3>5. QED
      BY <1>4, <3>1, <3>2, <3>3, <3>4 DEF Step
  <2>3. QED
    BY <1>4, <2>1, <2>2 DEF JudgedNow
<1>5. QED
  BY <1>1, <1>2, <1>3, <1>4 DEF Next

(* A quiet window means what the clock says, over midnight too, and a router *)
(* that read the clock once judges every finding by the hour it is sent in,  *)
(* as long as no dispatch outlasts the hour.                                 *)
THEOREM QuietByTheHour == ASSUME ~Slow PROVE Spec => []QuietWindow
<1>1. Init => TypeOK /\ JudgedNow
  BY TypeInit DEF Init, JudgedNow
<1>2. TypeOK /\ JudgedNow /\ [Next]_vars => (TypeOK /\ JudgedNow)'
  BY TypeStep, JudgedStep
<1>3. TypeOK /\ JudgedNow => QuietWindow
  BY TypeParts, TimeAssumption, WindowByTheClock DEF AgeType, JudgedNow, QuietWindow
<1>4. QED
  BY <1>1, <1>2, <1>3, PTL DEF Spec

=============================================================================
