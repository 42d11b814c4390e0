------------------------ MODULE CollectorPassProofs ------------------------
(* For any plan, any version gate, any budget and under every fault: what a  *)
(* pass loses, it says it lost, and what it derives from stored samples is   *)
(* what happened since they were stored.                                     *)
EXTENDS CollectorPass, TLAPS

LEMMA PlanShape ==
  /\ Len(Plan) \in Nat \ {0} /\ DOMAIN Plan = 1..Len(Plan)
  /\ \A n \in 1..Len(Plan) : Plan[n] \in Collector
<1>1. Len(Plan) \in Nat /\ DOMAIN Plan = 1..Len(Plan)
  BY PlanAssumption
<1>2. Len(Plan) # 0
  BY <1>1, PlanAssumption
<1>3. \A n \in 1..Len(Plan) : Plan[n] \in Collector
  BY <1>1 DEF Collector
<1>4. QED BY <1>1, <1>2, <1>3

-----------------------------------------------------------------------------
(* Types.                                                                    *)

(* The rows that are looked back at are rows, and no more than asked for.    *)
LEMMA LastRowsType ==
  ASSUME NEW S, NEW rows \in Seq(S)
  PROVE  LastRows(rows) \in Seq(S) /\ Len(LastRows(rows)) <= Samples
<1>1. Samples \in Nat \ {0} /\ Len(rows) \in Nat
  BY ValueAssumption
<1>2. CASE Len(rows) < Samples
  <2>1. LastRows(rows) = SubSeq(rows, 1, Len(rows))
    BY <1>2 DEF LastRows
  <2>2. QED BY <1>1, <1>2, <2>1
<1>3. CASE ~(Len(rows) < Samples)
  <2>1. LastRows(rows) = SubSeq(rows, Len(rows) - Samples + 1, Len(rows))
    BY <1>3 DEF LastRows
  <2>2. QED BY <1>1, <1>3, <2>1
<1>4. QED BY <1>2, <1>3

LEMMA CounterDeltaType ==
  ASSUME NEW previous \in 0..MaxWork \cup {NoRow}, NEW current \in 0..MaxWork
  PROVE  /\ CounterDelta(previous, current) \in 0..MaxWork \cup {Unknown}
         /\ CounterDelta(previous, current) # Unknown =>
              /\ previous \in 0..MaxWork /\ previous <= current
              /\ CounterDelta(previous, current) = current - previous
BY ValueAssumption DEF CounterDelta

LEMMA AdvanceType ==
  ASSUME TypeOK, NEW loop \in {"persisting", "analyzing"}, Advance(loop)
  PROVE  /\ turn' \in DOMAIN Plan /\ pc' \in {"idle", "collecting", "persisting", "analyzing"}
         /\ \/ turn < Len(Plan) /\ turn' = turn + 1 /\ pc' = pc
            \/ turn = Len(Plan) /\ turn' = 1 /\ pc' = loop
BY PlanShape DEF TypeOK, Advance

LEMMA EndPassType == ASSUME TypeOK, EndPass, severity' \in {"none", "warn", "crit"} PROVE TypeOK'
<1>1. dry' \in BOOLEAN /\ booted' \in BOOLEAN /\ reset' \in BOOLEAN
  BY DEF EndPass, TypeOK, histVars
<1>2. turn' \in DOMAIN Plan /\ cut' \in 1..Len(Plan)+1
  BY PlanShape DEF EndPass
<1>3. UNCHANGED <<load, work, cpuRows, ioRow, since>>
  BY DEF EndPass, repoVars, histVars
<1>4. QED BY <1>1, <1>2, <1>3 DEF EndPass, TypeOK

LEMMA TypeStep == ASSUME TypeOK, [Next]_vars PROVE TypeOK'
<1> USE PlanShape, ValueAssumption
<1>1. CASE Begin
  <2>1. dry' \in BOOLEAN
    BY <1>1, Zenon DEF Begin
  <2>2. turn' \in DOMAIN Plan
    BY <1>1 DEF Begin
  <2>3. QED BY <1>1, <2>1, <2>2 DEF Begin, TypeOK, instVars, repoVars, frameVars, histVars
<1>2. CASE OutOfTime
  BY <1>2 DEF OutOfTime, TypeOK, instVars, repoVars, frameVars, histVars
<1>3. CASE Gated \/ Fails
  <2>1. Advance("persisting") /\ skipped' = skipped \cup {Plan[turn]} /\ raised' \subseteq raised \cup {Plan[turn]}
    BY <1>3 DEF Gated, Fails
  <2>2. QED BY <1>3, <2>1, AdvanceType DEF Gated, Fails, TypeOK, instVars, repoVars, frameVars, histVars
<1>4. CASE Collects
  <2>1. Advance("persisting") /\ frames' = frames \cup {Plan[turn]}
    BY <1>4 DEF Collects
  <2>2. cpuValue' \in Load \cup {Null}
    BY <1>4 DEF Collects, TypeOK
  <2>3. interval' \in 0..MaxWork \cup {Unknown}
    BY <1>4, CounterDeltaType DEF Collects, TypeOK
  <2>4. QED BY <1>4, <2>1, <2>2, <2>3, AdvanceType DEF Collects, TypeOK, instVars, repoVars, histVars
<1>5. CASE Persists
  <2>1. Advance("analyzing")
    BY <1>5 DEF Persists
  <2>2. cpuRows' \in Seq(Load \cup {Null}) /\ Len(cpuRows') <= Samples
    <3>1. CASE UNCHANGED cpuRows
      BY <3>1 DEF TypeOK
    <3>2. CASE cpuRows' = LastRows(Append(cpuRows, cpuValue))
      <4>1. Append(cpuRows, cpuValue) \in Seq(Load \cup {Null})
        BY DEF TypeOK
      <4>2. QED BY <3>2, <4>1, LastRowsType
    <3>3. QED BY <1>5, <3>1, <3>2 DEF Persists, Store, repoVars
  <2>3. ioRow' \in 0..MaxWork \cup {NoRow} /\ since' \in 0..MaxWork /\ reset' \in BOOLEAN
    <3>1. CASE UNCHANGED <<repoVars, histVars>>
      BY <3>1 DEF TypeOK, repoVars, histVars
    <3>2. CASE Store(Plan[turn])
      <4>1. reset' \in BOOLEAN
        BY <3>2 DEF Store, TypeOK
      <4>2. ioRow' \in 0..MaxWork \cup {NoRow} /\ since' \in 0..MaxWork
        BY <3>2 DEF Store, TypeOK
      <4>3. QED BY <4>1, <4>2
    <3>3. QED BY <1>5, <3>1, <3>2 DEF Persists
  <2>4. QED BY <1>5, <2>1, <2>2, <2>3, AdvanceType DEF Persists, TypeOK, instVars, frameVars
<1>6. CASE Analyzes
  <2>1. severity' \in {"none", "warn", "crit"}
    BY <1>6 DEF Analyzes, SustainedSeverity
  <2>2. QED BY <1>6, <2>1, EndPassType DEF Analyzes
<1>7. CASE Aborts
  BY <1>7, EndPassType DEF Aborts, TypeOK
<1>8. CASE Works
  BY <1>8 DEF Works, TypeOK, repoVars, passVars, frameVars
<1>9. CASE LoadChanges
  BY <1>9 DEF LoadChanges, TypeOK, repoVars, passVars, frameVars, histVars
<1>10. CASE Restarts
  BY <1>10 DEF Restarts, TypeOK, repoVars, passVars, frameVars
<1>11. CASE UNCHANGED vars
  BY <1>11 DEF vars, TypeOK, instVars, repoVars, passVars, frameVars, histVars
<1>12. QED BY <1>1, <1>2, <1>3, <1>4, <1>5, <1>6, <1>7, <1>8, <1>9, <1>10, <1>11 DEF Next, Pass

LEMMA TypeInit == Init => TypeOK
<1> SUFFICES ASSUME Init PROVE TypeOK
  OBVIOUS
<1>1. dry \in BOOLEAN /\ booted \in BOOLEAN /\ reset \in BOOLEAN
  BY DEF Init
<1>2. turn \in DOMAIN Plan /\ cut \in 1..Len(Plan)+1 /\ Len(cpuRows) <= Samples
  BY PlanShape, ValueAssumption DEF Init
<1>3. QED BY <1>1, <1>2, ValueAssumption DEF Init, TypeOK

(* Every variable keeps its type: the counters their bounds, the rows their  *)
(* number, and an interval is never negative, for NULL stands for what a     *)
(* restart made unknown (derive.counter_delta).                              *)
THEOREM TypeCorrect == Spec => []TypeOK
BY TypeInit, TypeStep, PTL DEF Spec

-----------------------------------------------------------------------------
(* Isolation.                                                                *)

Accounted(n) ==
  /\ Plan[n] \notin frames <=> Plan[n] \in skipped
  /\ Plan[n] \notin frames => Plan[n] \notin Applies \/ Plan[n] \in raised \/ n >= cut

(* The collectors before the current one are accounted for, nothing is said  *)
(* yet of the others.                                                        *)
IsolInv ==
  /\ pc = "idle" => frames = {} /\ skipped = {} /\ cut = Len(Plan) + 1
  /\ pc = "collecting" =>
       /\ cut = Len(Plan) + 1
       /\ \A n \in DOMAIN Plan : IF n < turn THEN Accounted(n)
                               ELSE Plan[n] \notin frames /\ Plan[n] \notin skipped
  /\ pc \in {"persisting", "analyzing"} => \A n \in DOMAIN Plan : Accounted(n)

(* The current collector is accounted for and the loop goes on: the last one *)
(* leaves all of them accounted for.                                         *)
LEMMA IsolAdvance ==
  ASSUME TypeOK, IsolInv, pc = "collecting", Advance("persisting"), UNCHANGED cut,
         NEW k, k = turn, Accounted(k)',
         \A n \in DOMAIN Plan : n # turn =>
           /\ Plan[n] \in frames' <=> Plan[n] \in frames
           /\ Plan[n] \in skipped' <=> Plan[n] \in skipped
           /\ Plan[n] \in raised => Plan[n] \in raised'
  PROVE  IsolInv'
<1>1. turn \in 1..Len(Plan) /\ DOMAIN Plan = 1..Len(Plan) /\ Len(Plan) \in Nat
  BY PlanShape DEF TypeOK
<1>2. (turn < Len(Plan) /\ turn' = turn + 1 /\ pc' = pc) \/ (turn = Len(Plan) /\ turn' = 1 /\ pc' = "persisting")
  BY AdvanceType
<1>3. \A n \in DOMAIN Plan : n <= turn => Accounted(n)'
  <2> SUFFICES ASSUME NEW n \in DOMAIN Plan, n <= turn PROVE Accounted(n)'
    OBVIOUS
  <2>1. CASE n = turn
    BY <2>1
  <2>2. CASE n < turn
    BY <1>1, <2>2 DEF Accounted, IsolInv
  <2>3. QED BY <1>1, <2>1, <2>2
<1>4. \A n \in DOMAIN Plan : ~(n <= turn) => Plan[n] \notin frames' /\ Plan[n] \notin skipped'
  BY <1>1 DEF IsolInv
<1>5. cut' = Len(Plan) + 1
  BY DEF IsolInv
<1>6. CASE turn' = turn + 1 /\ pc' = "collecting"
  <2>1. \A n \in DOMAIN Plan : n < turn' <=> n <= turn
    BY <1>1, <1>6
  <2>2. QED BY <1>3, <1>4, <1>5, <1>6, <2>1 DEF IsolInv
<1>7. CASE turn = Len(Plan) /\ pc' = "persisting"
  <2>1. \A n \in DOMAIN Plan : n <= turn
    BY <1>1, <1>7
  <2>2. QED BY <1>3, <1>7, <2>1 DEF IsolInv
<1>8. QED BY <1>2, <1>6, <1>7

LEMMA IsolEnd == ASSUME EndPass PROVE IsolInv'
BY DEF EndPass, IsolInv

LEMMA IsolStep == ASSUME TypeOK, IsolInv, [Next]_vars PROVE IsolInv'
<1>1. \A m, n \in DOMAIN Plan : Plan[m] = Plan[n] => m = n
  BY PlanAssumption
<1>2. turn \in 1..Len(Plan) /\ DOMAIN Plan = 1..Len(Plan) /\ Len(Plan) \in Nat
  BY PlanShape DEF TypeOK
<1> PICK k \in DOMAIN Plan : k = turn
  BY <1>2
<1>3. CASE Begin
  BY <1>2, <1>3 DEF Begin, IsolInv, frameVars
<1>4. CASE OutOfTime
  <2>1. \A n \in DOMAIN Plan : Accounted(n)'
    <3> SUFFICES ASSUME NEW n \in DOMAIN Plan PROVE Accounted(n)'
      OBVIOUS
    <3>1. Plan[n] \in Collector
      BY <1>2, PlanShape
    <3>2. CASE n < turn
      BY <1>2, <1>4, <3>1, <3>2 DEF OutOfTime, IsolInv, Accounted, frameVars
    <3>3. CASE n >= turn
      BY <1>2, <1>4, <3>1, <3>3 DEF OutOfTime, IsolInv, Accounted, frameVars
    <3>4. QED BY <1>2, <3>2, <3>3
  <2>2. QED BY <1>4, <2>1 DEF OutOfTime, IsolInv
<1>5. CASE Gated
  <2>1. Accounted(k)'
    BY <1>2, <1>5 DEF Gated, Accounted, IsolInv, frameVars
  <2>2. QED BY <1>1, <1>2, <1>5, <2>1, IsolAdvance DEF Gated, frameVars
<1>6. CASE Fails
  <2>1. Accounted(k)'
    BY <1>2, <1>6 DEF Fails, Accounted, IsolInv, frameVars
  <2>2. QED BY <1>1, <1>2, <1>6, <2>1, IsolAdvance DEF Fails, frameVars
<1>7. CASE Collects
  <2>1. Accounted(k)'
    BY <1>2, <1>7 DEF Collects, Accounted, IsolInv
  <2>2. QED BY <1>1, <1>2, <1>7, <2>1, IsolAdvance DEF Collects
<1>8. CASE Persists
  BY <1>8 DEF Persists, Advance, IsolInv, Accounted, frameVars
<1>9. CASE Analyzes \/ Aborts
  BY <1>9, IsolEnd DEF Analyzes, Aborts
<1>10. CASE Works \/ LoadChanges \/ Restarts
  BY <1>10 DEF Works, LoadChanges, Restarts, IsolInv, passVars, frameVars
<1>11. CASE UNCHANGED vars
  BY <1>11 DEF vars, IsolInv, Accounted, passVars, frameVars
<1>12. QED BY <1>3, <1>4, <1>5, <1>6, <1>7, <1>8, <1>9, <1>10, <1>11 DEF Next, Pass

(* Whatever fails, in any plan: a collector that brings nothing is listed as *)
(* skipped, and it is the gate, its own failure or the time that is to blame *)
(* (_run_collectors).                                                        *)
THEOREM FailuresIsolated == Spec => []FailureIsolated
<1>1. Init => IsolInv
  BY DEF Init, IsolInv
<1>2. TypeOK /\ IsolInv /\ [Next]_vars => TypeOK' /\ IsolInv'
  BY TypeStep, IsolStep
<1>3. IsolInv => FailureIsolated
  BY DEF IsolInv, Accounted, FailureIsolated
<1>4. QED BY <1>1, <1>2, <1>3, TypeInit, PTL DEF Spec

-----------------------------------------------------------------------------
(* Intervals.                                                                *)

(* What the stored counter says of the one that runs.                        *)
BookInv ==
  /\ (~reset /\ ioRow # NoRow) => work = ioRow + since
  /\ reset => work <= since

LEMMA BookStep == ASSUME TypeOK, BookInv, [Next]_vars PROVE BookInv'
<1>1. CASE UNCHANGED <<work, ioRow, histVars>>
  BY <1>1 DEF BookInv, histVars
<1>2. CASE Persists
  <2>1. CASE Plan[turn] = Io /\ Store(Plan[turn])
    BY <1>2, <2>1 DEF Persists, Store, BookInv, TypeOK, instVars
  <2>2. CASE Plan[turn] # Io /\ Store(Plan[turn])
    BY <1>1, <1>2, <2>2 DEF Persists, Store, instVars, histVars
  <2>3. CASE UNCHANGED <<repoVars, histVars>>
    BY <1>1, <1>2, <2>3 DEF Persists, instVars, repoVars
  <2>4. QED BY <1>2, <2>1, <2>2, <2>3 DEF Persists
<1>3. CASE Works
  BY <1>3, ValueAssumption DEF Works, BookInv, TypeOK, repoVars
<1>4. CASE Restarts
  BY <1>4, ValueAssumption DEF Restarts, BookInv, TypeOK
<1>5. CASE Begin \/ OutOfTime \/ Gated \/ Fails \/ Collects
  BY <1>1, <1>5 DEF Begin, OutOfTime, Gated, Fails, Collects, instVars, repoVars, histVars
<1>6. CASE Analyzes \/ Aborts \/ LoadChanges
  BY <1>1, <1>6 DEF Analyzes, Aborts, EndPass, LoadChanges, repoVars
<1>7. CASE UNCHANGED vars
  BY <1>1, <1>7 DEF vars, instVars, repoVars
<1>8. QED BY <1>2, <1>3, <1>4, <1>5, <1>6, <1>7 DEF Next, Pass

(* Until the first frame is written the interval agrees with the books.      *)
HonestInv == IntervalHonest /\ (pc = "idle" => frames = {})

LEMMA HonestStep == ASSUME TypeOK, BookInv, HonestInv, [Next]_vars PROVE HonestInv'
<1>1. turn \in 1..Len(Plan) /\ Len(Plan) \in Nat
  BY PlanShape DEF TypeOK
<1>2. CASE Begin
  BY <1>2 DEF Begin, HonestInv, IntervalHonest, frameVars
<1>3. CASE OutOfTime
  BY <1>3 DEF OutOfTime, HonestInv, IntervalHonest, frameVars, histVars
<1>4. CASE Gated \/ Fails
  <2>1. pc = "collecting" /\ UNCHANGED <<frameVars, histVars>> /\ pc' # "idle"
    BY <1>4 DEF Gated, Fails, Advance
  <2>2. QED BY <2>1 DEF HonestInv, IntervalHonest, frameVars, histVars
<1>5. CASE Collects
  <2>1. pc = "collecting" /\ UNCHANGED histVars /\ pc' # "idle"
    BY <1>5 DEF Collects, Advance
  <2>2. CASE Plan[turn] = Io
    <3>1. interval' = CounterDelta(ioRow, work)
      BY <1>5, <2>2 DEF Collects
    <3>2. ASSUME interval' # Unknown PROVE IF reset THEN interval' \in 0..since ELSE interval' = since
      <4>1. ioRow \in 0..MaxWork /\ ioRow # NoRow /\ ioRow <= work /\ interval' = work - ioRow
        BY <3>1, <3>2, CounterDeltaType, ValueAssumption DEF TypeOK
      <4>2. work \in Nat /\ since \in Nat
        BY ValueAssumption DEF TypeOK
      <4>3. CASE reset
        BY <4>1, <4>2, <4>3, ValueAssumption DEF BookInv
      <4>4. CASE ~reset
        BY <4>1, <4>2, <4>4, ValueAssumption DEF BookInv
      <4>5. QED BY <4>3, <4>4
    <3>3. QED BY <2>1, <3>2 DEF HonestInv, IntervalHonest, histVars
  <2>3. CASE Plan[turn] # Io
    <3>1. interval' = interval /\ (Io \in frames' <=> Io \in frames)
      BY <1>5, <2>3 DEF Collects
    <3>2. QED BY <2>1, <3>1 DEF HonestInv, IntervalHonest, histVars
  <2>4. QED BY <2>2, <2>3
<1>6. CASE Persists
  <2>1. turn' # 1 \/ pc' = "analyzing"
    BY <1>1, <1>6 DEF Persists, Advance
  <2>2. pc' \in {"persisting", "analyzing"}
    BY <1>6 DEF Persists, Advance
  <2>3. QED BY <2>1, <2>2 DEF HonestInv, IntervalHonest
<1>7. CASE Analyzes \/ Aborts
  BY <1>7 DEF Analyzes, Aborts, EndPass, HonestInv, IntervalHonest
<1>8. CASE Works \/ LoadChanges \/ Restarts
  BY <1>8 DEF Works, LoadChanges, Restarts, HonestInv, IntervalHonest, passVars, frameVars
<1>9. CASE UNCHANGED vars
  BY <1>9 DEF vars, HonestInv, IntervalHonest, passVars, frameVars, histVars
<1>10. QED BY <1>2, <1>3, <1>4, <1>5, <1>6, <1>7, <1>8, <1>9 DEF Next, Pass

(* However many samples were lost, dry, skipped or not written in between,   *)
(* and however often the instance restarted: an interval is what the counter *)
(* gained since the sample it is compared with, and after a restart no more  *)
(* (derive_io_intervals, counter_delta).                                     *)
THEOREM IntervalsHonest == Spec => []IntervalHonest
<1>1. Init => BookInv /\ HonestInv
  BY DEF Init, BookInv, HonestInv, IntervalHonest
<1>2. TypeOK /\ BookInv /\ HonestInv /\ [Next]_vars => TypeOK' /\ BookInv' /\ HonestInv'
  BY TypeStep, BookStep, HonestStep
<1>3. HonestInv => IntervalHonest
  BY DEF HonestInv
<1>4. QED BY <1>1, <1>2, <1>3, TypeInit, PTL DEF Spec
=============================================================================
