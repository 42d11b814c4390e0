---------------------------- MODULE CollectorPass ----------------------------
(***************************************************************************)
(* The passes over one monitored server, one after the other: the loop of  *)
(* runner._run_collectors with its version gate, its time budget and its   *)
(* failing collectors, runner._persist, and the evaluation that follows,   *)
(* which reads the history of the samples back from the repository.        *)
(*                                                                         *)
(* Two samples are followed from pass to pass.  Cpu stores a percentage,   *)
(* judged as the average of the last Samples rows (Repository.recent_values*)
(* and derive.sustained_average).  Io stores a counter that accumulates    *)
(* since the instance started, turned into an interval by comparing with   *)
(* the last stored sample (previous_io_sample, derive.counter_delta).  The *)
(* other collectors of the plan only pass or fail.                         *)
(***************************************************************************)
EXTENDS Integers, Sequences, FiniteSets

CONSTANTS
  Plan,      \* collectors_for(tier): a sequence of distinct collectors
  Cpu, Io,   \* two of them
  Applies,   \* those whose applies_to holds on this server
  Load,      \* the CPU percentages the instance may run at
  Samples,   \* cpu.sustained_samples
  Warn, Crit,  \* cpu.sustained_pct_warn and sustained_pct_crit
  MaxWork,   \* bound on the counter, and on the work between two stored samples
  Faults,    \* the faults the environment may inject, see FaultKind
  Null,      \* a NULL percentage
  NoRow,     \* no io sample is stored
  Unknown    \* an interval that could not be derived

(* "collector"  a collector raises                                           *)
(* "budget"     per_server_timeout_s runs out between two collectors         *)
(* "write"      the INSERT of one frame raises                               *)
(* "abort"      a repository read raises, or the process is killed           *)
(* "dry"        some passes are dry runs                                     *)
(* "restart"    the monitored instance restarts; its CPU ring buffer is then *)
(*              empty for a while                                            *)
FaultKind == {"collector", "budget", "write", "abort", "dry", "restart"}

Collector == {Plan[n] : n \in DOMAIN Plan}

ASSUME PlanAssumption ==
  /\ Plan \in Seq(Collector) /\ Plan # <<>>
  /\ \A m, n \in DOMAIN Plan : Plan[m] = Plan[n] => m = n
  /\ Cpu \in Collector /\ Io \in Collector /\ Cpu # Io /\ Applies \subseteq Collector
ASSUME ValueAssumption ==
  /\ Load \subseteq 0..100 /\ Samples \in Nat \ {0} /\ Warn \in Nat /\ Crit \in Nat
  /\ MaxWork \in Nat /\ Faults \subseteq FaultKind
  /\ Null \notin Load /\ NoRow \notin 0..MaxWork /\ Unknown \notin 0..MaxWork

VARIABLES
  load,      \* the CPU percentage the instance runs at
  work,      \* its io counter
  booted,    \* it restarted since the last pass
  cpuRows,   \* the last Samples rows of cpu_sample, oldest first
  ioRow,     \* the counter in the newest row of io_file_sample
  pc,        \* "idle", "collecting", "persisting" or "analyzing"
  dry,       \* the pass is a dry run
  turn,      \* the position in the plan of the collector whose turn it is
  frames,    \* the collectors that have a frame in this pass
  cpuValue,  \* the percentage in the frame of Cpu
  interval,  \* the interval in the frame of Io
  skipped,   \* the collectors in the list of the skipped, where one may stand twice
  severity,  \* of the CPU finding of the last evaluation, "none" without one
  raised,    \* history: the collectors that raised in this pass
  cut,       \* history: whose turn it was when the time ran out
  since,     \* history: the io done since the last stored io sample ...
  reset      \* ... and whether the instance restarted since

instVars == <<load, work, booted>>
repoVars == <<cpuRows, ioRow>>
frameVars == <<frames, cpuValue, interval>>
passVars == <<pc, dry, turn, frameVars, skipped, raised, cut>>
histVars == <<since, reset>>
vars == <<instVars, repoVars, passVars, severity, histVars>>

TypeOK ==
  /\ load \in Load /\ work \in 0..MaxWork /\ booted \in BOOLEAN
  /\ cpuRows \in Seq(Load \cup {Null}) /\ Len(cpuRows) <= Samples
  /\ ioRow \in 0..MaxWork \cup {NoRow}
  /\ pc \in {"idle", "collecting", "persisting", "analyzing"}
  /\ dry \in BOOLEAN
  /\ turn \in DOMAIN Plan
  /\ frames \subseteq Collector
  /\ cpuValue \in Load \cup {Null} /\ interval \in 0..MaxWork \cup {Unknown}
  /\ skipped \subseteq Collector
  /\ severity \in {"none", "warn", "crit"}
  /\ raised \subseteq Collector
  /\ cut \in 1..Len(Plan)+1
  /\ since \in 0..MaxWork /\ reset \in BOOLEAN

Init ==
  /\ load \in Load /\ work = 0 /\ booted = FALSE
  /\ cpuRows = <<>> /\ ioRow = NoRow
  /\ pc = "idle" /\ dry = FALSE /\ turn = 1
  /\ frames = {} /\ cpuValue = Null /\ interval = Unknown
  /\ skipped = {} /\ raised = {} /\ cut = Len(Plan) + 1
  /\ severity = "none"
  /\ since = 0 /\ reset = FALSE

-----------------------------------------------------------------------------
(* _run_collectors.                                                          *)

Begin ==
  /\ pc = "idle"
  /\ pc' = "collecting" /\ turn' = 1
  /\ dry' \in IF "dry" \in Faults THEN BOOLEAN ELSE {FALSE}
  /\ UNCHANGED <<instVars, repoVars, frameVars, skipped, raised, cut, severity, histVars>>

(* On to the next collector, or to the next loop after the last.             *)
Advance(loop) ==
  IF turn < Len(Plan) THEN turn' = turn + 1 /\ UNCHANGED pc ELSE turn' = 1 /\ pc' = loop

(* The deadline is looked at before each collector; what has no frame yet is *)
(* skipped.                                                                  *)
OutOfTime ==
  /\ pc = "collecting" /\ "budget" \in Faults
  /\ skipped' = skipped \cup (Collector \ frames)
  /\ cut' = turn
  /\ pc' = "persisting" /\ turn' = 1
  /\ UNCHANGED <<instVars, repoVars, dry, frameVars, raised, severity, histVars>>

Gated ==
  /\ pc = "collecting" /\ Plan[turn] \notin Applies
  /\ skipped' = skipped \cup {Plan[turn]}
  /\ Advance("persisting")
  /\ UNCHANGED <<instVars, repoVars, dry, frameVars, raised, cut, severity, histVars>>

FailsAndBreaks ==  \* mutant: break instead of continue
  /\ pc = "collecting" /\ Plan[turn] \in Applies /\ "collector" \in Faults
  /\ skipped' = skipped \cup {Plan[turn]}
  /\ raised' = raised \cup {Plan[turn]}
  /\ pc' = "persisting" /\ turn' = 1
  /\ UNCHANGED <<instVars, repoVars, dry, frameVars, cut, severity, histVars>>

Fails ==
  /\ pc = "collecting" /\ Plan[turn] \in Applies /\ "collector" \in Faults
  /\ skipped' = skipped \cup {Plan[turn]}
  /\ raised' = raised \cup {Plan[turn]}
  /\ Advance("persisting")
  /\ UNCHANGED <<instVars, repoVars, dry, frameVars, cut, severity, histVars>>

CounterDeltaUnchecked(previous, current) ==  \* mutant: no look at a reset
  IF previous = NoRow THEN Unknown ELSE current - previous

CounterDeltaUnsigned(previous, current) ==  \* mutant: takes the counter at its word after a reset
  IF previous = NoRow THEN Unknown ELSE IF current < previous THEN current + 1 ELSE current - previous

(* derive.counter_delta: unknown without a previous sample, or after a reset.*)
CounterDelta(previous, current) ==
  IF previous = NoRow \/ current < previous THEN Unknown ELSE current - previous

(* The ring buffer is empty right after a start: the percentage is NULL.     *)
Collects ==
  /\ pc = "collecting" /\ Plan[turn] \in Applies
  /\ frames' = frames \cup {Plan[turn]}
  /\ IF Plan[turn] = Cpu THEN cpuValue' \in {load} \cup (IF booted THEN {Null} ELSE {})
                         ELSE UNCHANGED cpuValue
  /\ interval' = IF Plan[turn] = Io THEN CounterDelta(ioRow, work) ELSE interval
  /\ Advance("persisting")
  /\ UNCHANGED <<instVars, repoVars, dry, skipped, raised, cut, severity, histVars>>

-----------------------------------------------------------------------------
(* _persist: each frame by itself; one that fails is noted and left.         *)

LastRowsOldest(rows) ==  \* mutant: recent_values without DESC, the oldest rows there are
  SubSeq(rows, 1, IF Len(rows) < Samples THEN Len(rows) ELSE Samples)

(* Of the rows of a sample table only the last ones are ever asked for.      *)
LastRows(rows) ==
  SubSeq(rows, IF Len(rows) < Samples THEN 1 ELSE Len(rows) - Samples + 1, Len(rows))

Store(c) ==
  /\ cpuRows' = IF c = Cpu THEN LastRows(Append(cpuRows, cpuValue)) ELSE cpuRows
  /\ ioRow' = IF c = Io THEN work ELSE ioRow
  /\ since' = IF c = Io THEN 0 ELSE since
  /\ reset' = IF c = Io THEN FALSE ELSE reset

Persists ==
  /\ pc = "persisting"
  /\ IF Plan[turn] \notin frames \/ dry
     THEN UNCHANGED <<repoVars, histVars>>
     ELSE \/ Store(Plan[turn])
          \/ "write" \in Faults /\ UNCHANGED <<repoVars, histVars>>
  /\ Advance("analyzing")
  /\ UNCHANGED <<instVars, dry, frameVars, skipped, raised, cut, severity>>

-----------------------------------------------------------------------------
(* _analyze_and_alert, of which only the sustained CPU rule is followed.     *)

Sum(rows) == LET s[n \in 0..Len(rows)] == IF n = 0 THEN 0 ELSE s[n-1] + rows[n] IN s[Len(rows)]

(* sustained_average over what recent_values returned, graded by _severity;  *)
(* nothing is said before there are Samples of them that are not NULL.       *)
SustainedSeverity(rows) ==
  LET Usable == SelectSeq(rows, LAMBDA v : v # Null)
  IN  IF Len(Usable) < Samples THEN "none"
      ELSE IF Sum(Usable) >= Crit * Samples THEN "crit"
      ELSE IF Sum(Usable) >= Warn * Samples THEN "warn" ELSE "none"

(* The worker is done with the server; the next pass starts from nothing.    *)
EndPass ==
  /\ pc' = "idle" /\ dry' = FALSE /\ turn' = 1
  /\ frames' = {} /\ cpuValue' = Null /\ interval' = Unknown
  /\ skipped' = {} /\ raised' = {} /\ cut' = Len(Plan) + 1
  /\ booted' = FALSE
  /\ UNCHANGED <<load, work, repoVars, histVars>>

Analyzes ==
  /\ pc = "analyzing"
  /\ severity' = SustainedSeverity(cpuRows)
  /\ EndPass

(* previous_io_sample, recent_values and their like, and the mkdir of        *)
(* export_frame, raise out of the pass: the server is then reported as       *)
(* failed (TierRun!WorkerCollects).                                          *)
Aborts ==
  /\ pc # "idle" /\ "abort" \in Faults
  /\ EndPass
  /\ UNCHANGED severity

-----------------------------------------------------------------------------
(* The monitored instance, between two passes.                               *)

Works ==
  /\ pc = "idle" /\ work < MaxWork /\ since < MaxWork
  /\ work' = work + 1 /\ since' = since + 1
  /\ UNCHANGED <<load, booted, repoVars, passVars, severity, reset>>

LoadChanges ==
  /\ pc = "idle"
  /\ load' \in Load \ {load}
  /\ UNCHANGED <<work, booted, repoVars, passVars, severity, histVars>>

Restarts ==
  /\ pc = "idle" /\ "restart" \in Faults
  /\ work' = 0 /\ booted' = TRUE /\ reset' = TRUE
  /\ UNCHANGED <<load, repoVars, passVars, severity, since>>

Pass == Begin \/ OutOfTime \/ Gated \/ Fails \/ Collects \/ Persists \/ Analyzes \/ Aborts

Next == Pass \/ Works \/ LoadChanges \/ Restarts

Spec == Init /\ [][Next]_vars

(* Passes keep coming, the instance does not restart for ever, and again and *)
(* again a pass stores its CPU sample and one gets as far as the evaluation. *)
Fairness ==
  /\ []<><<Persists /\ Plan[turn] = Cpu /\ Cpu \in frames /\ ~dry
           /\ cpuRows' = LastRows(Append(cpuRows, cpuValue))>>_vars
  /\ []<><<Analyzes>>_vars
  /\ <>[][~Restarts]_vars

FairSpec == Spec /\ Fairness

-----------------------------------------------------------------------------
(* Correctness.                                                              *)

(* runner.py: "One collector failing ... must not cost the server its other  *)
(* metrics": a collector that has nothing to persist is listed as skipped,   *)
(* and it is one the version gate held back, that raised itself, or whose    *)
(* turn had not come when the time ran out; no other is.                     *)
FailureIsolated ==
  pc \in {"persisting", "analyzing"} =>
    \A n \in DOMAIN Plan :
      /\ Plan[n] \notin frames <=> Plan[n] \in skipped
      /\ Plan[n] \notin frames => Plan[n] \notin Applies \/ Plan[n] \in raised \/ n >= cut

(* README: intervals are "derived from consecutive samples"; "a counter that *)
(* moves backwards means a restart": an interval is what the counter really  *)
(* gained since the last sample that was stored, whatever was lost in        *)
(* between, and after a restart at most that.                                *)
IntervalHonest ==
  (pc = "collecting" \/ (pc = "persisting" /\ turn = 1)) /\ Io \in frames /\ interval # Unknown =>
    IF reset THEN interval \in 0..since ELSE interval = since

(* A CPU load that lasts is in the end graded for what it is, and one that   *)
(* has passed is in the end forgotten, whatever samples fail on the way.     *)
SteadyLoadGraded ==
  \A l \in Load :
    <>[](load = l) =>
      <>[](severity = IF l >= Crit THEN "crit" ELSE IF l >= Warn THEN "warn" ELSE "none")
=============================================================================
