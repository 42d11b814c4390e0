------------------------------- MODULE Analysis -------------------------------
(***************************************************************************)
(* runner._analyze_and_alert over and over: workers resolve the thresholds *)
(* of their servers (ThresholdOverrides) and evaluate the rules with them  *)
(* (ThresholdRules), while one server, Watched, gets worse and worse and   *)
(* its files and volumes grow from day to day.                             *)
(***************************************************************************)
EXTENDS ThresholdOverrides, ThresholdRules, FiniteSets

CONSTANTS
  Watched,   \* the server that is followed
  Inputs,    \* the AnalysisInputs it may start with
  Notches,   \* for each measurement, the values it may take
  Session,   \* the sessions that may block one another
  Growths,   \* the megabytes a file or volume may gain or lose between two samples
  Gaps,      \* the days there may be between two samples
  Window,    \* bound on the points of a growth series
  MaxUsed,   \* bound on the megabytes used
  MaxWalk    \* MAX_CHAIN_WALK

Measured == {"cpu", "signal", "ple", "grants", "latency", "freePct", "freeGb", "seconds", "deadlocks", "fragPct"}

SessionsKnown(input) == \A row \in input.blocking : {row.spid, row.blocker} \subseteq Session

ASSUME AnalysisAssumption ==
  /\ Watched \in Server
  /\ \A i \in Inputs : InputType(i) /\ SessionsKnown(i)
  /\ Notches \in [Measured -> SUBSET Int]
  /\ Notches["ple"] \cup Notches["deadlocks"] \subseteq Nat
  /\ LimitsType(Defaults) /\ \A o \in Source : LimitsType(Overrides[o])
  /\ Growths \subseteq Int /\ Gaps \subseteq Nat \ {0}
  /\ Window \in Nat \ {0, 1} /\ MaxUsed \in Nat /\ MaxWalk \in Nat

VARIABLES
  inp,    \* what Watched would be evaluated with now
  graded  \* graded[c]: the worst severity of category c at its last evaluation

vars == <<mergeVars, inp, graded>>

Category == {"cpu", "memory", "io", "space", "blocking", "deadlock", "index", "stats"}
SeverityOrder == [s \in {None, "info", "warn", "crit"} |->
  CASE s = None -> -1 [] s = "info" -> 0 [] s = "warn" -> 1 [] s = "crit" -> 2]

Worst(findings, category) ==
  LET Severities == {None} \cup {f.severity : f \in {g \in findings : g.category = category}}
  IN  CHOOSE s \in Severities : \A t \in Severities : SeverityOrder[t] <= SeverityOrder[s]

TypeOK ==
  /\ pc \in [Worker -> {"idle", "merging", "resolved"}]
  /\ server \in [Worker -> Server \cup {NoServer}]
  /\ \A w \in Worker :
       /\ server[w] = NoServer <=> pc[w] = "idle"
       /\ layer[w] \in 1..(IF pc[w] = "idle" THEN 1 ELSE Len(Layers(server[w])) + 1)
       /\ DOMAIN own[w] \cap DOMAIN alias[w] = {}
       /\ \A c \in DOMAIN alias[w] : alias[w][c] \in Source /\ c \in DOMAIN overrides[alias[w][c]]
  /\ DOMAIN overrides = Source
  /\ InputType(inp) /\ SessionsKnown(inp)
  /\ graded \in [Category -> {None, "info", "warn", "crit"}]

Init ==
  /\ MergeInit
  /\ inp \in Inputs
  /\ graded = [c \in Category |-> None]

-----------------------------------------------------------------------------
(* The workers.                                                              *)

Resolve(w) == (Copy(w) \/ MergeLayer(w)) /\ UNCHANGED <<inp, graded>>

(* analyzer.evaluate, on what the server measures by then.                   *)
Evaluate(w) ==
  /\ Drop(w)
  /\ graded' = IF server[w] # Watched THEN graded
               ELSE [c \in Category |-> Worst(Findings(inp, Effective(w)), c)]
  /\ UNCHANGED inp

-----------------------------------------------------------------------------
(* The server.  A measurement that is missing stays missing.                 *)

Up(metric, v) == {u \in Notches[metric] : v # None /\ u > v}
Down(metric, v) == {u \in Notches[metric] : v # None /\ u < v}

(* The rows of a frame, or a sequence of samples, with one value replaced.   *)
RowsWorse(rows, field, Values(_)) ==
  UNION {{(rows \ {row}) \cup {[row EXCEPT ![field] = u]} : u \in Values(row[field])} : row \in rows}
SamplesWorse(samples, metric) ==
  UNION {{[samples EXCEPT ![n] = u] : u \in Up(metric, samples[n])} : n \in DOMAIN samples}

Worse ==
  {[inp EXCEPT !.cpuHistory = h] : h \in SamplesWorse(inp.cpuHistory, "cpu")}
  \cup {[inp EXCEPT !.grantsHistory = h] : h \in SamplesWorse(inp.grantsHistory, "grants")}
  \cup {[inp EXCEPT !.cpu = r] : r \in RowsWorse(inp.cpu, "signal", LAMBDA v : Up("signal", v))}
  \cup {[inp EXCEPT !.memory = r] : r \in RowsWorse(inp.memory, "ple", LAMBDA v : Down("ple", v))
                                     \cup RowsWorse(inp.memory, "node", LAMBDA v : Down("ple", v))
                                     \cup RowsWorse(inp.memory, "floor", LAMBDA v : Up("ple", v))}
  \cup {[inp EXCEPT !.io = r] : r \in RowsWorse(inp.io, "read", LAMBDA v : Up("latency", v))
                                 \cup RowsWorse(inp.io, "write", LAMBDA v : Up("latency", v))}
  \cup {[inp EXCEPT !.dbSpace = r] : r \in RowsWorse(inp.dbSpace, "freePct", LAMBDA v : Down("freePct", v))}
  \cup {[inp EXCEPT !.driveSpace = r] :
          r \in RowsWorse(inp.driveSpace, "freePct", LAMBDA v : Down("freePct", v))
                \cup RowsWorse(inp.driveSpace, "freeGb", LAMBDA v : Down("freeGb", v))}
  \cup {[inp EXCEPT !.blocking = r] : r \in RowsWorse(inp.blocking, "seconds", LAMBDA v : Up("seconds", v))}
  \cup {[inp EXCEPT !.deadlocks = n] : n \in Up("deadlocks", inp.deadlocks)}
  \cup {[inp EXCEPT !.indexFrag = r] : r \in RowsWorse(inp.indexFrag, "fragPct", LAMBDA v : Up("fragPct", v))}

Worsens == inp' \in Worse /\ UNCHANGED <<mergeVars, graded>>

(* One more session is blocked.                                              *)
Blocks ==
  /\ inp.blocking # {}
  /\ \E s \in Session \ {row.spid : row \in inp.blocking}, b \in Session, t \in Notches["seconds"] :
       inp' = [inp EXCEPT !.blocking = @ \cup {[spid |-> s, blocker |-> b, seconds |-> t, database |-> s]}]
  /\ UNCHANGED <<mergeVars, graded>>

(* A growth series with one more daily sample.  The window is what retention *)
(* keeps; days count from its first point.                                   *)
Sampled(points, gap, more) ==
  LET last == points[Len(points)]
      next == Append(points, [day |-> last.day + gap, used |-> last.used + more])
      kept == IF Len(next) > Window THEN Tail(next) ELSE next
  IN  [n \in DOMAIN kept |-> [kept[n] EXCEPT !.day = @ - kept[1].day]]

Fills ==
  /\ \E f \in {"dbGrowth", "driveGrowth"} : \E key \in DOMAIN inp[f], gap \in Gaps, more \in Growths :
       /\ inp[f][key].points[Len(inp[f][key].points)].used + more \in 0..MaxUsed
       /\ inp' = [inp EXCEPT ![f][key].points = Sampled(@, gap, more)]
  /\ UNCHANGED <<mergeVars, graded>>

Next ==
  \/ \E w \in Worker : Resolve(w) \/ Evaluate(w)
  \/ Worsens \/ Blocks \/ Fills

Spec == Init /\ [][Next]_vars

-----------------------------------------------------------------------------
(* Correctness.                                                              *)

(* A server whose measurements only get worse is never graded milder than    *)
(* before: no rule gives way to a stricter one without being replaced by it, *)
(* and no value, 0 included, falls through.  A slower growth may well put    *)
(* off the day a volume is full.                                             *)
SeverityNeverFalls ==
  [][\A c \in Category :
       \/ c = "space" /\ (DOMAIN inp.dbGrowth \cup DOMAIN inp.driveGrowth) # {}
       \/ SeverityOrder[graded'[c]] >= SeverityOrder[graded[c]]]_vars

(* The days a file or volume is said to have left are never fewer than at    *)
(* the fastest, nor more than at the slowest rate seen between two samples;  *)
(* what grows has a projection, what does not grow has none.                 *)
Bracketed(points, capacity) ==
  LET tenths == DaysToFull(points, capacity)
      headroom == capacity - points[Len(points)].used
      Rates == {[more |-> points[n+1].used - points[n].used, days |-> points[n+1].day - points[n].day] :
                  n \in 1..Len(points)-1}
  IN  /\ (\A r \in Rates : r.more <= 0) => tenths = None
      /\ capacity > 0 /\ (\A r \in Rates : r.more > 0) => tenths # None
      /\ tenths # None /\ headroom <= 0 => tenths = 0
      /\ tenths # None /\ headroom > 0 =>
           /\ \E r \in Rates : (2 * tenths + 1) * r.more >= 20 * headroom * r.days
           /\ \E r \in Rates : (2 * tenths - 1) * r.more <= 20 * headroom * r.days

ProjectionBracketed ==
  \A f \in {"dbGrowth", "driveGrowth"} : \A key \in DOMAIN inp[f] :
    inp[f][key].capacity # None /\ Len(inp[f][key].points) >= 2 =>
      Bracketed(inp[f][key].points, inp[f][key].capacity)

(* blocking.py: "How many sessions deep this one sits in the blocking chain  *)
(* (head = 1)": one more than the blocked sessions on the way to the head,   *)
(* itself included, each counted once whatever cycles there are, up to the   *)
(* limit of the walk.                                                        *)
ChainDepthCounts ==
  LET Blocked == {row.spid : row \in inp.blocking}
      BlockerOf == [s \in Blocked |-> (CHOOSE row \in inp.blocking : row.spid = s).blocker]
      OnTheWay(s) ==
        {t \in Blocked : \A S \in SUBSET Session :
           s \in S /\ (\A u \in S \cap Blocked : BlockerOf[u] \in S) => t \in S}
      Counted(s) == IF Cardinality(OnTheWay(s)) < MaxWalk THEN Cardinality(OnTheWay(s)) ELSE MaxWalk
  IN  \A s \in Session : ChainDepth(s, BlockerOf, MaxWalk) = 1 + Counted(s)
===============================================================================
