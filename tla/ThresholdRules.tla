---------------------------- MODULE ThresholdRules ----------------------------
(***************************************************************************)
(* The analyzer as a function: analyze/thresholds.evaluate with its rules, *)
(* the projections and averages of analyze/derive, and the chain depth of  *)
(* collectors/blocking.                                                    *)
(*                                                                         *)
(* inp is the AnalysisInput.  A frame is the set of its rows, so an empty  *)
(* frame is {}.  limits are the effective thresholds, a block of keys per  *)
(* category.  None stands for None, NULL and NaN alike, except in a growth *)
(* series, which is taken to hold numbers only, see PointsType.            *)
(***************************************************************************)
EXTENDS Integers, Sequences, FiniteSets

CONSTANT None

ASSUME NoneAssumption == None \notin Int \cup {"info", "warn", "crit"}

Reading == Int \cup {None}

(* The rows of a frame: what they are called by, and what was measured.      *)
Frame(rows, names, readings) ==
  \A row \in rows : DOMAIN row = names \cup readings /\ \A r \in readings : row[r] \in Reading

(* A growth series, oldest first, and the capacity it runs up to.  Every     *)
(* used_mb is a number.  A NULL among numbers comes back from pandas as NaN, *)
(* which "is not None" (runner.py) and derive lets pass; the days to full of *)
(* such a series are no number, and are outside this module.                 *)
PointsType(points) ==
  /\ points \in Seq([day : Int, used : Int]) /\ Len(points) >= 1
  /\ \A n \in 1..Len(points)-1 : points[n].day < points[n+1].day
GrowthType(growth) ==
  \A key \in DOMAIN growth :
    /\ DOMAIN growth[key] = {"points", "capacity"}
    /\ PointsType(growth[key].points) /\ growth[key].capacity \in Reading

InputType(inp) ==
  /\ DOMAIN inp = {"cpuHistory", "grantsHistory", "cpu", "memory", "io", "dbSpace", "dbGrowth",
                   "driveSpace", "driveGrowth", "volumeStats", "blocking", "deadlocks", "indexFrag",
                   "indexMissing", "indexUnused", "statsStale", "autoUpdateOff"}
  /\ inp.cpuHistory \in Seq(Reading) /\ inp.grantsHistory \in Seq(Reading)
  /\ Frame(inp.cpu, {}, {"signal"})
  /\ Frame(inp.memory, {}, {"ple", "node", "floor"})
  /\ \A row \in inp.memory : row.floor \in Nat \cup {None}
  /\ Frame(inp.io, {"file"}, {"read", "write"})
  /\ Frame(inp.dbSpace, {"file"}, {"freePct"}) /\ GrowthType(inp.dbGrowth)
  /\ Frame(inp.driveSpace, {"mount"}, {"freePct", "freeGb"}) /\ GrowthType(inp.driveGrowth)
  /\ inp.volumeStats \in BOOLEAN
  /\ IsFiniteSet(inp.blocking) /\ Frame(inp.blocking, {"spid", "blocker", "database"}, {"seconds"})
  /\ \A row \in inp.blocking : row.seconds # None
  /\ inp.deadlocks \in Nat
  /\ Frame(inp.indexFrag, {}, {"fragPct", "pages"})
  /\ \A row \in inp.indexFrag : row.fragPct # None /\ row.pages # None

(* A threshold may be left out or null, where a number is compared with it;  *)
(* the counts and floors of the rules have to be numbers.                    *)
Counts == {"sustained_samples", "frag_pct_min_report", "min_page_count"}
LimitsType(limits) ==
  \A c \in DOMAIN limits : \A k \in DOMAIN limits[c] :
    limits[c][k] \in IF k \in Counts THEN Int ELSE Reading

-----------------------------------------------------------------------------
Limit(limits, category, key, default) ==
  IF category \in DOMAIN limits /\ key \in DOMAIN limits[category] THEN limits[category][key] ELSE default

(* _severity and _severity_low: crit is looked at first, a threshold that is *)
(* None is never reached.                                                    *)
Reaches(value, limit) == None \notin {value, limit} /\ value >= limit
Within(value, limit) == None \notin {value, limit} /\ value <= limit

Grade(isCrit, isWarn) == IF isCrit THEN "crit" ELSE IF isWarn THEN "warn" ELSE None

Severity(value, warn, crit) == Grade(Reaches(value, crit), Reaches(value, warn))

SeverityLowTruthy(value, warn, crit) ==  \* mutant: if not value, which is true of 0
  Grade(value # 0 /\ Within(value, crit), value # 0 /\ Within(value, warn))

SeverityLow(value, warn, crit) == Grade(Within(value, crit), Within(value, warn))

(* The findings of one check: one, or none when there is no severity.        *)
Report(severity, category, metric, object) ==
  IF severity = None THEN {}
  ELSE {[category |-> category, severity |-> severity, metric |-> metric, object |-> object]}

-----------------------------------------------------------------------------
(* derive.py.                                                                *)

(* A recursive function, whose equation can be reasoned about.               *)
SumOf(s) ==
  LET sums[n \in 0..Len(s)] == IF n = 0 THEN 0 ELSE sums[n-1] + s[n]
  IN  sums[Len(s)]

Product(s, t) == [n \in DOMAIN s |-> s[n] * t[n]]
Rounded(n, d) == (2 * n + d) \div (2 * d)

(* sustained_average: of the last N values that are not None, times N.       *)
SustainedSum(values, samples) ==
  LET Usable == {n \in DOMAIN values : values[n] # None}
      Recent == {n \in Usable : Cardinality({m \in Usable : m > n}) < samples}
  IN  IF Cardinality(Usable) < samples \/ samples <= 0 THEN None
      ELSE SumOf([n \in DOMAIN values |-> IF n \in Recent THEN values[n] ELSE 0])

SlopeUncentred(points) ==  \* mutant: the means are not subtracted
  LET x == [i \in DOMAIN points |-> points[i].day]
      y == [i \in DOMAIN points |-> points[i].used]
  IN  [num |-> SumOf(Product(x, y)), den |-> SumOf(Product(x, x))]

(* growth_slope_mb_per_day: the least-squares slope as a fraction.  Points   *)
(* are [day, used], oldest first.                                            *)
Slope(points) ==
  LET n == Len(points)
      x == [i \in DOMAIN points |-> points[i].day]
      y == [i \in DOMAIN points |-> points[i].used]
  IN  [num |-> n * SumOf(Product(x, y)) - SumOf(x) * SumOf(y),
       den |-> n * SumOf(Product(x, x)) - SumOf(x) * SumOf(x)]

(* days_to_full, in tenths of a day; None when not projectable: no capacity, *)
(* no trend, or not growing.  What is over its capacity has no days left.    *)
DaysToFull(points, capacity) ==
  LET slope == Slope(points)
      headroom == capacity - points[Len(points)].used
  IN  IF capacity = None \/ capacity <= 0 \/ Len(points) < 2 \/ slope.den = 0 \/ slope.num <= 0 THEN None
      ELSE IF headroom <= 0 THEN 0
      ELSE Rounded(10 * headroom * slope.den, slope.num)

-----------------------------------------------------------------------------
(* thresholds.py, rule by rule.                                              *)

(* An average over N samples against a limit; percentages are whole.         *)
Times(limit, n) == IF limit = None THEN None ELSE limit * n

CpuFindings(inp, limits) ==
  LET samples == Limit(limits, "cpu", "sustained_samples", 4)
      warn == Times(Limit(limits, "cpu", "sustained_pct_warn", None), samples)
      crit == Times(Limit(limits, "cpu", "sustained_pct_crit", None), samples)
      signal == Limit(limits, "cpu", "signal_wait_pct_warn", None)
  IN  Report(Severity(SustainedSum(inp.cpuHistory, samples), warn, crit), "cpu", "sql_cpu_pct", "instance")
      \cup UNION {Report(Severity(row.signal, signal, None), "cpu", "signal_wait_pct", "instance") :
                    row \in inp.cpu}

(* Whichever floor is higher; 0 counts as no floor (max(filter(None, ...))). *)
EffectiveWarn(absolute, dynamic) ==
  LET Floors == {absolute, dynamic} \ {None, 0}
  IN  IF Floors = {} THEN None ELSE CHOOSE f \in Floors : \A g \in Floors : g <= f

Below(value, limit) == None \notin {value, limit} /\ value < limit

(* Two consecutive samples with grants pending; one of them may be missing.  *)
GrantsPending(history, warn) ==
  /\ warn # None /\ Len(history) >= 2
  /\ \A n \in {Len(history) - 1, Len(history)} : history[n] # None /\ history[n] >= warn

MemoryFindings(inp, limits) ==
  LET warn == Limit(limits, "memory", "ple_warn", None)
      crit == Limit(limits, "memory", "ple_crit", None)
      Ple(row) == Grade(Below(row.ple, crit), Below(row.ple, EffectiveWarn(warn, row.floor)))
      Node(row) ==
        IF row.ple # None /\ Below(row.node, crit) /\ ~Below(row.ple, crit) THEN "warn" ELSE None
      Grants ==
        IF GrantsPending(inp.grantsHistory, Limit(limits, "memory", "memory_grants_pending_warn", None))
        THEN "warn" ELSE None
  IN  UNION {Report(Ple(row), "memory", "page_life_expectancy", "instance")
             \cup Report(Node(row), "memory", "min_node_ple", "numa")
             \cup Report(Grants, "memory", "memory_grants_pending", "instance") : row \in inp.memory}

IoFindings(inp, limits) ==
  LET Latency(row, direction) ==
        Severity(row[direction], Limit(limits, "io", direction \o "_latency_ms_warn", None),
                                 Limit(limits, "io", direction \o "_latency_ms_crit", None))
  IN  UNION {Report(Latency(row, direction), "io", direction \o "_latency_ms", row.file) :
               row \in inp.io, direction \in {"read", "write"}}

(* _days_to_full_findings, for database files and for volumes.               *)
Projected(growth, limits, metric) ==
  LET warn == Limit(limits, "space", "days_to_full_warn", None)
      Tenths(key) == DaysToFull(growth[key].points, growth[key].capacity)
      Due(key) == IF None \in {warn, Tenths(key)} THEN None ELSE SeverityLow(Tenths(key), 10 * warn, 5 * warn)
  IN  UNION {Report(Due(key), "space", metric, key) : key \in DOMAIN growth}

SpaceDbFindings(inp, limits) ==
  Projected(inp.dbGrowth, limits, "db_days_to_full")
  \cup UNION {Report(SeverityLow(row.freePct, Limit(limits, "space", "db_free_pct_warn", None),
                                              Limit(limits, "space", "db_free_pct_crit", None)),
                     "space", "db_free_pct", row.file) : row \in inp.dbSpace}

(* Without sys.dm_os_volume_stats there is no total: megabytes are judged.   *)
SpaceDriveFindings(inp, limits) ==
  LET metric == IF inp.volumeStats THEN "drive_free_pct" ELSE "drive_free_mb"
      Free(row) == IF inp.volumeStats THEN row.freePct
                   ELSE IF row.freeGb = None THEN None ELSE row.freeGb * 1024
  IN  IF inp.driveSpace = {} THEN {}
      ELSE Projected(inp.driveGrowth, limits, "drive_days_to_full")
           \cup UNION {Report(SeverityLow(Free(row), Limit(limits, "space", metric \o "_warn", None),
                                                     Limit(limits, "space", metric \o "_crit", None)),
                              "space", metric, row.mount) : row \in inp.driveSpace}

(* Only the session that waits longest is reported, under its database.      *)
BlockingFindings(inp, limits) ==
  LET Worst == {row \in inp.blocking : \A r \in inp.blocking : r.seconds <= row.seconds}
      worst == CHOOSE row \in Worst : TRUE
  IN  IF inp.blocking = {} THEN {}
      ELSE Report(Severity(worst.seconds, Limit(limits, "blocking", "block_seconds_warn", None),
                                          Limit(limits, "blocking", "block_seconds_crit", None)),
                  "blocking", "block_seconds", worst.database)

DeadlockFindings(inp, limits) ==
  IF inp.deadlocks = 0 THEN {}
  ELSE Report(Severity(inp.deadlocks, Limit(limits, "deadlock", "count_24h_warn", None),
                                      Limit(limits, "deadlock", "count_24h_crit", None)),
              "deadlock", "deadlock_count_24h", "instance")

IndexFindings(inp, limits) ==
  LET Fragmented ==
        {row \in inp.indexFrag : /\ row.fragPct >= Limit(limits, "index", "frag_pct_min_report", 15)
                                 /\ row.pages >= Limit(limits, "index", "min_page_count", 1000)}
      Some(rows) == IF rows = {} THEN None ELSE "info"
  IN  Report(Some(Fragmented), "index", "index_fragmentation", "indexes")
      \cup Report(Some(inp.indexMissing), "index", "missing_indexes", "indexes")
      \cup Report(Some(inp.indexUnused), "index", "unused_indexes", "indexes")

(* Stale statistics escalate where auto-update is off.                       *)
StatsFindings(inp, limits) ==
  IF inp.statsStale = {} THEN {}
  ELSE Report("info", "stats", "stale_statistics", "statistics")
       \cup Report(IF \E row \in inp.statsStale : row.database \in inp.autoUpdateOff THEN "warn" ELSE None,
                   "stats", "auto_update_stats_off", "databases")

Findings(inp, limits) ==
  CpuFindings(inp, limits) \cup MemoryFindings(inp, limits) \cup IoFindings(inp, limits)
  \cup SpaceDbFindings(inp, limits) \cup SpaceDriveFindings(inp, limits)
  \cup BlockingFindings(inp, limits) \cup DeadlockFindings(inp, limits)
  \cup IndexFindings(inp, limits) \cup StatsFindings(inp, limits)

-----------------------------------------------------------------------------
StepUnseen(at, blockedBy) ==  \* mutant: only the step limit stops a cycle
  IF at.current \in DOMAIN blockedBy
  THEN [current |-> blockedBy[at.current], seen |-> {}, depth |-> at.depth + 1]
  ELSE at

(* One round of chain_depth's loop along the pairs blocked -> blocker: never *)
(* twice through one session.                                                *)
Step(at, blockedBy) ==
  IF at.current \in DOMAIN blockedBy \ at.seen
  THEN [current |-> blockedBy[at.current], seen |-> at.seen \cup {at.current}, depth |-> at.depth + 1]
  ELSE at

(* collectors/blocking.chain_depth: from a session, at most MaxWalk rounds.  *)
ChainDepth(spid, blockedBy, maxWalk) ==
  LET walk[n \in 0..maxWalk] ==
        IF n = 0 THEN [current |-> spid, seen |-> {}, depth |-> 1] ELSE Step(walk[n-1], blockedBy)
  IN  walk[maxWalk].depth
===============================================================================
