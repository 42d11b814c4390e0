------------------------ MODULE VersionGatingProofs ------------------------
(* For a fleet of any versions and patch levels that keeps to the matrix:    *)
(* what the gates and the variants are enough for.                           *)
EXTENDS VersionGating, FiniteSetTheorems, TLAPS

(* The features a pass works with are those of the instance it talks to,     *)
(* which is why what it sends is answered, but for tempdb_usage.sql before   *)
(* 2012.                                                                     *)
Fresh ==
  /\ features.major = server.major
  /\ features.azure = server.azure
  /\ features.found = server.offers \cap Probed

(* tempdb is the third collector of the daily tier.                          *)
TempdbTried ==
  tier = "daily" /\ (pc = "idle" \/ turn > 3) /\ features.major < Major2012 /\ ~features.azure
  => "tempdb" \in failed

GateInv ==
  /\ server \in Instance
  /\ pc \in {"idle", "collecting"} /\ tier \in {"fast", "daily"} /\ turn \in DOMAIN Plan[tier]
  /\ pc = "collecting" => Fresh
  /\ features.major \in Nat
  /\ failed \subseteq IF features.major < Major2012 THEN {"tempdb"} ELSE {}
  /\ TempdbTried

(* The files that only stand in for a collector's own.                       *)
OtherFile == {"instance_meta_legacy", "memory_clerks_legacy", "stats_age", "stats_age_legacy",
              "space_drive_legacy", "querystore_top", "plan_cache_top", "plan_cache_top_legacy"}

LEMMA NoFileInPlan ==
  ASSUME NEW t \in {"fast", "daily"}, NEW n \in DOMAIN Plan[t]
  PROVE  Plan[t][n] \notin OtherFile
<1>1. CASE t = "fast"
  BY <1>1 DEF Plan, OtherFile
<1>2. CASE t = "daily"
  BY <1>2 DEF Plan, OtherFile
<1>3. QED BY <1>1, <1>2

(* tempdb_usage.sql is answered from 2012 on, and only from then on.         *)
LEMMA TempdbAnswered ==
  ASSUME Matrix, server \in Instance, Fresh, AppliesTo("tempdb", features)
  PROVE  Answered("tempdb") <=> features.major >= Major2012
<1>1. Variant("tempdb", features) = "tempdb"
  BY DEF Variant
<1>2. Uses("tempdb") = {"total_page_count", "server_dmvs"}
  BY DEF Uses
<1>3. "server_dmvs" \in server.offers
  BY DEF Matrix, AppliesTo, BoxOnly, Fresh
<1>4. "total_page_count" \in server.offers <=> server.major >= Major2012
  BY InstanceAssumption DEF Matrix
<1>5. QED BY <1>1, <1>2, <1>3, <1>4 DEF Answered, Fresh

(* Any other collector that applies sends only what the instance answers:    *)
(* the link from the probe to the statements, variant by variant.            *)
LEMMA GateSuffices ==
  ASSUME Matrix, server \in Instance, Fresh, NEW c, c \notin OtherFile, c # "tempdb", AppliesTo(c, features)
  PROVE  Answered(c)
<1>1. /\ server.major \in Nat
      /\ server.major >= 10 /\ {"query_hash", "start_time"} \subseteq server.offers
      /\ server.major >= 11 => "pages_kb" \in server.offers
      /\ ~(server.major >= 11) => "single_pages_kb" \in server.offers
      /\ ~server.azure => "server_dmvs" \in server.offers
  BY InstanceAssumption DEF Matrix, Major2008, Major2012
<1>2. c \in BoxOnly => "server_dmvs" \in server.offers
  BY <1>1 DEF AppliesTo, Fresh
<1>3. \A o \in Probed : o \in features.found => o \in server.offers
  BY DEF Fresh
<1> DEFINE File == Variant(c, features)
<1>4. CASE c = "instance_meta"
  <2>1. File = "instance_meta"
    BY <1>1, <1>4 DEF Variant, Fresh, Major2008
  <2>2. QED BY <1>1, <2>1 DEF Answered, Uses, BoxOnly
<1>5. CASE c = "memory_clerks"
  <2>1. File = IF server.major >= 11 THEN "memory_clerks" ELSE "memory_clerks_legacy"
    BY <1>5 DEF Variant, Fresh, Major2012
  <2>2. Uses("memory_clerks") = {"pages_kb"} /\ Uses("memory_clerks_legacy") = {"single_pages_kb"}
    BY DEF Uses, BoxOnly
  <2>3. QED BY <1>1, <2>1, <2>2 DEF Answered
<1>6. CASE c = "statistics"
  <2>1. File = IF "stats_properties" \in features.found THEN "stats_age" ELSE "stats_age_legacy"
    BY <1>6 DEF Variant
  <2>2. Uses("stats_age") = {"stats_properties"} /\ Uses("stats_age_legacy") = {}
    BY DEF Uses, BoxOnly
  <2>3. QED BY <1>3, <2>1, <2>2 DEF Answered, Probed
<1>7. CASE c = "space_drive"
  <2>1. File = IF "volume_stats" \in features.found THEN "space_drive" ELSE "space_drive_legacy"
    BY <1>7 DEF Variant
  <2>2. /\ Uses("space_drive") = {"volume_stats", "server_dmvs"}
        /\ Uses("space_drive_legacy") = {"server_dmvs"}
    BY DEF Uses, BoxOnly
  <2>3. QED BY <1>2, <1>3, <1>7, <2>1, <2>2 DEF Answered, Probed, BoxOnly
<1>8. CASE c = "query_history"
  <2>1. Stores(features) # {} => "query_store" \in server.offers
    BY <1>3 DEF Stores, SupportsQueryStore, Probed
  <2>2. File = IF Stores(features) # {} THEN "querystore_top" ELSE "plan_cache_top"
    BY <1>1, <1>8 DEF Variant, Fresh, Major2008
  <2>3. Uses("querystore_top") = {"query_store"} /\ Uses("plan_cache_top") = {"query_hash"}
    BY DEF Uses, BoxOnly
  <2>4. QED BY <1>1, <2>1, <2>2, <2>3 DEF Answered
<1>9. CASE c \notin {"instance_meta", "memory_clerks", "statistics", "space_drive", "query_history"}
  <2>1. File = c
    BY <1>9 DEF Variant
  <2>2. CASE c = "cpu_top_queries"
    BY <1>1, <1>2, <2>1, <2>2 DEF Answered, Uses, BoxOnly
  <2>3. CASE c \in BoxOnly /\ c # "cpu_top_queries"
    BY <1>2, <1>9, <2>1, <2>3 DEF Answered, Uses, BoxOnly
  <2>4. CASE c \notin BoxOnly
    BY <1>9, <2>1, <2>4 DEF Answered, Uses, OtherFile, BoxOnly
  <2>5. QED BY <2>2, <2>3, <2>4
<1>10. QED BY <1>4, <1>5, <1>6, <1>7, <1>8, <1>9

-----------------------------------------------------------------------------

LEMMA GateInit == Init => GateInv
<1> SUFFICES ASSUME Init PROVE GateInv
  OBVIOUS
<1>1. turn \in DOMAIN Plan[tier]
  BY DEF Init, Plan
<1>2. features.major = 0
  BY DEF Init
<1>3. QED BY <1>1, <1>2 DEF Init, GateInv, TempdbTried

(* The place in the plan after a step of the pass.                           *)
LEMMA AdvanceInPlan ==
  ASSUME GateInv, pc = "collecting", Advance
  PROVE  /\ pc' \in {"idle", "collecting"} /\ tier' \in {"fast", "daily"}
         /\ turn' \in DOMAIN Plan[tier]'
<1>1. turn \in 1..Len(Plan[tier]) /\ DOMAIN Plan[tier] = 1..Len(Plan[tier]) /\ Len(Plan[tier]) \in Nat
  BY DEF GateInv, Plan
<1>2. CASE turn < Len(Plan[tier])
  BY <1>1, <1>2 DEF Advance, Arrive, GateInv, Plan
<1>3. CASE ~(turn < Len(Plan[tier]))
  BY <1>1, <1>3 DEF Advance, GateInv, Plan
<1>4. QED BY <1>2, <1>3

(* A collector is through: if it was tempdb, it has failed where it must.    *)
LEMMA GateAdvance ==
  ASSUME GateInv, pc = "collecting", Advance, UNCHANGED <<server, features>>,
         failed \subseteq failed',
         failed' \subseteq IF features.major < Major2012 THEN {"tempdb"} ELSE {},
         Now = "tempdb" /\ features.major < Major2012 /\ ~features.azure => "tempdb" \in failed'
  PROVE  GateInv'
<1>1. /\ pc' \in {"idle", "collecting"} /\ tier' \in {"fast", "daily"}
      /\ turn' \in DOMAIN Plan[tier]'
  BY AdvanceInPlan
<1>2. TempdbTried'
  <2> SUFFICES ASSUME tier' = "daily", pc' = "idle" \/ turn' > 3, features.major < Major2012, ~features.azure
               PROVE  "tempdb" \in failed'
    BY DEF TempdbTried
  <2>1. tier = "daily" /\ Len(Plan["daily"]) = 12 /\ Plan["daily"][3] = "tempdb" /\ turn \in 1..12
    BY DEF Advance, Arrive, Plan, GateInv
  <2>2. turn >= 3
    BY <2>1 DEF Advance, Arrive
  <2>3. CASE turn = 3
    BY <2>1, <2>3 DEF Now
  <2>4. CASE turn > 3
    BY <2>1, <2>4 DEF GateInv, TempdbTried
  <2>5. QED BY <2>1, <2>2, <2>3, <2>4
<1>3. QED BY <1>1, <1>2 DEF GateInv, Fresh

LEMMA GateStep == ASSUME Matrix, GateInv, [Next]_vars PROVE GateInv'
<1>1. ASSUME NEW t \in DOMAIN Plan, Begin(t) PROVE GateInv'
  <2>1. t \in {"fast", "daily"} /\ 1 \in DOMAIN Plan[t]
    BY <1>1 DEF Plan
  <2>2. tier' = t /\ turn' = 1 /\ turn' \in DOMAIN Plan[tier]'
    BY <1>1, <2>1 DEF Begin, Arrive, Plan
  <2>3. Fresh' /\ (features.major \in Nat)'
    BY <1>1, InstanceAssumption DEF Begin, Probe, Fresh, serverVars, GateInv
  <2>4. pc' = "collecting" /\ failed' = {} /\ TempdbTried'
    BY <1>1, <2>2 DEF Begin, TempdbTried
  <2>5. QED BY <1>1, <2>1, <2>2, <2>3, <2>4 DEF Begin, GateInv, serverVars
<1>2. CASE Gated
  <2>1. Now = "tempdb" => features.azure
    BY <1>2 DEF Gated, AppliesTo
  <2>2. QED BY <1>2, <2>1, GateAdvance DEF Gated, GateInv, serverVars
<1>3. CASE Whole
  <2>1. Now \notin OtherFile
    BY NoFileInPlan DEF Now, GateInv
  <2>2. CASE Now = "tempdb"
    <3>1. Answered("tempdb") <=> features.major >= Major2012
      BY <1>3, <2>2, TempdbAnswered DEF Whole, GateInv
    <3>2. features.major >= 11 <=> ~(features.major < 11)
      BY DEF GateInv
    <3>3. failed' = IF features.major < 11 THEN failed \cup {"tempdb"} ELSE failed
      BY <1>3, <2>2, <3>1, <3>2 DEF Whole, Major2012
    <3>4. failed \subseteq failed' /\ failed' \subseteq IF features.major < 11 THEN {"tempdb"} ELSE {}
      BY <3>3 DEF GateInv, Major2012
    <3>5. QED BY <1>3, <3>3, <3>4, GateAdvance DEF Whole, serverVars, Major2012
  <2>3. CASE Now # "tempdb"
    <3>1. Answered(Now)
      BY <1>3, <2>1, <2>3, GateSuffices DEF Whole, GateInv
    <3>2. QED BY <1>3, <2>3, <3>1, GateAdvance DEF Whole, GateInv, serverVars
  <2>4. QED BY <2>2, <2>3
<1>4. CASE LoopEnds
  <2>1. Now # "tempdb"
    BY <1>4 DEF LoopEnds, Targets, PerDatabase
  <2>2. QED BY <1>4, <2>1, GateAdvance DEF LoopEnds, GateInv, serverVars
<1>5. ASSUME NEW d \in Database, Queries(d) \/ Skips(d) PROVE GateInv'
  BY <1>5 DEF Queries, Skips, GateInv, Fresh, TempdbTried, serverVars, Plan
<1>6. CASE Patched
  BY <1>6 DEF Patched, GateInv, Fresh, TempdbTried, Plan
<1>7. ASSUME NEW d \in Database, GoesOffline(d) \/ ComesOnline(d) \/ SwitchesStore(d) PROVE GateInv'
  BY <1>7 DEF GoesOffline, ComesOnline, SwitchesStore, GateInv, Fresh, TempdbTried, Plan
<1>8. CASE UNCHANGED vars
  BY <1>8 DEF vars, serverVars, GateInv, Fresh, TempdbTried, Plan
<1>9. QED BY <1>1, <1>2, <1>3, <1>4, <1>5, <1>6, <1>7, <1>8 DEF Next, Collects

(* Whatever the versions and patch levels of a fleet that keeps to the       *)
(* matrix, and however its instances are patched between passes: the gates   *)
(* and variants of every collector but one are enough (base.py applies_to,   *)
(* sql_file_for; _probe anew in every pass), and tempdb_usage.sql is refused *)
(* by every box before 2012, and by no instance from 2012 on (io_disk.py).   *)
THEOREM TempdbAloneRefused == ASSUME Matrix PROVE Spec => []OnlyTempdbRefused
<1>1. GateInv => OnlyTempdbRefused
  BY DEF GateInv, TempdbTried, OnlyTempdbRefused
<1>2. GateInv /\ [Next]_vars => GateInv'
  BY GateStep
<1>3. QED BY <1>1, <1>2, GateInit, PTL DEF Spec

-----------------------------------------------------------------------------
(* The loop over the databases.                                              *)

(* What is done with the current one: the rankings up to the last that was   *)
(* sent there.                                                               *)
AtInv ==
  /\ sent \in 0..3
  /\ at # Nowhere => at \in pending
  /\ at = Nowhere => sent = 0
  /\ Now # "query_history" => sent = 0
  /\ Now = "query_history" => \A n \in 1..sent : <<Now, at, Ranks[n]>> \in ranked

(* What is done with the others.                                             *)
LoopInv ==
  /\ Database \ online \subseteq dropped
  /\ pending # {} => AppliesTo(Now, features) /\ Targets(Now, features) # {}
  /\ AppliesTo(Now, features) => Targets(Now, features) \subseteq pending \cup got \cup noted
  /\ "use" \in server.offers => noted \subseteq dropped
  /\ Now = "query_history" => \A d \in got, r \in Rank : <<Now, d, r>> \in ranked

IsoInv == pc = "collecting" => LoopInv /\ AtInv

(* A collector that has its turn starts with all its targets.                *)
LEMMA IsoArrive ==
  ASSUME NEW t, NEW n, Arrive(t, n, features'), (Database \ online \subseteq dropped)'
  PROVE  (LoopInv /\ AtInv)'
<1>1. Now' = Plan[t][n]
  BY DEF Arrive, Now, Plan
<1>2. LoopInv'
  BY <1>1 DEF Arrive, LoopInv
<1>3. AtInv'
  BY <1>1 DEF Arrive, AtInv
<1>4. QED BY <1>2, <1>3

LEMMA IsoAdvance ==
  ASSUME IsoInv, pc = "collecting", Advance, UNCHANGED <<serverVars, features, dropped>>
  PROVE  IsoInv'
<1>1. (Database \ online \subseteq dropped)'
  BY DEF IsoInv, LoopInv, serverVars
<1>2. CASE turn < Len(Plan[tier])
  <2>1. Arrive(tier, turn + 1, features')
    BY <1>2 DEF Advance
  <2>2. QED BY <1>1, <2>1, IsoArrive DEF IsoInv
<1>3. CASE ~(turn < Len(Plan[tier]))
  BY <1>3 DEF Advance, IsoInv
<1>4. QED BY <1>2, <1>3

(* One more statement is answered by d.                                      *)
LEMMA IsoQueries ==
  ASSUME IsoInv, NEW d \in Database, Queries(d) PROVE IsoInv'
<1>1. pc = "collecting" /\ LoopInv /\ AtInv /\ Now' = Now /\ d \in pending /\ at \in {d, Nowhere}
  BY DEF Queries, IsoInv, Now
<1>2. d # Nowhere /\ Len(Ranks) = 4 /\ DOMAIN Ranks = 1..4
  BY DatabaseAssumption DEF Ranks
<1>3. ranked \subseteq ranked'
  BY DEF Queries
<1>4. Now = "query_history" => \A n \in 1..sent+1 : <<Now, d, Ranks[n]>> \in ranked'
  <2> SUFFICES ASSUME Now = "query_history", NEW n \in 1..sent+1
               PROVE  <<Now, d, Ranks[n]>> \in ranked'
    OBVIOUS
  <2>1. CASE n = sent + 1
    BY <2>1 DEF Queries
  <2>2. CASE n # sent + 1
    <3>1. n \in 1..sent /\ at = d
      BY <1>1, <2>2 DEF AtInv
    <3>2. QED BY <1>1, <1>3, <3>1 DEF AtInv
  <2>3. QED BY <2>1, <2>2
<1>5. CASE sent + 1 < Statements(Now)
  <2>1. Now = "query_history" /\ sent + 1 \in 0..3
    BY <1>1, <1>2, <1>5 DEF Statements, AtInv
  <2>2. at' = d /\ sent' = sent + 1 /\ UNCHANGED <<pending, got>>
    BY <1>5 DEF Queries
  <2>3. AtInv'
    BY <1>1, <1>2, <1>4, <2>1, <2>2 DEF AtInv
  <2>4. LoopInv'
    BY <1>1, <1>3, <2>2 DEF LoopInv, Queries, serverVars
  <2>5. QED BY <2>3, <2>4 DEF IsoInv
<1>6. CASE ~(sent + 1 < Statements(Now))
  <2>1. at' = Nowhere /\ sent' = 0 /\ pending' = pending \ {d} /\ got' = got \cup {d}
    BY <1>6 DEF Queries
  <2>2. AtInv'
    BY <1>1, <2>1 DEF AtInv
  <2>3. Now = "query_history" => \A r \in Rank : <<Now, d, r>> \in ranked'
    BY <1>1, <1>2, <1>4, <1>6 DEF Statements, AtInv, Rank
  <2>4. LoopInv'
    BY <1>1, <1>3, <2>1, <2>3 DEF LoopInv, Queries, serverVars
  <2>5. QED BY <2>2, <2>4 DEF IsoInv
<1>7. QED BY <1>5, <1>6

(* A statement to d raises: d must have been offline, for the statement      *)
(* itself can be answered.                                                   *)
LEMMA IsoSkips ==
  ASSUME Matrix, GateInv, IsoInv, NEW d \in Database, Skips(d) PROVE IsoInv'
<1>1. pc = "collecting" /\ LoopInv /\ AtInv /\ Now' = Now /\ d \in pending /\ at \in {d, Nowhere}
  BY DEF Skips, IsoInv, Now
<1>2. Answered(Now)
  <2>1. AppliesTo(Now, features) /\ Targets(Now, features) # {}
    BY <1>1 DEF LoopInv
  <2>2. Now # "tempdb"
    BY <2>1 DEF Targets, PerDatabase
  <2>3. QED BY <1>1, <2>1, <2>2, GateSuffices, NoFileInPlan DEF GateInv, Now
<1>3. "use" \in server.offers => d \in dropped
  BY <1>1, <1>2 DEF Skips, InDatabase, LoopInv
<1>4. noted' = noted \cup {d} /\ pending' = pending \ {d} /\ at' = Nowhere /\ sent' = 0
  BY DEF Skips
<1>5. AtInv'
  BY <1>1, <1>4 DEF AtInv
<1>6. LoopInv'
  BY <1>1, <1>3, <1>4 DEF LoopInv, Skips, serverVars
<1>7. QED BY <1>5, <1>6 DEF IsoInv

LEMMA IsoStep == ASSUME Matrix, GateInv, IsoInv, [Next]_vars PROVE IsoInv'
<1>1. ASSUME NEW t \in DOMAIN Plan, Begin(t) PROVE IsoInv'
  <2>1. (Database \ online \subseteq dropped)'
    BY <1>1 DEF Begin, serverVars
  <2>2. Arrive(t, 1, features')
    BY <1>1 DEF Begin
  <2>3. QED BY <2>1, <2>2, IsoArrive DEF IsoInv
<1>2. CASE Gated
  BY <1>2, IsoAdvance DEF Gated
<1>3. CASE Whole
  BY <1>3, IsoAdvance DEF Whole
<1>4. CASE LoopEnds
  BY <1>4, IsoAdvance DEF LoopEnds
<1>5. ASSUME NEW d \in Database, Queries(d) \/ Skips(d) PROVE IsoInv'
  BY <1>5, IsoQueries, IsoSkips
<1>6. CASE Patched
  BY <1>6 DEF Patched, IsoInv
<1>7. ASSUME NEW d \in Database, GoesOffline(d) \/ ComesOnline(d) PROVE IsoInv'
  <2>1. UNCHANGED <<server, features, pc, tier, turn, loopVars, ranked>> /\ Now' = Now
    BY <1>7 DEF GoesOffline, ComesOnline, Now
  <2>2. dropped \subseteq dropped' /\ (Database \ online \subseteq dropped => (Database \ online \subseteq dropped)')
    BY <1>7 DEF GoesOffline, ComesOnline
  <2>3. QED BY <2>1, <2>2 DEF IsoInv, LoopInv, AtInv, loopVars
<1>8. ASSUME NEW d \in Database, SwitchesStore(d) PROVE IsoInv'
  BY <1>8 DEF SwitchesStore, IsoInv
<1>9. CASE UNCHANGED vars
  BY <1>9 DEF vars, serverVars, loopVars, IsoInv, LoopInv, AtInv, Now
<1>10. QED BY <1>1, <1>2, <1>3, <1>4, <1>5, <1>6, <1>7, <1>8, <1>9 DEF Next, Collects

(* For any databases, in any order, going offline and coming back between    *)
(* any two statements: a failing one costs the collector that database and   *)
(* no other, and the query history is never stored with a ranking missing    *)
(* (PerDatabaseCollector, query_store.py).                                   *)
THEOREM DatabasesIsolated == ASSUME Matrix PROVE Spec => []DatabaseIsolated
<1>1. Init => IsoInv
  BY DEF Init, IsoInv
<1>2. GateInv /\ IsoInv /\ [Next]_vars => GateInv' /\ IsoInv'
  BY GateStep, IsoStep
<1>3. IsoInv => DatabaseIsolated
  BY DEF IsoInv, LoopInv, DatabaseIsolated
<1>4. QED BY <1>1, <1>2, <1>3, GateInit, PTL DEF Spec

-----------------------------------------------------------------------------
(* The rankings.                                                             *)

CpuRow == <<"cpu_top_queries", Nowhere, "cpu">>
CacheRows == {"query_history"} \X {Nowhere} \X (Rank \ {"cpu"})
StoreRows == {"query_history"} \X Database \X Rank

(* The rows of one pass all come from the plan cache or, but for the ranking *)
(* by cpu, all from the Query Store; and a collector of the plan cache that  *)
(* had its turn has brought what it owes.                                    *)
RankInv ==
  tier = "daily" =>
    /\ ranked \subseteq {CpuRow} \cup (IF Stores(features) = {} THEN CacheRows ELSE StoreRows)
    /\ (pc = "collecting" /\ Now = "query_history" /\ pending # {}) => Stores(features) # {}
    /\ ((pc = "idle" \/ turn > 10) /\ Stores(features) = {}) => CacheRows \subseteq ranked
    /\ ((pc = "idle" \/ turn > 11) /\ ~features.azure) => CpuRow \in ranked

LEMMA DailyPlan ==
  /\ Len(Plan["daily"]) = 12 /\ DOMAIN Plan["daily"] = 1..12
  /\ Plan["daily"][1] = "instance_meta"
  /\ \A n \in 1..12 : /\ Plan["daily"][n] = "query_history" <=> n = 10
                      /\ Plan["daily"][n] = "cpu_top_queries" <=> n = 11
<1>1. Len(Plan["daily"]) = 12 /\ DOMAIN Plan["daily"] = 1..12 /\ Plan["daily"][1] = "instance_meta"
  BY DEF Plan
<1>2. ASSUME NEW n \in 1..12
      PROVE  /\ Plan["daily"][n] = "query_history" <=> n = 10
             /\ Plan["daily"][n] = "cpu_top_queries" <=> n = 11
  BY DEF Plan
<1>3. QED BY <1>1, <1>2

LEMMA RankAdvance ==
  ASSUME GateInv, RankInv, pc = "collecting", Advance, UNCHANGED features, ranked \subseteq ranked',
         ranked' \ ranked \subseteq {CpuRow} \cup (IF Stores(features) = {} THEN CacheRows ELSE StoreRows),
         (Now = "query_history" /\ Stores(features) = {}) => CacheRows \subseteq ranked',
         (Now = "cpu_top_queries" /\ ~features.azure) => CpuRow \in ranked'
  PROVE  RankInv'
<1> SUFFICES ASSUME tier' = "daily" PROVE RankInv'
  BY DEF RankInv
<1>1. tier = "daily" /\ turn \in 1..12
  BY DailyPlan DEF Advance, Arrive, GateInv
<1>2. /\ (turn >= 10 /\ Stores(features) = {}) => CacheRows \subseteq ranked'
      /\ (turn >= 11 /\ ~features.azure) => CpuRow \in ranked'
  BY <1>1, DailyPlan DEF RankInv, Now
<1>3. ranked' \subseteq {CpuRow} \cup (IF Stores(features) = {} THEN CacheRows ELSE StoreRows)
  BY <1>1 DEF RankInv
<1>4. CASE turn < Len(Plan[tier])
  <2>1. turn' = turn + 1 /\ Arrive("daily", turn + 1, features) /\ pc' = "collecting"
    BY <1>1, <1>4 DEF Advance, Arrive
  <2>2. (Now' = "query_history" /\ pending' # {}) => Stores(features) # {}
    BY <2>1 DEF Arrive, Now, Targets
  <2>3. QED BY <1>1, <1>2, <1>3, <2>1, <2>2 DEF RankInv, Stores, SupportsQueryStore
<1>5. CASE ~(turn < Len(Plan[tier]))
  <2>1. pc' = "idle" /\ turn = 12
    BY <1>1, <1>5, DailyPlan DEF Advance
  <2>2. QED BY <1>2, <1>3, <2>1 DEF RankInv, Stores, SupportsQueryStore
<1>6. QED BY <1>4, <1>5

LEMMA RankStep == ASSUME Matrix, GateInv, IsoInv, RankInv, [Next]_vars PROVE RankInv'
<1>1. ASSUME NEW t \in DOMAIN Plan, Begin(t) PROVE RankInv'
  <2> SUFFICES ASSUME tier' = "daily" PROVE RankInv'
    BY DEF RankInv
  <2>1. turn' = 1 /\ pc' = "collecting" /\ ranked' = {} /\ Now' = "instance_meta"
    BY <1>1, DailyPlan DEF Begin, Arrive, Now
  <2>2. QED BY <2>1 DEF RankInv
<1>2. CASE Gated
  <2>1. Now = "query_history" => FALSE
    BY <1>2 DEF Gated, AppliesTo, BoxOnly
  <2>2. Now = "cpu_top_queries" => features.azure
    BY <1>2 DEF Gated, AppliesTo
  <2>3. QED BY <1>2, <2>1, <2>2, RankAdvance DEF Gated
<1>3. CASE Whole
  <2>1. Now # "tempdb" => Answered(Now)
    BY <1>3, GateSuffices, NoFileInPlan DEF Whole, Now, GateInv
  <2>2. Now # "tempdb" => ranked' = ranked \cup {<<Now, Nowhere, r>> : r \in PlanCacheRanks(Now)}
    BY <1>3, <2>1 DEF Whole
  <2>3. CASE Now = "query_history"
    <3>1. Stores(features) = {} /\ PlanCacheRanks(Now) = Rank \ {"cpu"}
      BY <1>3, <2>3 DEF Whole, Targets, PlanCacheRanks
    <3>2. ranked' = ranked \cup CacheRows
      BY <2>2, <2>3, <3>1 DEF CacheRows
    <3>3. QED BY <1>3, <2>3, <3>1, <3>2, RankAdvance DEF Whole
  <2>4. CASE Now = "cpu_top_queries"
    <3>1. ranked' = ranked \cup {CpuRow}
      BY <2>2, <2>4 DEF PlanCacheRanks, CpuRow
    <3>2. QED BY <1>3, <2>4, <3>1, RankAdvance DEF Whole
  <2>5. CASE Now \notin {"query_history", "cpu_top_queries"}
    <3>1. ranked' = ranked
      <4>1. PlanCacheRanks(Now) = {}
        BY <2>5 DEF PlanCacheRanks
      <4>2. QED BY <1>3, <4>1 DEF Whole
    <3>2. QED BY <1>3, <2>5, <3>1, RankAdvance DEF Whole
  <2>6. QED BY <2>3, <2>4, <2>5
<1>4. CASE LoopEnds
  <2>1. Now = "query_history" => Stores(features) # {}
    BY <1>4 DEF LoopEnds, Targets, PerDatabase
  <2>2. Now # "cpu_top_queries"
    BY <1>4 DEF LoopEnds, Targets, PerDatabase
  <2>3. QED BY <1>4, <2>1, <2>2, RankAdvance DEF LoopEnds
<1>5. ASSUME NEW d \in Database, Queries(d) PROVE RankInv'
  <2> SUFFICES ASSUME tier = "daily" PROVE RankInv'
    BY <1>5 DEF Queries, RankInv
  <2>1. /\ pc = "collecting" /\ d \in pending
        /\ UNCHANGED <<features, pc, tier, turn>> /\ Now' = Now /\ Stores(features)' = Stores(features)
    BY <1>5 DEF Queries, Now, Stores, SupportsQueryStore
  <2>2. ranked \subseteq ranked'
    BY <1>5 DEF Queries
  <2>3. pending' # {} => pending # {}
    BY <2>1
  <2>4. ranked' \subseteq {CpuRow} \cup (IF Stores(features) = {} THEN CacheRows ELSE StoreRows)
    <3>1. CASE Now = "query_history"
      <4>1. <<Now, d, Ranks[sent + 1]>> \in StoreRows
        BY <2>1, <3>1 DEF StoreRows, Rank, Ranks, IsoInv, AtInv
      <4>2. QED BY <1>5, <2>1, <3>1, <4>1 DEF RankInv, Queries
    <3>2. CASE Now # "query_history"
      BY <1>5, <3>2 DEF Queries, RankInv
    <3>3. QED BY <3>1, <3>2
  <2>5. QED BY <2>1, <2>2, <2>3, <2>4 DEF RankInv
<1>6. ASSUME NEW d \in Database, Skips(d) PROVE RankInv'
  BY <1>6 DEF Skips, RankInv, Now, Stores, SupportsQueryStore
<1>7. CASE Patched
  BY <1>7 DEF Patched, RankInv, loopVars, Now, Stores, SupportsQueryStore
<1>8. ASSUME NEW d \in Database, GoesOffline(d) \/ ComesOnline(d) \/ SwitchesStore(d) PROVE RankInv'
  BY <1>8 DEF GoesOffline, ComesOnline, SwitchesStore, RankInv, loopVars, Now, Stores, SupportsQueryStore
<1>9. CASE UNCHANGED vars
  BY <1>9 DEF vars, serverVars, loopVars, RankInv, Now, Stores, SupportsQueryStore
<1>10. QED BY <1>1, <1>2, <1>3, <1>4, <1>5, <1>6, <1>7, <1>8, <1>9 DEF Next, Collects

(* Between passes, the one collector a ranking came from, but for the ranking*)
(* by cpu with the Query Store.                                              *)
LEMMA RankSource ==
  ASSUME RankInv, pc = "idle", tier = "daily", NEW r \in Rank, Stores(features) = {} \/ r # "cpu"
  PROVE  /\ Cardinality(RankedBy(r)) <= 1
         /\ Stores(features) = {} => features.azure \/ RankedBy(r) # {}
<1> DEFINE Source == IF r = "cpu" THEN "cpu_top_queries" ELSE "query_history"
<1>1. ASSUME NEW x \in ranked, x[3] = r PROVE x[1] = Source
  <2>1. x = CpuRow \/ x \in CacheRows \/ (x \in StoreRows /\ Stores(features) # {})
    BY DEF RankInv
  <2>2. x \in CacheRows => x[1] = "query_history" /\ x[3] # "cpu"
    BY DEF CacheRows
  <2>3. x \in StoreRows => x[1] = "query_history"
    BY DEF StoreRows
  <2>4. QED BY <1>1, <2>1, <2>2, <2>3 DEF CpuRow
<1>2. RankedBy(r) \subseteq {Source}
  BY <1>1 DEF RankedBy
<1>3. Cardinality(RankedBy(r)) <= 1
  <2>1. IsFiniteSet({Source}) /\ Cardinality({Source}) = 1
    BY FS_Singleton
  <2>2. QED BY <1>2, <2>1, FS_Subset
<1>4. ASSUME Stores(features) = {}, ~features.azure PROVE RankedBy(r) # {}
  <2>1. CASE r = "cpu"
    <3>1. CpuRow \in ranked /\ CpuRow[3] = r
      BY <1>4, <2>1 DEF RankInv, CpuRow
    <3>2. QED BY <3>1 DEF RankedBy
  <2>2. CASE r # "cpu"
    <3> DEFINE row == <<"query_history", Nowhere, r>>
    <3>1. row \in ranked /\ row[3] = r
      BY <1>4, <2>2 DEF RankInv, CacheRows
    <3>2. QED BY <3>1 DEF RankedBy
  <2>3. QED BY <2>1, <2>2
<1>5. QED BY <1>3, <1>4

(* On any fleet within the matrix, and whichever databases have the Query    *)
(* Store on: of the two collectors that write mon.query_top no two rank by   *)
(* the same measure, but by cpu with the Query Store; on the plan-cache path *)
(* of a box no measure is left out; and a pass never mixes the plan cache    *)
(* with the Query Store in the query history (query_store.py, cpu.py).       *)
THEOREM RankingsKeptApart == ASSUME Matrix PROVE Spec => []RankingsDivided
<1>1. Init => IsoInv /\ RankInv
  BY DEF Init, IsoInv, RankInv
<1>2. GateInv /\ IsoInv /\ RankInv /\ [Next]_vars => GateInv' /\ IsoInv' /\ RankInv'
  BY GateStep, IsoStep, RankStep
<1>3. RankInv => RankingsDivided
  <2> SUFFICES ASSUME RankInv, pc = "idle", tier = "daily" PROVE RankingsDivided
    BY DEF RankingsDivided
  <2> DEFINE Scopes == {row[2] : row \in {x \in ranked : x[1] = "query_history"}}
  <2>1. Scopes \subseteq {Nowhere} \/ Nowhere \notin Scopes
    <3>1. CASE Stores(features) = {}
      <4>1. \A x \in ranked : x[1] = "query_history" => x[2] = Nowhere
        BY <3>1 DEF RankInv, CacheRows, CpuRow
      <4>2. QED BY <4>1
    <3>2. CASE Stores(features) # {}
      <4>1. \A x \in ranked : x[1] = "query_history" => x[2] # Nowhere
        BY <3>2, DatabaseAssumption DEF RankInv, StoreRows, CpuRow
      <4>2. QED BY <4>1
    <3>3. QED BY <3>1, <3>2
  <2>2. QED BY <2>1, RankSource DEF RankingsDivided
<1>4. QED BY <1>1, <1>2, <1>3, GateInit, PTL DEF Spec

-----------------------------------------------------------------------------
(* Types, whatever the instances offer.                                      *)

LEMMA PlanTypes ==
  ASSUME NEW t \in {"fast", "daily"}
  PROVE  /\ Len(Plan[t]) \in Nat \ {0} /\ DOMAIN Plan[t] = 1..Len(Plan[t])
         /\ \A n \in DOMAIN Plan[t] : Plan[t][n] \in Collector
<1>1. CASE t = "fast"
  BY <1>1 DEF Plan, Collector
<1>2. CASE t = "daily"
  BY <1>2 DEF Plan, Collector
<1>3. QED BY <1>1, <1>2

LEMMA TargetTypes ==
  ASSUME NEW c, NEW f, f.listed \subseteq Database, f.stores \subseteq Database
  PROVE  Targets(c, f) \subseteq Database
BY DEF Targets, Stores

LEMMA ArriveTypes ==
  ASSUME NEW t \in {"fast", "daily"}, NEW n \in DOMAIN Plan[t], Arrive(t, n, features'), (features \in Features)'
  PROVE  /\ tier' \in {"fast", "daily"} /\ turn' \in DOMAIN Plan[tier]'
         /\ pending' \subseteq Database /\ at' \in Database \cup {Nowhere} /\ sent' \in 0..Len(Ranks)-1
         /\ got' \subseteq Database /\ noted' \subseteq Database
<1>1. Targets(Plan[t][n], features') \subseteq Database
  BY TargetTypes DEF Features
<1>2. pending' \subseteq Database
  BY <1>1 DEF Arrive
<1>3. turn' \in DOMAIN Plan[tier]'
  BY DEF Arrive, Plan
<1>4. Len(Ranks) = 4
  BY DEF Ranks
<1>5. QED BY <1>2, <1>3, <1>4 DEF Arrive

LEMMA AdvanceTypes ==
  ASSUME TypeOK, pc = "collecting", Advance, UNCHANGED features
  PROVE  /\ pc' \in {"idle", "collecting"}
         /\ tier' \in {"fast", "daily"} /\ turn' \in DOMAIN Plan[tier]'
         /\ pending' \subseteq Database /\ at' \in Database \cup {Nowhere} /\ sent' \in 0..Len(Ranks)-1
         /\ got' \subseteq Database /\ noted' \subseteq Database
<1>1. CASE turn < Len(Plan[tier])
  <2>1. turn + 1 \in DOMAIN Plan[tier]
    BY <1>1, PlanTypes DEF TypeOK
  <2>2. Arrive(tier, turn + 1, features') /\ pc' = pc
    BY <1>1 DEF Advance
  <2>3. QED BY <2>1, <2>2, ArriveTypes DEF TypeOK
<1>2. CASE ~(turn < Len(Plan[tier]))
  <2>1. turn' \in DOMAIN Plan[tier]'
    BY <1>2 DEF Advance, TypeOK, Plan
  <2>2. QED BY <1>2, <2>1 DEF Advance, TypeOK, Ranks
<1>3. QED BY <1>1, <1>2

LEMMA TypeStep == ASSUME TypeOK, [Next]_vars PROVE TypeOK'
<1> USE DEF TypeOK
<1>1. Now \in Collector
  BY PlanTypes DEF Now
<1>2. UNCHANGED <<tier, turn>> => turn' \in DOMAIN Plan[tier]'
  BY DEF Plan
<1>3. ASSUME NEW t \in DOMAIN Plan, Begin(t) PROVE TypeOK'
  <2>1. t \in {"fast", "daily"} /\ 1 \in DOMAIN Plan[t]
    BY <1>3 DEF Plan
  <2>2. ASSUME NEW databases \in SUBSET Database, Probe(databases) PROVE (features \in Features)'
    <3>1. server.major \in Nat /\ server.azure \in BOOLEAN
      BY InstanceAssumption
    <3>2. QED BY <2>2, <3>1 DEF Probe, Features
  <2>3. (features \in Features)'
    BY <1>3, <2>2 DEF Begin
  <2>4. Arrive(t, 1, features')
    BY <1>3 DEF Begin
  <2>5. QED BY <1>3, <2>1, <2>3, <2>4, ArriveTypes DEF Begin, serverVars
<1>4. CASE Gated
  BY <1>4, AdvanceTypes DEF Gated, serverVars
<1>5. CASE Whole
  <2>1. ranked' \subseteq Collector \X (Database \cup {Nowhere}) \X Rank
    <3>1. PlanCacheRanks(Now) \subseteq Rank
      BY DEF PlanCacheRanks, Rank, Ranks
    <3>2. {<<Now, Nowhere, r>> : r \in PlanCacheRanks(Now)} \subseteq Collector \X (Database \cup {Nowhere}) \X Rank
      BY <1>1, <3>1
    <3>3. QED BY <1>5, <3>2 DEF Whole
  <2>2. failed' \subseteq Collector
    BY <1>1, <1>5 DEF Whole
  <2>3. QED BY <1>5, <2>1, <2>2, AdvanceTypes DEF Whole, serverVars
<1>6. CASE LoopEnds
  BY <1>6, AdvanceTypes DEF LoopEnds, serverVars
<1>7. ASSUME NEW d \in Database, Queries(d) PROVE TypeOK'
  <2>1. Len(Ranks) = 4 /\ Statements(Now) <= 4 /\ Statements(Now) \in Nat
    BY DEF Ranks, Statements
  <2>2. ranked' \subseteq Collector \X (Database \cup {Nowhere}) \X Rank
    <3>1. Ranks[sent + 1] \in Rank
      BY <2>1 DEF Rank, Ranks
    <3>2. QED BY <1>1, <1>7, <3>1 DEF Queries
  <2>3. sent' \in 0..Len(Ranks)-1 /\ at' \in Database \cup {Nowhere} /\ pending' \subseteq Database /\ got' \subseteq Database
    BY <1>7, <2>1 DEF Queries
  <2>4. QED BY <1>2, <1>7, <2>2, <2>3 DEF Queries, serverVars
<1>8. ASSUME NEW d \in Database, Skips(d) PROVE TypeOK'
  <2>1. sent' \in 0..Len(Ranks)-1
    BY <1>8 DEF Skips, Ranks
  <2>2. QED BY <1>2, <1>8, <2>1 DEF Skips, serverVars
<1>9. CASE Patched
  BY <1>2, <1>9 DEF Patched, loopVars
<1>10. ASSUME NEW d \in Database, GoesOffline(d) \/ ComesOnline(d) \/ SwitchesStore(d) PROVE TypeOK'
  BY <1>2, <1>10 DEF GoesOffline, ComesOnline, SwitchesStore, loopVars
<1>11. CASE UNCHANGED vars
  BY <1>2, <1>11 DEF vars, serverVars, loopVars
<1>12. QED BY <1>3, <1>4, <1>5, <1>6, <1>7, <1>8, <1>9, <1>10, <1>11 DEF Next, Collects

(* Every variable keeps its type, on a fleet that keeps to the matrix or not:*)
(* the loop stays within the plan and its statements within the rankings.    *)
THEOREM TypeCorrect == Spec => []TypeOK
<1>1. Init => TypeOK
  <2> SUFFICES ASSUME Init PROVE TypeOK
    OBVIOUS
  <2>1. features \in Features
    BY DEF Init, Features
  <2>2. turn \in DOMAIN Plan[tier] /\ sent \in 0..Len(Ranks)-1
    BY DEF Init, Plan, Ranks
  <2>3. QED BY <2>1, <2>2 DEF Init, TypeOK
<1>2. QED BY <1>1, TypeStep, PTL DEF Spec
=============================================================================
