---------------------------- MODULE VersionGating ----------------------------
(***************************************************************************)
(* What a pass sends to an instance of a mixed fleet: the probe at connect *)
(* time (runner._probe, version.py), the gate of every collector           *)
(* (applies_to), its choice of an SQL variant (sql_file_for), the loop of  *)
(* PerDatabaseCollector over the databases, and the two collectors that    *)
(* share mon.query_top.                                                    *)
(*                                                                         *)
(* An instance is known by its version and by the objects and columns it   *)
(* offers; a statement that uses one it does not offer raises.  Databases  *)
(* go offline and come back at any time, and the instance is patched or    *)
(* upgraded between passes.  Budget, frames and storing them are           *)
(* CollectorPass, which takes the outcome of the gates as a constant.      *)
(***************************************************************************)
EXTENDS Integers, Sequences, FiniteSets

CONSTANTS
  Instance,   \* what the server may be: records [major, azure, offers]
  Database,   \* its databases
  Excluded,   \* exclude_databases, and the system databases unless included
  ReadOnly,   \* the read-only ones
  Nowhere,    \* not a database
  Faults      \* "offline": databases go offline;  "listing": databases.sql raises

Major2008 == 10  \* MAJOR_2008, which 2008 R2 shares
Major2012 == 11
Major2016 == 13

(* What feature_probe.sql asks OBJECT_ID for.                                *)
Probed == {"stats_properties", "volume_stats", "query_store", "extended_events"}

(* What the statements use besides.                                          *)
Unprobed == {"query_hash", "start_time", "pages_kb", "single_pages_kb", "total_page_count",
             "server_dmvs", "use"}

ASSUME InstanceAssumption ==
  Instance \subseteq [major : Nat, azure : BOOLEAN, offers : SUBSET (Probed \cup Unprobed)]
ASSUME DatabaseAssumption ==
  /\ IsFiniteSet(Database) /\ Excluded \subseteq Database /\ ReadOnly \subseteq Database
  /\ Nowhere \notin Database /\ Faults \subseteq {"offline", "listing"}

(* The matrix of sqlhealthwatch_spec.md (2.1), and version.py, for 2008 and  *)
(* later: the columns each release has, and that only Azure lacks            *)
(* server-scoped views.  2012 brought pages_kb to the memory clerks and      *)
(* total_page_count to dm_db_file_space_usage.  On 2005 cpu_top_queries.sql has no query_hash to    *)
(* read, no variant without it, and no gate.                                 *)
Matrix ==
  \A i \in Instance :
    /\ i.major >= Major2008 /\ {"query_hash", "start_time"} \subseteq i.offers
    /\ IF i.major >= Major2012
       THEN {"pages_kb", "total_page_count"} \subseteq i.offers
       ELSE "single_pages_kb" \in i.offers /\ "total_page_count" \notin i.offers
    /\ ~i.azure => "server_dmvs" \in i.offers

(* collectors_for(tier).                                                     *)
Plan ==
  [fast  |-> <<"cpu", "memory", "io_disk", "waits", "blocking", "space_drive">>,
   daily |-> <<"instance_meta", "space_db", "tempdb", "memory_clerks", "index_frag",
               "index_missing", "index_unused", "index_columns", "statistics",
               "query_history", "cpu_top_queries", "deadlocks">>]

Collector == {Plan.fast[n] : n \in DOMAIN Plan.fast} \cup {Plan.daily[n] : n \in DOMAIN Plan.daily}

PerDatabase == {"space_db", "index_frag", "index_unused", "index_columns", "statistics"}
BoxOnly == {"cpu", "io_disk", "waits", "blocking", "space_drive", "tempdb", "index_missing", "cpu_top_queries"}

Ranks == <<"duration", "cpu", "reads", "exec">>
Rank == {Ranks[n] : n \in DOMAIN Ranks}

VARIABLES
  server,    \* what the instance is
  online,    \* its databases that can be queried
  durable,   \* those with the Query Store on
  features,  \* ServerFeatures: [major, azure, found, listed, stores]
  pc,        \* "idle" or "collecting"
  tier,      \* of the pass
  turn,      \* the position in the plan
  pending,   \* the databases this collector has still to query
  at,        \* the one it is at, if it sends several statements to each
  sent,      \* the number of them it has sent there
  got,       \* the databases it has rows from
  noted,     \* the databases it noted as skipped
  ranked,    \* the rankings for query_top: <<collector, database, rank>>
  failed,    \* the collectors that raised in this pass
  dropped    \* history: the databases that were offline at some time of it

serverVars == <<server, online, durable>>
loopVars == <<pending, at, sent, got, noted>>
vars == <<serverVars, features, pc, tier, turn, loopVars, ranked, failed, dropped>>

Features ==
  [major : Nat, azure : BOOLEAN, found : SUBSET Probed, listed : SUBSET Database, stores : SUBSET Database]

TypeOK ==
  /\ server \in Instance /\ online \subseteq Database /\ durable \subseteq Database
  /\ features \in Features
  /\ pc \in {"idle", "collecting"} /\ tier \in {"fast", "daily"} /\ turn \in DOMAIN Plan[tier]
  /\ pending \subseteq Database /\ at \in Database \cup {Nowhere} /\ sent \in 0..Len(Ranks)-1
  /\ got \subseteq Database /\ noted \subseteq Database
  /\ ranked \subseteq Collector \X (Database \cup {Nowhere}) \X Rank
  /\ failed \subseteq Collector /\ dropped \subseteq Database

Init ==
  /\ server \in Instance /\ online = Database /\ durable \in SUBSET Database
  /\ features = [major |-> 0, azure |-> FALSE, found |-> {}, listed |-> {}, stores |-> {}]
  /\ pc = "idle" /\ tier = "fast" /\ turn = 1
  /\ pending = {} /\ at = Nowhere /\ sent = 0 /\ got = {} /\ noted = {}
  /\ ranked = {} /\ failed = {} /\ dropped = {}

-----------------------------------------------------------------------------
(* version.py: what the features of a pass allow.                            *)

SupportsQueryStore(f) == f.major >= Major2016 /\ "query_store" \in f.found

(* query_store_databases.                                                    *)
Stores(f) == IF SupportsQueryStore(f) THEN f.stores ELSE {}

AppliesTo(c, f) ==
  /\ c \in BoxOnly => ~f.azure
  /\ c = "deadlocks" => "extended_events" \in f.found /\ ~f.azure

VariantBy2008(c, f) ==  \* mutant: the page columns of the clerks are taken to change with 2008
  CASE c = "memory_clerks" -> IF f.major >= Major2008 THEN "memory_clerks" ELSE "memory_clerks_legacy"
    [] c = "statistics"    -> IF "stats_properties" \in f.found THEN "stats_age" ELSE "stats_age_legacy"
    [] c = "space_drive"   -> IF "volume_stats" \in f.found THEN "space_drive" ELSE "space_drive_legacy"
    [] c = "query_history" -> IF Stores(f) # {} THEN "querystore_top" ELSE "plan_cache_top"
    [] OTHER -> c

(* sql_file_for: the file each collector sends; none branches inside one.    *)
(* Not told apart: files that use the same objects (perf_counters and its    *)
(* legacy variant, the ring buffer of cpu).                                  *)
Variant(c, f) ==
  CASE c = "instance_meta" -> IF f.major >= Major2008 THEN "instance_meta" ELSE "instance_meta_legacy"
    [] c = "memory_clerks" -> IF f.major >= Major2012 THEN "memory_clerks" ELSE "memory_clerks_legacy"
    [] c = "statistics"    -> IF "stats_properties" \in f.found THEN "stats_age" ELSE "stats_age_legacy"
    [] c = "space_drive"   -> IF "volume_stats" \in f.found THEN "space_drive" ELSE "space_drive_legacy"
    [] c = "query_history" -> IF Stores(f) # {} THEN "querystore_top"
                              ELSE IF f.major >= Major2008 THEN "plan_cache_top" ELSE "plan_cache_top_legacy"
    [] OTHER -> c

(* The objects and columns a file of sql/ uses that not every instance has.  *)
Uses(file) ==
  CASE file = "instance_meta"        -> {"start_time"}
    [] file = "memory_clerks"        -> {"pages_kb"}
    [] file = "memory_clerks_legacy" -> {"single_pages_kb"}
    [] file = "stats_age"            -> {"stats_properties"}
    [] file = "space_drive"          -> {"volume_stats", "server_dmvs"}
    [] file = "querystore_top"       -> {"query_store"}
    [] file = "plan_cache_top"       -> {"query_hash"}
    [] file = "cpu_top_queries"      -> {"query_hash", "server_dmvs"}
    [] file = "tempdb"               -> {"total_page_count", "server_dmvs"}
    [] file \in {"space_drive_legacy"} \cup (BoxOnly \ {"space_drive", "cpu_top_queries", "tempdb"}) ->
         {"server_dmvs"}
    [] OTHER -> {}

(* The statement can be answered.  DeadlockCollector.fetch catches whatever  *)
(* its own statements raise (DeadlockIngest!Fetch).                          *)
Answered(c) == c = "deadlocks" \/ Uses(Variant(c, features)) \subseteq server.offers

(* The databases a collector goes through: target_databases, without the     *)
(* read-only ones for the statistics; every one with the Query Store on for  *)
(* the query history.                                                        *)
Targets(c, f) ==
  IF c = "query_history" THEN Stores(f)
  ELSE IF c \in PerDatabase
       THEN (f.listed \ Excluded) \ (IF c = "statistics" THEN ReadOnly ELSE {})
       ELSE {}

-----------------------------------------------------------------------------
(* The pass.                                                                 *)

Now == Plan[tier][turn]

(* The collector at a position of the plan has its turn.                     *)
Arrive(t, n, f) ==
  /\ tier' = t /\ turn' = n
  /\ pending' = IF AppliesTo(Plan[t][n], f) THEN Targets(Plan[t][n], f) ELSE {}
  /\ at' = Nowhere /\ sent' = 0 /\ got' = {} /\ noted' = {}

ProbeOnce(databases) ==  \* mutant: the features are kept once they are known
  features' = IF features.major # 0 THEN features
              ELSE [major |-> server.major, azure |-> server.azure, found |-> server.offers \cap Probed,
                    listed |-> databases, stores |-> databases \cap durable]

(* _probe.  The online databases, with the Query Store flag, a constant 0    *)
(* where the version does not support it (databases_sql, Stores).            *)
Probe(databases) ==
  features' = [major |-> server.major, azure |-> server.azure, found |-> server.offers \cap Probed,
               listed |-> databases, stores |-> databases \cap durable]

(* _collect_server connects and probes anew in every pass.                   *)
Begin(t) ==
  /\ pc = "idle" /\ pc' = "collecting"
  /\ \/ Probe(online)
     \/ "listing" \in Faults /\ Probe({})
  /\ Arrive(t, 1, features')
  /\ ranked' = {} /\ failed' = {} /\ dropped' = Database \ online
  /\ UNCHANGED serverVars

Advance ==
  IF turn < Len(Plan[tier]) THEN Arrive(tier, turn + 1, features) /\ UNCHANGED pc
  ELSE pc' = "idle" /\ pending' = {} /\ at' = Nowhere /\ sent' = 0 /\ UNCHANGED <<tier, turn, got, noted>>

Gated ==
  /\ pc = "collecting" /\ ~AppliesTo(Now, features)
  /\ Advance
  /\ UNCHANGED <<serverVars, features, ranked, failed, dropped>>

PlanCacheRanksAll(c) ==  \* mutant: the plan cache is ranked by cpu here as well
  IF c = "cpu_top_queries" THEN {"cpu"} ELSE IF c = "query_history" THEN Rank ELSE {}

(* The rankings one fetch of the whole instance brings: cpu is left to       *)
(* CpuTopQueriesCollector on the plan-cache path.                            *)
PlanCacheRanks(c) ==
  IF c = "cpu_top_queries" THEN {"cpu"} ELSE IF c = "query_history" THEN Rank \ {"cpu"} ELSE {}

(* A collector of one statement for the instance; one that raises is noted   *)
(* and left (_run_collectors).                                               *)
Whole ==
  /\ pc = "collecting" /\ AppliesTo(Now, features)
  /\ Now \notin PerDatabase /\ Targets(Now, features) = {}
  /\ IF Answered(Now)
     THEN ranked' = ranked \cup {<<Now, Nowhere, r>> : r \in PlanCacheRanks(Now)} /\ UNCHANGED failed
     ELSE failed' = failed \cup {Now} /\ UNCHANGED ranked
  /\ Advance
  /\ UNCHANGED <<serverVars, features, dropped>>

(* The number of statements sent to each database.                           *)
Statements(c) == IF c = "query_history" THEN Len(Ranks) ELSE 1

(* query_in_database: USE, then the statement.                               *)
InDatabase(d) == d \in online /\ "use" \in server.offers /\ Answered(Now)

QueriesOnceMore(d) ==  \* mutant: <= for <
  /\ pc = "collecting" /\ d \in pending /\ at \in {d, Nowhere}
  /\ InDatabase(d)
  /\ ranked' = IF Now = "query_history" THEN ranked \cup {<<Now, d, Ranks[sent + 1]>>} ELSE ranked
  /\ IF sent + 1 <= Statements(Now)
     THEN at' = d /\ sent' = sent + 1 /\ UNCHANGED <<pending, got>>
     ELSE at' = Nowhere /\ sent' = 0 /\ pending' = pending \ {d} /\ got' = got \cup {d}
  /\ UNCHANGED <<serverVars, features, pc, tier, turn, noted, failed, dropped>>

(* The next statement to one database is answered.                           *)
Queries(d) ==
  /\ pc = "collecting" /\ d \in pending /\ at \in {d, Nowhere}
  /\ InDatabase(d)
  /\ ranked' = IF Now = "query_history" THEN ranked \cup {<<Now, d, Ranks[sent + 1]>>} ELSE ranked
  /\ IF sent + 1 < Statements(Now)
     THEN at' = d /\ sent' = sent + 1 /\ UNCHANGED <<pending, got>>
     ELSE at' = Nowhere /\ sent' = 0 /\ pending' = pending \ {d} /\ got' = got \cup {d}
  /\ UNCHANGED <<serverVars, features, pc, tier, turn, noted, failed, dropped>>

SkipsAll(d) ==  \* mutant: the try is around the loop
  /\ pc = "collecting" /\ d \in pending /\ at \in {d, Nowhere}
  /\ ~InDatabase(d)
  /\ noted' = noted \cup {d} /\ pending' = {}
  /\ at' = Nowhere /\ sent' = 0
  /\ UNCHANGED <<serverVars, features, pc, tier, turn, got, ranked, failed, dropped>>

(* It raises: the database is noted, its other statements are not sent, and  *)
(* the loop goes on with the next.                                           *)
Skips(d) ==
  /\ pc = "collecting" /\ d \in pending /\ at \in {d, Nowhere}
  /\ ~InDatabase(d)
  /\ noted' = noted \cup {d} /\ pending' = pending \ {d}
  /\ at' = Nowhere /\ sent' = 0
  /\ UNCHANGED <<serverVars, features, pc, tier, turn, got, ranked, failed, dropped>>

(* The loop over the databases is through.                                   *)
LoopEnds ==
  /\ pc = "collecting" /\ AppliesTo(Now, features) /\ pending = {}
  /\ Now \in PerDatabase \/ Targets(Now, features) # {}
  /\ Advance
  /\ UNCHANGED <<serverVars, features, ranked, failed, dropped>>

-----------------------------------------------------------------------------
(* The instance.                                                             *)

GoesOffline(d) ==
  /\ "offline" \in Faults /\ d \in online
  /\ online' = online \ {d} /\ dropped' = dropped \cup {d}
  /\ UNCHANGED <<server, durable, features, pc, tier, turn, loopVars, ranked, failed>>

ComesOnline(d) ==
  /\ d \in Database \ online
  /\ online' = online \cup {d}
  /\ UNCHANGED <<server, durable, features, pc, tier, turn, loopVars, ranked, failed, dropped>>

(* A service pack adds objects; an upgrade may also take some away.  Either  *)
(* restarts the instance, which ends a pass under way (CollectorPass!Aborts).*)
Patched ==
  /\ pc = "idle"
  /\ server' \in {i \in Instance : /\ i.azure = server.azure
                                   /\ \/ i.major > server.major
                                      \/ i.major = server.major /\ server.offers \subseteq i.offers}
  /\ server' # server
  /\ UNCHANGED <<online, durable, features, pc, tier, turn, loopVars, ranked, failed, dropped>>

SwitchesStore(d) ==
  /\ pc = "idle"
  /\ durable' = IF d \in durable THEN durable \ {d} ELSE durable \cup {d}
  /\ UNCHANGED <<server, online, features, pc, tier, turn, loopVars, ranked, failed, dropped>>

Collects == Gated \/ Whole \/ LoopEnds \/ \E d \in Database : Queries(d) \/ Skips(d)

Next ==
  \/ \E t \in DOMAIN Plan : Begin(t)
  \/ Collects
  \/ Patched
  \/ \E d \in Database : GoesOffline(d) \/ ComesOnline(d) \/ SwitchesStore(d)

Spec == Init /\ [][Next]_vars

(* Passes go on and the daily tier keeps running; not every listing of the   *)
(* databases fails.                                                          *)
Fairness == WF_vars(Collects) /\ SF_vars(Begin("daily") /\ features'.listed = online)

FairSpec == Spec /\ Fairness

-----------------------------------------------------------------------------
(* Correctness.                                                              *)

(* sqlhealthwatch_spec.md: "every collector self-gates"; "missing features   *)
(* degrade to a documented substitute (or are skipped ...), never error".    *)
(* What the gate lets through is never sent to an instance that cannot       *)
(* answer it, with one exception: tempdb_usage.sql reads total_page_count,   *)
(* which TempdbCollector neither gates nor has a variant for, so that on a   *)
(* box before 2012 it raises in every daily pass.                            *)
OnlyTempdbRefused ==
  /\ failed \subseteq IF features.major < Major2012 THEN {"tempdb"} ELSE {}
  /\ pc = "idle" /\ tier = "daily" /\ features.major < Major2012 /\ ~features.azure => failed # {}

(* base.py: "one database never costs the whole server its collection": when *)
(* a collector is through with its databases it has rows from each, for the  *)
(* query history in every ranking, except from those it noted; and it noted  *)
(* only databases that were offline in the course of the pass.               *)
DatabaseIsolated ==
  (pc = "collecting" /\ AppliesTo(Now, features)) =>
    /\ Targets(Now, features) \subseteq pending \cup got \cup noted
    /\ "use" \in server.offers => noted \subseteq dropped
    /\ Now = "query_history" => \A d \in got, r \in Rank : <<Now, d, r>> \in ranked

(* The collectors a ranking of the pass came from.                          *)
RankedBy(r) == {row[1] : row \in {x \in ranked : x[3] = r}}

(* query_store.py: "One collector owns mon.query_top so a query is never     *)
(* counted twice": after a daily pass no ranking came from two collectors.   *)
RankedOnce ==
  (pc = "idle" /\ tier = "daily") => \A r \in Rank : Cardinality(RankedBy(r)) <= 1

(* How far that is so.  Only the ranking by cpu is ever collected twice, and *)
(* only with the Query Store: on the plan-cache path the two collectors      *)
(* "never write the same rows twice" (cpu.py), and on a box leave no ranking *)
(* out.  The query history itself never mixes the two sources.               *)
RankingsDivided ==
  (pc = "idle" /\ tier = "daily") =>
    LET Scopes == {row[2] : row \in {x \in ranked : x[1] = "query_history"}}
    IN  /\ \A r \in Rank : (Stores(features) = {} \/ r # "cpu") => Cardinality(RankedBy(r)) <= 1
        /\ \A r \in Rank : Stores(features) = {} => features.azure \/ RankedBy(r) # {}
        /\ Scopes \subseteq {Nowhere} \/ Nowhere \notin Scopes

(* A database that stays online is in the end collected again and again,     *)
(* even if it was offline, or could not be listed, at first.                 *)
DatabaseReached ==
  \A d \in Database \ Excluded :
    <>[](d \in online /\ "use" \in server.offers) => []<>(Now = "space_db" /\ d \in got)
=============================================================================
