------------------------------ MODULE MCAnalysis ------------------------------
(* Small instances of Analysis for TLC, with thresholds of the shipped       *)
(* thresholds.yml.                                                           *)
EXTENDS Analysis, TLC

CONSTANTS w1, w2, A, B, reporting, erp, spid1, spid2, spid3

(* Nothing tells one thread of the pool from another.                        *)
SameWorkers == Permutations(Worker)

FleetDefaults ==
  [cpu      |-> [sustained_pct_warn |-> 80, sustained_pct_crit |-> 90, sustained_samples |-> 2,
                 signal_wait_pct_warn |-> 25],
   memory   |-> [ple_warn |-> 300, ple_crit |-> 180, memory_grants_pending_warn |-> 1],
   io       |-> [read_latency_ms_warn |-> 20, read_latency_ms_crit |-> 50,
                 write_latency_ms_warn |-> 20, write_latency_ms_crit |-> 50],
   space    |-> [db_free_pct_warn |-> 15, db_free_pct_crit |-> 8, drive_free_pct_warn |-> 15,
                 drive_free_pct_crit |-> 8, drive_free_mb_warn |-> 20480, drive_free_mb_crit |-> 10240,
                 days_to_full_warn |-> 7],
   blocking |-> [block_seconds_warn |-> 30, block_seconds_crit |-> 120],
   deadlock |-> [count_24h_warn |-> 1, count_24h_crit |-> 10]]

(* The same without a block for blocking.                                    *)
PartialDefaults == [c \in DOMAIN FleetDefaults \ {"blocking"} |-> FleetDefaults[c]]

ServerTags == [s \in {A, B} |-> IF s = A THEN <<reporting, erp>> ELSE <<reporting>>]

(* Overrides that meet: two tags set one key, a server another of the same   *)
(* category, and one key that the defaults do not have.                      *)
TagAndServerOverrides ==
  [o \in {reporting, erp, A, B} |->
     CASE o = reporting -> [io |-> [read_latency_ms_warn |-> 40], blocking |-> [block_seconds_warn |-> 60]]
       [] o = erp       -> [io |-> [read_latency_ms_warn |-> 30, read_latency_ms_crit |-> 45]]
       [] o = A         -> [cpu |-> [sustained_pct_warn |-> 85], blocking |-> [block_seconds_crit |-> 90]]
       [] o = B         -> [index |-> [min_page_count |-> 500]]]

(* Nothing measured, and nothing found.                                      *)
NoKeys == [k \in {} |-> 0]
Nothing ==
  [cpuHistory |-> <<>>, grantsHistory |-> <<>>, cpu |-> {}, memory |-> {}, io |-> {},
   dbSpace |-> {}, dbGrowth |-> NoKeys, driveSpace |-> {}, driveGrowth |-> NoKeys, volumeStats |-> TRUE,
   blocking |-> {}, deadlocks |-> 0,
   indexFrag |-> {}, indexMissing |-> {}, indexUnused |-> {}, statsStale |-> {}, autoUpdateOff |-> {}]

DailyGrowths == {-1, 0, 2}

Series(capacity) == [points |-> <<[day |-> 0, used |-> 2]>>, capacity |-> capacity]

(* One part of the input after the other, so that they do not multiply.      *)
HealthyInputs ==
  { [Nothing EXCEPT !.cpuHistory = <<10, 10>>, !.cpu = {[signal |-> 10]}],
    [Nothing EXCEPT !.cpuHistory = <<None, 10>>],
    [Nothing EXCEPT !.memory = {[ple |-> 900, node |-> 900, floor |-> 0]}],
    [Nothing EXCEPT !.memory = {[ple |-> 900, node |-> None, floor |-> None]}, !.grantsHistory = <<0, 0>>],
    [Nothing EXCEPT !.io = {[file |-> "data", read |-> 5, write |-> 5], [file |-> "log", read |-> None, write |-> 5]}],
    [Nothing EXCEPT !.dbSpace = {[file |-> "data", freePct |-> 50], [file |-> "log", freePct |-> 50]}],
    [Nothing EXCEPT !.driveSpace = {[mount |-> "D", freePct |-> 50, freeGb |-> None]}],
    [Nothing EXCEPT !.driveSpace = {[mount |-> "D", freePct |-> None, freeGb |-> 30]}, !.volumeStats = FALSE],
    [Nothing EXCEPT !.driveSpace = {[mount |-> "D", freePct |-> None, freeGb |-> None]},
                    !.driveGrowth = ("D" :> Series(4))],
    [Nothing EXCEPT !.dbGrowth = ("data" :> Series(5))],
    [Nothing EXCEPT !.dbGrowth = ("data" :> Series(0))],
    [Nothing EXCEPT !.dbGrowth = ("data" :> Series(None))],
    [Nothing EXCEPT !.blocking = {[spid |-> spid1, blocker |-> spid2, seconds |-> 10, database |-> spid1]}],
    [Nothing EXCEPT !.deadlocks = 0],
    [Nothing EXCEPT !.indexFrag = {[fragPct |-> 5, pages |-> 600]}, !.indexUnused = {"ix"},
                    !.statsStale = {[database |-> "erp"]}, !.autoUpdateOff = {"erp"}] }

(* Around the thresholds, on both sides and at them.                         *)
Levels ==
  [cpu |-> {10, 85, 90, 100}, signal |-> {10, 25}, ple |-> {0, 179, 180, 299, 900},
   grants |-> {0, 1}, latency |-> {5, 29, 30, 45}, freePct |-> {50, 15, 8, 0},
   freeGb |-> {30, 20, 10, 0}, seconds |-> {10, 60, 90}, deadlocks |-> {0, 1, 10}, fragPct |-> {5, 40}]

OneInput == {Nothing}
================================================================================
