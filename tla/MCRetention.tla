------------------------------ MODULE MCRetention ------------------------------
(* A small instance of Retention for TLC.                                    *)
EXTENDS Retention

CONSTANTS p1, p2

(* The schema, then the table test-conn writes to and the one with late rows.*)
(* The DELETE without TOP of runs is left to the proofs.                     *)
Script3 == <<"schema", "server_status", "deadlock_event">>
Table2  == {"server_status", "deadlock_event"}
Visits  == <<"deadlock_event", "server_status">>

(* Retention horizons of a day are enough: an age is within, at or beyond.   *)
(* Deadlocks are read for less than they are kept, and may come late, as do  *)
(* exports: see Export.                                                      *)
KeepDays   == [t \in Store |-> IF t = "server_status" THEN 0 ELSE 1]
WindowDays == [t \in Store |-> IF t = "exports" THEN 1 ELSE 0]
LateDays   == [t \in Store |-> IF t = "server_status" THEN 0 ELSE 1]
Rows       == [t \in Store |-> IF t = "server_status" THEN 1 ELSE 2]
=============================================================================
