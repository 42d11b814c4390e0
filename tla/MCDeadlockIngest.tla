--------------------------- MODULE MCDeadlockIngest ---------------------------
(* Small instances of DeadlockIngest for TLC.                                *)
EXTENDS DeadlockIngest

CONSTANTS w1, w2
=============================================================================
