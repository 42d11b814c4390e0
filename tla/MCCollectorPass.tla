--------------------------- MODULE MCCollectorPass ---------------------------
(* A small instance of CollectorPass for TLC.                                *)
EXTENDS CollectorPass

CONSTANTS cpu, io, memory

(* The version gate holds memory back, so that a skipped collector is there  *)
(* when the time runs out.                                                   *)
FastPlan == <<cpu, memory, io>>
=============================================================================
