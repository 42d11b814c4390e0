------------------------------ MODULE MCTierRun ------------------------------
(* Small instances of TierRun for TLC.                                       *)
EXTENDS TierRun, TLC

CONSTANTS f1, f2, d1, s1, s2, fast, daily

OneTier  == (f1 :> fast) @@ (f2 :> fast)
TwoTiers == (f1 :> fast) @@ (f2 :> fast) @@ (d1 :> daily)
FastAndDaily == (f1 :> fast) @@ (d1 :> daily)

Stamps2 == 1..2

(* Servers play the same part; so do the two invocations of the fast tier.   *)
(* Used in runs that check no liveness.                                      *)
SymBoth == Permutations({s1, s2}) \cup Permutations({f1, f2})

(* What tells states apart where findings and paged do not matter: no action *)
(* reads them, and in the run that uses this view only TypeOK does (whose    *)
(* conjuncts about them TypeCorrect of TierRunProofs covers).                *)
UnreadLeftOut == <<pc, sess, owner, dbVars, dim, todo, pending, workVars, status>>
=============================================================================
