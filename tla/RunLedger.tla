------------------------------ MODULE RunLedger ------------------------------
(***************************************************************************)
(* What the run records promise a reader of mon.runs, free of connections, *)
(* statements and threads.  An invocation either never runs (it lost the   *)
(* overlap guard, or failed before it) or runs alone in its tier; while it *)
(* runs it opens one row, settles every server once, and may close the row *)
(* with the totals of all its servers.  It may end at any point, leaving   *)
(* the row open; once it has ended nothing about it changes.               *)
(*                                                                         *)
(* TierRun implements this as long as no main session is lost.             *)
(***************************************************************************)
EXTENDS Integers, FiniteSets

CONSTANTS Proc, Tier, TierOf, Server

VARIABLES
  phase,    \* phase[p]: "waiting", "running" or "ended"
  row,      \* row[p]: its mon.runs row, "none", "open" or "closed"
  outcome,  \* outcome[p][s]: how server s came out
  tally     \* tally[p]: <<servers_ok, servers_failed>>

ledgerVars == <<phase, row, outcome, tally>>

Alone(p) == \A q \in Proc : TierOf[q] = TierOf[p] => phase[q] # "running"

Count(p, res) == Cardinality({s \in Server : outcome[p][s] = res})

Init ==
  /\ phase = [p \in Proc |-> "waiting"]
  /\ row = [p \in Proc |-> "none"]
  /\ outcome = [p \in Proc |-> [s \in Server |-> "none"]]
  /\ tally = [p \in Proc |-> <<0, 0>>]

Begin(p) ==
  /\ phase[p] = "waiting" /\ Alone(p)
  /\ phase' = [phase EXCEPT ![p] = "running"]
  /\ UNCHANGED <<row, outcome, tally>>

Open(p) ==
  /\ phase[p] = "running" /\ row[p] = "none"
  /\ row' = [row EXCEPT ![p] = "open"]
  /\ UNCHANGED <<phase, outcome, tally>>

Settle(p, s) ==
  /\ phase[p] = "running" /\ row[p] = "open" /\ outcome[p][s] = "none"
  /\ \E res \in {"ok", "failed"} : outcome' = [outcome EXCEPT ![p][s] = res]
  /\ UNCHANGED <<phase, row, tally>>

Close(p) ==
  /\ phase[p] = "running" /\ row[p] = "open"
  /\ \A s \in Server : outcome[p][s] # "none"
  /\ row' = [row EXCEPT ![p] = "closed"]
  /\ tally' = [tally EXCEPT ![p] = <<Count(p, "ok"), Count(p, "failed")>>]
  /\ UNCHANGED <<phase, outcome>>

End(p) ==
  /\ phase[p] # "ended"
  /\ phase' = [phase EXCEPT ![p] = "ended"]
  /\ UNCHANGED <<row, outcome, tally>>

Next ==
  \E p \in Proc :
    \/ Begin(p) \/ Open(p) \/ Close(p) \/ End(p)
    \/ \E s \in Server : Settle(p, s)

Spec == Init /\ [][Next]_ledgerVars
=============================================================================
