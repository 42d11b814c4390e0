---------------------------- MODULE MCAlertRouter ----------------------------
(* Small instances of AlertRouter for TLC.                                   *)
EXTENDS AlertRouter, TLC

CONSTANTS fast, daily, f, email, teams, slack, tier1, erp

Of(fp, severity, category) == [fp |-> fp, severity |-> severity, category |-> category]

(* The fleet default pages warnings by mail and crits by mail and Teams; the *)
(* tags tier1 and erp both reroute crits, so the later one wins.             *)
FleetRouting == [info |-> <<>>, warn |-> <<email>>, crit |-> <<email, teams>>]
ServerTags   == <<tier1, erp>>
TagRouting   == (tier1 :> [crit |-> <<slack>>]) @@ (erp :> [crit |-> <<slack, teams, email>>])

(* A problem every evaluation reports: as a warning, as a crit that goes to  *)
(* two channels, or twice in a batch (fingerprints are cut at 200            *)
(* characters); behind findings that the severity and the category gate keep *)
(* back.                                                                     *)
StandingProblem ==
  { <<Of(f, "info", "space"), Of(f, "warn", "space")>>,
    <<Of(f, "crit", "index"), Of(f, "crit", "space")>>,
    <<Of(f, "warn", "cpu"), Of(f, "crit", "cpu")>> }
=============================================================================
