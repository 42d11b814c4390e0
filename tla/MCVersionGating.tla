--------------------------- MODULE MCVersionGating ---------------------------
(* A small instance of VersionGating for TLC: the versions of the matrix in  *)
(* sqlhealthwatch_spec.md (2.1) from the 2008 release on, by what they       *)
(* offer.                                                                    *)
EXTENDS VersionGating

CONSTANTS erp, logs, msdb

Box == {"query_hash", "start_time", "server_dmvs", "use", "extended_events"}
Old == Box \cup {"single_pages_kb"}
New == Box \cup {"pages_kb", "total_page_count", "volume_stats"}

Fleet ==
  { [major |-> 10, azure |-> FALSE, offers |-> Old],                                         \* 2008, 2008 R2
    [major |-> 10, azure |-> FALSE, offers |-> Old \cup {"volume_stats"}],                   \* 2008 R2 SP1
    [major |-> 10, azure |-> FALSE, offers |-> Old \cup {"volume_stats", "stats_properties"}], \* 2008 R2 SP2
    [major |-> 11, azure |-> FALSE, offers |-> New],                                         \* 2012
    [major |-> 11, azure |-> FALSE, offers |-> New \cup {"stats_properties"}],               \* 2012 SP1
    [major |-> 13, azure |-> FALSE, offers |-> New \cup {"stats_properties", "query_store"}], \* 2016
    [major |-> 12, azure |-> TRUE,                                                           \* Azure SQL DB
     offers |-> {"query_hash", "start_time", "pages_kb", "total_page_count", "stats_properties", "query_store",
                 "extended_events"}] }

ASSUME FleetMatrix == Matrix
=============================================================================
