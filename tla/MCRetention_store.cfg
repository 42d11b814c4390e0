SPECIFICATION FairSpec
CONSTANTS
  p1 = p1
  p2 = p2
  Proc = {p1, p2}
  Script <- Script3
  Table <- Table2
  Retries = 1
  AutoBootstrap = TRUE
  Order <- Visits
  Unbatched = {}
  Probed = "server_status"
  Archive = "exports"
  Keep <- KeepDays
  Window <- WindowDays
  Late <- LateDays
  BatchRows = 1
  Fallback = 2
  Switching = {p2}
  Partitioned = {"server_status"}
  MaxRows <- Rows
  MaxErrors = 1
INVARIANTS
  TypeOK
  SchemaUnspoiled
  PrunedClean
PROPERTIES
  PruneInvisible
  ExpiredGone
