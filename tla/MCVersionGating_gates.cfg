SPECIFICATION FairSpec
CONSTANTS
  erp = erp
  logs = logs
  msdb = msdb
  Instance <- Fleet
  Database = {erp, logs, msdb}
  Excluded = {msdb}
  ReadOnly = {logs}
  Nowhere = Nowhere
  Faults = {"offline", "listing"}
INVARIANTS
  TypeOK
  OnlyTempdbRefused
  DatabaseIsolated
  RankingsDivided
PROPERTIES
  DatabaseReached
