SPECIFICATION Spec
CONSTANTS
  erp = erp
  logs = logs
  msdb = msdb
  Instance <- Fleet
  Database = {erp, logs, msdb}
  Excluded = {msdb}
  ReadOnly = {logs}
  Nowhere = Nowhere
  Faults = {}
INVARIANTS
  RankedOnce
