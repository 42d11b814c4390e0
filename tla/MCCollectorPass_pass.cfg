SPECIFICATION FairSpec
CONSTANTS
  cpu = cpu
  io = io
  memory = memory
  Plan <- FastPlan
  Cpu = cpu
  Io = io
  Applies = {cpu, io}
  Load = {10, 85, 100}
  Samples = 2
  Warn = 80
  Crit = 90
  MaxWork = 2
  Faults = {"collector", "budget", "write", "abort", "dry", "restart"}
  Null = Null
  NoRow = NoRow
  Unknown = Unknown
INVARIANTS
  TypeOK
  FailureIsolated
  IntervalHonest
PROPERTIES
  SteadyLoadGraded
