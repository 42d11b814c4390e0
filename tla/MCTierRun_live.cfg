SPECIFICATION FairSpec
CONSTANTS
  f1 = f1
  f2 = f2
  d1 = d1
  s1 = s1
  s2 = s2
  fast = fast
  daily = daily
  Proc = {f1, f2}
  Tier = {fast}
  TierOf <- OneTier
  Server = {s1, s2}
  MaxWorkers = 1
  DryRun = {f2}
  Stamp <- Stamps2
  Faults = {"server", "ack", "session", "crash"}
  NoProc = NoProc
  NoRun = NoRun
  NoServer = NoServer
INVARIANTS
  FailureReported
  AttachedRunNotOlder
PROPERTIES
  RunEnds
  LockFreed
