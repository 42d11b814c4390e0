SPECIFICATION Spec
CONSTANTS
  f1 = f1
  f2 = f2
  d1 = d1
  s1 = s1
  s2 = s2
  fast = fast
  daily = daily
  Proc = {f1, d1}
  Tier = {fast, daily}
  TierOf <- FastAndDaily
  Server = {s1, s2}
  MaxWorkers = 2
  DryRun = {}
  Stamp <- Stamps2
  Faults = {}
  NoProc = NoProc
  NoRun = NoRun
  NoServer = NoServer
INVARIANTS
  ResolvesEveryServer
