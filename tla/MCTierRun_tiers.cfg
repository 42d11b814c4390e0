SPECIFICATION Spec
CONSTANTS
  f1 = f1
  f2 = f2
  d1 = d1
  s1 = s1
  s2 = s2
  fast = fast
  daily = daily
  Proc = {f1, f2, d1}
  Tier = {fast, daily}
  TierOf <- TwoTiers
  Server = {s1, s2}
  MaxWorkers = 1
  DryRun = {}
  Stamp <- Stamps2
  Faults = {"server", "repo", "crash"}
  NoProc = NoProc
  NoRun = NoRun
  NoServer = NoServer
SYMMETRY SymBoth
VIEW UnreadLeftOut
INVARIANTS
  TypeOK
  BooksAgree
  NoDoubleCollection
  ReportsUnderOwnRun
PROPERTIES
  FinishedRunsAreSealed
  KeepsLedger
