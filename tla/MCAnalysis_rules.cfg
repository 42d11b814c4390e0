SPECIFICATION Spec
CONSTANTS
  w1 = w1
  w2 = w2
  A = A
  B = B
  reporting = reporting
  erp = erp
  spid1 = spid1
  spid2 = spid2
  spid3 = spid3
  Worker = {w1, w2}
  Server = {A, B}
  NoServer = NoServer
  Tag = {reporting, erp}
  TagsOf <- ServerTags
  Defaults <- FleetDefaults
  Overrides <- TagAndServerOverrides
  None = None
  Watched = A
  Inputs <- HealthyInputs
  Notches <- Levels
  Session = {spid1, spid2, spid3}
  Growths <- DailyGrowths
  Gaps = {1, 2}
  Window = 3
  MaxUsed = 5
  MaxWalk = 2
SYMMETRY SameWorkers
INVARIANTS
  TypeOK
  OwnThresholds
  ProjectionBracketed
  ChainDepthCounts
PROPERTIES
  SeverityNeverFalls
