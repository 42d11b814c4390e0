SPECIFICATION FairSpec
CONSTANTS
  fast = fast
  daily = daily
  f = f
  email = email
  teams = teams
  slack = slack
  tier1 = tier1
  erp = erp
  Dispatcher = {fast, daily}
  Fingerprint = {f}
  Channel = {email, teams, slack}
  Enabled = {email, teams}
  Routing <- FleetRouting
  Tags <- ServerTags
  ByTag <- TagRouting
  Batches <- StandingProblem
  Day = 3
  Cooldown = 2
  QuietStart = 2
  QuietEnd = 1
  AllowCrit = TRUE
  Slow = FALSE
  MaxBurst = 3
  Faults = {"channel", "ack", "log", "lookup", "crash"}
INVARIANTS
  TypeOK
  BurstBounded
  LogNotAhead
  QuietWindow
PROPERTIES
  SuppressionJustified
  StandingProblemPaged
