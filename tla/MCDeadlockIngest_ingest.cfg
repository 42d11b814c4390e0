SPECIFICATION FairSpec
CONSTANTS
  w1 = w1
  w2 = w2
  Worker = {w1, w2}
  DryRun = {w2}
  MaxEvents = 3
  Faults = {"file", "ring", "roll", "mark", "crash", "write"}
INVARIANTS
  TypeOK
  NoEventLost
  NoDuplicateSent
PROPERTIES
  WatermarkMonotone
  EveryDeadlockStored
