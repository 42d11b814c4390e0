SPECIFICATION Spec
CONSTANTS
  w1 = w1
  w2 = w2
  Worker = {w1}
  DryRun = {w1}
  MaxEvents = 2
  Faults = {}
PROPERTIES
  DryRunWritesNothing
