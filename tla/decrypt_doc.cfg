SPECIFICATION Spec
CONSTANTS
  Block = 2
  InLen = 5
  MaxTries = 1
  MaxFaults = 1
INVARIANT ContinuesAfterRestart
