SPECIFICATION FairSpec
CONSTANTS
  Block = 2
  InLen = 6
  MaxTries = 2
  MaxFaults = 3
INVARIANTS OnlyPlaintext WorkIsKept OkMeansWhole
PROPERTY Terminates
