SPECIFICATION FairSpec
CONSTANTS
  Scripts <- Programs
  Chunks = 2
  FullPages = 1
  OutDepth = 2
  MaxRuns = 3
  MaxFaults = 2
INVARIANTS CleanRunBelievesItsOwn DoneBelievesItsOwn OkMeansStored
PROPERTY CleanRunSucceeds
