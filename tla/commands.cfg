SPECIFICATION FairSpec
CONSTANTS
  Kinds = {"n3g", "n7g-late"}
  Commands <- Owned
  MaxTries = 2
  MaxFaults = 3
INVARIANTS NothingRefused OkMeansDone
PROPERTY RestoreRecovers
