SPECIFICATION FairSpec
CONSTANTS
  Whole = {"wtf", "recovery"}
  Firmware = "firmware"
  Parts <- MCParts
  MaxFaults = 2
INVARIANTS WrongOnlyIfDamaged DecryptedOnce
PROPERTIES PopulatedIsEnough InterruptedIsResumed
