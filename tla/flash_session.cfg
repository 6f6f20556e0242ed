SPECIFICATION FairSpec
CONSTANTS
  WordSize = 16
  VolumeLBA = 3
  Tables <- MCTables
  BadMBR = BadMBR
  Authored <- MCAuthored
  FwBytes = 8
  BlockSizes = {0, 4, 5}
  Chunks = 2
  MaxTries = 3
  MaxFaults = 3
PROPERTIES
  WritesOnlyOnCheckedLayout
  NoRepartitionNeverRepairs
  FirmwareOnlyKeepsData
  DoneMeansVerified
  SyncSparesCheckedVolume
  Terminates
  CleanRunFlashes
