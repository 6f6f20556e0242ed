SPECIFICATION TableSpec
CONSTANTS
  WordSize = 12
  VolumeLBA = 3
  FwBlocks = 2
  Slots <- MCSlots
  Entries <- MCEntries
INVARIANT DocumentedCheck
