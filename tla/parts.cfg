SPECIFICATION PartsSpec
CONSTANTS
  WordSize = 12
  VolumeLBA = 3
  FwBlocks = 2
  Slots <- MCSlots
  Entries <- MCEntries
  Banks = 2
  Blocks = {1, 2}
  Ppb = 4
  PlanePages = 2
  MaxMarks = 2
  MaxMishaps = 2
  Groups = 4
  MaxGroups = 64
  Bundles <- MCBundles
  NewLengths <- MCNewLengths
  Names = {"", "osos", "disk", "rsrc"}
  Ids = {"none", "a", "b", "c", "hax"}
  Packed <- MCPacked
  Visitors <- MCVisitors
  Volumes <- MCVolumes
  Drifts <- MCDrifts
  BodyOffsets <- MCBase
  Assemblies <- MCAssemblies
  PatchDrifts <- MCPatchDrifts
  DeviceTables <- MCDeviceTables
INVARIANTS
  VerdictIsRight
  FreshIsErased NoDataOnDefective
  VerdictIsSound ErasedIsNotStamped
  RoundTrip
  SecoreStays PatchedOnce
  PatchesIntact StockIsAccepted
