SPECIFICATION Spec
CONSTANTS
  Pages = 3
  Buffer = 4
  Versions = {"a"}
  Requests <- MCRequests
  WordSize = 16
  Codes = {17, 18}
  MaxFaults = 2
  MaxBoots = 2
PROPERTIES ImplementsReportingStore ImplementsConfinedStore NoForeignData EfiIsPerfect
