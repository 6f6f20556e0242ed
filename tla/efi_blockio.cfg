SPECIFICATION Spec
CONSTANTS
  Pages = 3
  Buffer = 4
  Versions = {"a"}
  Requests <- MCRequests
  MaxFaults = 1
PROPERTY ImplementsStore
