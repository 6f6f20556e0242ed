SPECIFICATION FairSpec
CONSTANTS
  Chunks = 3
  MaxPolls = 3
  MaxFaults = 3
PROPERTIES ImplementsTransfer Terminates RetryDelivers
