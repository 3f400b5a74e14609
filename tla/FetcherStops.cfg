SPECIFICATION FairSpec
CONSTANTS
  N = 3
  MaxConcurrency = 2
PROPERTIES
  StopsAfterError
