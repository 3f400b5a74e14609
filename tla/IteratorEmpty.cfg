SPECIFICATION MCSpec
CONSTANTS
  Contents <- EmptyContents
  Files <- ContentFiles
  Queries <- AllQueries
  MaxLeft = 1
  Sdks = {"go"}
INVARIANT PathsAgree
