SPECIFICATION MCSpec
CONSTANTS
  Contents <- GapContents
  Files <- ContentFiles
  Queries <- AllQueries
  MaxLeft = 1
  Sdks = {"go"}
INVARIANT SnapsBack
