SPECIFICATION MCSpec
CONSTANTS
  Contents <- PlainContents
  Files <- ContentFiles
  Queries <- AllQueries
  MaxLeft = 1
  Sdks = {"go"}
INVARIANT EofHidesNothing
