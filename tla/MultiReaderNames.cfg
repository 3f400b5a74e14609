SPECIFICATION Spec
CONSTANTS
  Sessions <- TwoFiles
  MaxFailures = 1
INVARIANT UnknownMatchesNothing
