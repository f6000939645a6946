SPECIFICATION MCSpec
CONSTANTS
  Radii <- EveryRadius
  Rows <- EdgesAndFlats
INVARIANTS FlatStaysFlat StackIsWindow FirstPixelIsMean
