SPECIFICATION MCSpec
CONSTANTS
  Radii <- SmallRadii
  Rows <- EdgesAndFlats
INVARIANT AveragesStayBetween
