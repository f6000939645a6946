SPECIFICATION Spec
CONSTANTS
  Throws = Throws
  Missing = Missing
  Empty = Empty
  Texts <- SomeTexts
  Numbers <- SomeNumbers
  Hex <- SomeHex
  Runs = {r1, r2}
  Files <- SomeFiles
  Edits <- FewFiles
  Base = 1000
  MaxTime = 11
  Skews <- SomeSkews
SYMMETRY TwoRuns
CONSTRAINT Followed
PROPERTIES ParseIsLastWins SkipIsRecent RecentIsSkipped
