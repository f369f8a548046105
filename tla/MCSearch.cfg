CONSTANTS
  None = None
  Moves <- MCMoves
  Checked <- MCChecked
  Occupied <- MCOccupied
  Dead <- MCDead
  Ordering <- MCOrdering
  ReserveMax = 2
  Calls <- MCCalls
  Static <- MCStatic
  Unstable <- MCUnstable
  Protect = TRUE
  MateScore = 100
  MateBand = 10
  PrevisitDepth = 2
  MateNowSeries = 2
  LadderSeries = 3
  WidenSeries = 4
  WideCap = 3
  RescueCap = 3
  Positions <- MCPositions
  MateLimit = 20
  Frontiers <- FrontierAt
  MatingSeries <- MCMatingSeries
  Ladders <- MCLadders
  Quiet <- MCQuiet
  Seed <- RootSeed
  Minimax <- MCMinimax
  Probed <- MCProbed
SPECIFICATION Spec
INVARIANTS SeriesAreExact WinnerIsMinimax ProofsAreSound PublishedMoveStands
PROPERTY EveryPassIsNew
