SPECIFICATION FairSpec
CONSTANTS
  base = base
  c1 = c1
  c2 = c2
  None = None
  Profiles <- MCProfiles
  Baseline = base
  Sound <- MCSound
  Handpicked = {}
  MaxRuns = 1
  Generations = 1
  BasePairs = 1
  ReplacementPairs = 1
  MinimumPairs = 1
  RequiredWins = 1
  Results = {"win", "open"}
  Versions = 1
  MaxFaults = 1
  AnyRun = FALSE
CHECK_DEADLOCK FALSE
PROPERTY FailedJobRetried
