SPECIFICATION FairSpec
CONSTANTS
  base = base
  c1 = c1
  c2 = c2
  None = None
  Profiles = {base, c1}
  Baseline = base
  Sound = {base, c1}
  Handpicked = {}
  MaxRuns = 2
  Generations = 2
  BasePairs = 1
  ReplacementPairs = 1
  MinimumPairs = 1
  RequiredWins = 1
  Results = {"win", "open"}
  Versions = 2
  MaxFaults = 2
  AnyRun = FALSE
CHECK_DEADLOCK FALSE
INVARIANTS
  PublishedEvidence
PROPERTIES
  ChampionBeaten
  RunsComplete
