SPECIFICATION Spec
CONSTANTS
  base = base
  c1 = c1
  c2 = c2
  None = None
  Profiles = {base, c1}
  Baseline = base
  Sound = {base, c1}
  Handpicked = {c1}
  MaxRuns = 1
  Generations = 2
  BasePairs = 2
  ReplacementPairs = 1
  MinimumPairs = 1
  RequiredWins = 1
  Results = {"win", "draw", "loss", "open", "fault"}
  Versions = 2
  MaxFaults = 2
  AnyRun = TRUE
CHECK_DEADLOCK FALSE
INVARIANTS
  ResumeNeverRefused
  PromotionsEarned
  RunFollowsLineage
PROPERTIES
  DecisionStable
  ResultsKept
