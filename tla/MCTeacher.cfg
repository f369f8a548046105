SPECIFICATION TeacherSpec
CONSTANTS
  s1 = s1
  s2 = s2
  f1 = f1
  f2 = f2
  e1 = e1
  e2 = e2
  p1 = p1
  p2 = p2
  k1 = k1
  g1 = g1
  d1 = d1
  d2 = d2
  o1 = o1
  o2 = o2
  Torn = Torn
  None = None
  Missing = Missing
  Splits = {s1, s2}
  Fits = {f1, f2}
  Evaluations = {e1, e2}
  Preregs = {p1, p2}
  ClaimKey <- MCClaimKey
  Contract <- MCContract
  Declared <- MCDeclared
  Corpora <- MCCorpora
  SplitDirs = {d1, d2}
  FitDirs = {o1}
  ResultDirs = {o2}
  MaxEdits = 1
  MaxChanged = 1
  LeaderReturns = FALSE
  Samples <- MCSamples
  Options <- MCOptions
  TargetRoots <- MCTargetRoots
  TrainRoots <- MCTrainRoots
  Workers = 2
  MaxVersions = 2
  Generators = {1}
  MaxBuilds = 3
  MaxFailures = 1
CHECK_DEADLOCK FALSE
SYMMETRY MCSymmetry
INVARIANTS
  ScoredOnce
  HalvesTogether
  EvidenceIsBlind
  MatchesSequence
  OneEngine
  AcrossMerges

  
