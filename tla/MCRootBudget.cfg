\* Two candidates of every kind and little work: the ledger at its limit.
SPECIFICATION FairSpec
CONSTANTS
  WorkerCount = 2
  Width = 2
  Workers <- MCWorkers
  Candidates <- MCCandidates
  Key <- MCKey
  Best = 0
  Mate = 3
  Wave = 2
  Aspiration <- MCNoAspiration
  MaxAttempts = 1
  MaxRepairs = 1
  MaxWork = 8
  InitialWork = 1
  SafetyReserve = 2
  SearchCredit = 2
  SafetyCredit = 2
  CallWork = {0, 1, 2}
  Kinds = {"plain", "adverse", "mate", "claim", "terminal"}
  None = None
INVARIANTS
  SelectedIsCertified
  SearchSparesSafety
  LedgerBalanced
PROPERTIES
  Termination
CHECK_DEADLOCK FALSE
