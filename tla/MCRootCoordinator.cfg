\* Three candidates, two workers and all the work they can use: replies in any
\* order, bounds that grow stale, repairs and vetoes.
SPECIFICATION Spec
CONSTANTS
  WorkerCount = 2
  Width = 3
  Workers <- MCWorkers
  Candidates <- MCCandidates
  Key <- MCKey
  Best = 1
  Mate = 3
  Wave = 1
  Aspiration <- MCAspiration
  MaxAttempts = 2
  MaxRepairs = 1
  MaxWork = 30
  InitialWork = 0
  SafetyReserve = 2
  SearchCredit = 2
  SafetyCredit = 2
  CallWork = {0}
  Kinds = {"plain", "adverse"}
  None = None
INVARIANTS
  SelectedIsBest
  NoInternalFault
CHECK_DEADLOCK FALSE
