SPECIFICATION FairPSpec
CONSTANTS
  m1 = m1
  w1 = w1
  w2 = w2
  m2 = m2
  w3 = w3
  p1 = p1
  p2 = p2
  None = None
  Threads <- MCThreads
  Processes <- MCProcesses
  ProcessOf <- MCProcessOf
  Main <- MCMain
  Ranges <- MCPlan
  Owners = {"producer"}
  Contents = {"a"}
  WithRelease = FALSE
  MaxFaults = 3
INVARIANTS
  AlwaysSynchronizable
  SoleProducerNeverRefused
  ReceiptIsComplete
PROPERTIES
  EventuallyComplete
  ImplementsCorpus
