SPECIFICATION Spec
CONSTANTS
  b1 = b1  b2 = b2  r1 = r1  r2 = r2  o1 = o1  o2 = o2
  Builds = {b1, b2}
  Promotions = {r1, r2}
  Faulty = {"mate_parity"}
  Seconds = {1, 2}
  Limit = 2
  Outputs = {o1, o2}
  Recorded <- MCRecorded
  Reserve = 5
  ProbeLimit = 3
  MaxAttested = 1
  MaxEdits = 1
  MaxCommits = 3
  None = None
SYMMETRY MCSymmetry
CHECK_DEADLOCK FALSE
INVARIANTS
  DeployedIsAttested
  DeployedIsReviewed
  CertifiedBytes
PROPERTY OutputsStay
