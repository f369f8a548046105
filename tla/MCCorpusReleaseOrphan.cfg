SPECIFICATION Spec
CONSTANTS
  t1 = t1
  t2 = t2
  p1 = p1
  p2 = p2
  None = None
  Threads = {t1, t2}
  Processes = {p1, p2}
  ProcessOf <- MCApart
  Ranges <- MCStraddling
  Owners = {"producer", "other"}
  Contents = {"a", "b"}
  WithRelease = TRUE
INVARIANT AlwaysSynchronizable
