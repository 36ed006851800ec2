SPECIFICATION Spec
CONSTANTS
  None = None
  n1 = n1
  n2 = n2
  page1 = page1
  page2 = page2
  page3 = page3
  csv1 = csv1
  csv2 = csv2
  p1 = p1
  p2 = p2
  Procs = {p1, p2}
  Names = {n1, n2}
  Artifacts <- MCArtifacts
  Responses <- MCResponses
  MaxCalls = 2
  MaxFaults = 1
INVARIANTS
  ReimportIsIdempotent
CHECK_DEADLOCK FALSE
