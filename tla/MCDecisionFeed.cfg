SPECIFICATION Spec
CONSTANTS
  None = None
  Refused = Refused
  ExecutionTf = 2
  ExecutionWarmup = 3
  Requirements <- MCRequirements
  Keys <- MCKeys
  Shapes <- MCShapes
  Sources <- MCSources
  FaultSources <- MCFaultSources
  MaxSkip = 2
  MaxFaults = 1
INVARIANTS
  NoFutureInfluence
  ContextsAreFresh
  IndicatorsMeanWindows
  OnlyGenuine
CHECK_DEADLOCK FALSE
