SPECIFICATION Spec
CONSTANTS
  MaxSignals = 2
INVARIANTS
  ShutdownIsClean
PROPERTIES
  ShutdownHappens
