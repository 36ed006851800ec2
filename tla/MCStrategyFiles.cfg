SPECIFICATION Spec
CONSTANTS
  Digits = 3
  MaxWarmup = 300
  MaxEdited = 1
  None = None
  Refused = Refused
  SeededPairs <- MCSeededPairs
  ProtectedKeys <- MCProtectedKeys
  Critical <- MCCritical
  Family <- MCFamily
  Pinned <- MCPinned
  Bundles <- MCBundles
  Alternatives <- MCAlternatives
  Starts <- MCStarts
  HandPairs <- MCHandPairs
INVARIANTS
  OnlyDefinedValues
  DefaultsBind
  ResolvedMeansProven
PROPERTIES
  HashesIdentify
