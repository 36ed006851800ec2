SPECIFICATION FairSpec
CONSTANTS
  None = None
  Torn = Torn
  a = a
  x = x
  ka = ka
  d1 = d1
  d2 = d2
  p1 = p1
  p2 = p2
  Procs = {p1, p2}
  Contents = {a, x}
  Keys = {ka}
  Descs = {d1, d2}
  Digest <- MCDigest
  Size <- MCSize
  MaxCrashes = 1
INVARIANTS
  ObjectsWhole
  MetaDescribesObject
  AnswersTrue
  FailuresExplained
PROPERTIES
  CallsReturn
  ImplementsRegistry
