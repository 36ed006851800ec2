SPECIFICATION FaultSpec
CONSTANTS
  None = None
  Torn = Torn
  a = a
  ka = ka
  d1 = d1
  d2 = d2
  p1 = p1
  p2 = p2
  Procs = {p1, p2}
  Contents = {a}
  Keys = {ka}
  Descs = {d1, d2}
  Digest <- MCDigest
  Size <- MCSize
  MaxCrashes = 0
  MaxOutages = 1
  MaxRots = 1
INVARIANTS VerifiedReads OutagesHeal
PROPERTIES NeverRewritten
