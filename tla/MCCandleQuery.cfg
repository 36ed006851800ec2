SPECIFICATION Spec
CONSTANTS
  None = None
  Junk = Junk
  Duration = 2
  Horizon = 4
  Bounds <- MCBounds
  MaxRows = 3
  Limits <- MCLimits
  MaxDamages = 1
INVARIANTS
  PagesTile
  CursorsServed
  OnlyWhatWasWritten
  SoundDataServed
CHECK_DEADLOCK FALSE
