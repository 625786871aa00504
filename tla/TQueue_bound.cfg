\* The main loop is the only thread that pops; the bound is 2.
SPECIFICATION Spec
CONSTANTS
  Poppers = {c1}
  DefaultMax = 1
  ConfiguredMax = 2
  SizeMod = 16
  MaxPushes = 4
INVARIANT BoundHonoured
