\* Three threads pop, so that a wake-up can be taken by the wrong one; the bound
\* starts at 2 and wraps to 0 at the fifth of twelve pushes, and once more at the last.
SPECIFICATION Spec
CONSTANTS
  Poppers = {c1, c2, c3}
  DefaultMax = 1
  ConfiguredMax = 2
  SizeMod = 7
  MaxPushes = 12
INVARIANTS
  TypeOK
  NoStrandedWaiter
  OrderKept
PROPERTY ImplementsChannel
