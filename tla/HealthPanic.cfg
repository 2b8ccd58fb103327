SPECIFICATION Spec
CONSTANTS
  x = x
  y = y
  c0 = c0
  c1 = c1
  Devices = {x, y}
  Cards = {c0, c1}
  CardOf <- OnePerCard
  Zero = c0
  Changing = TRUE
  KeepsOld = FALSE
  MayRecover = FALSE
  MaxWatches = 2
INVARIANT SweepInRange
CHECK_DEADLOCK FALSE
