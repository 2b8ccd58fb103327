SPECIFICATION FairSpec
CONSTANTS
  x = x
  y = y
  c0 = c0
  c1 = c1
  Devices = {x, y}
  Cards = {c0, c1}
  CardOf <- OnePerCard
  Zero = c0
  Changing = TRUE
  KeepsOld = TRUE
  MayRecover = TRUE
  MaxWatches = 2
INVARIANT TypeOK
PROPERTIES NoFalseAlarm AllFailedReported
CHECK_DEADLOCK FALSE
