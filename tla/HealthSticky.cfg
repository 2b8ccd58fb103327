SPECIFICATION FairSpec
CONSTANTS
  x = x
  y = y
  c0 = c0
  c1 = c1
  Devices = {x, y}
  Cards = {c0, c1}
  CardOf <- OnePerCard
  Zero = c0
  Changing = FALSE
  KeepsOld = FALSE
  MayRecover = FALSE
  MaxWatches = 1
PROPERTY FailedCardReported
CHECK_DEADLOCK FALSE
