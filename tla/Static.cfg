SPECIFICATION FairSpec
CONSTANTS
  None = None
  c1 = c1
  c2 = c2
  v1 = v1
  v2 = v2
  Cards = {c1, c2}
  Ids = {v1, v2}
  MaxFaults = 3
INVARIANTS StaticTypeOK RightDevice NoGhosts
PROPERTIES ServedInTheEnd OfferedInTheEnd
CHECK_DEADLOCK FALSE
