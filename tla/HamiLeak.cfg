SPECIFICATION FairSpec
CONSTANTS
  p1 = p1
  p2 = p2
  a = a
  b = b
  d1 = d1
  d2 = d2
  loop = loop
  loop2 = loop2
  inf = inf
  NoPod = NoPod
  NoCtr = NoCtr
  Pods = {p1, p2}
  Containers = {a}
  Cards = {d1, d2}
  VIdx = {0, 1}
  Order <- OneOrder
  Devs <- OneDevs
  Virtual = {p1, p2}
  CardMem = 2
  Loops = {loop}
  Informers = {}
  MaxTries = 2
  MaxFaults = 1
  MaxApiFaults = 0
  MaxNodeFaults = 0
  MaxCrashes = 1
PROPERTY Reclaimed
CHECK_DEADLOCK FALSE
