SPECIFICATION FairSpec
CONSTANTS
  p1 = p1
  p2 = p2
  a = a
  b = b
  d1 = d1
  d2 = d2
  loop = loop
  loop2 = loop2
  inf = inf
  NoPod = NoPod
  NoCtr = NoCtr
  Pods = {p1, p2}
  Containers = {a}
  Cards = {d1, d2}
  VIdx = {0}
  Order <- OneOrder
  Devs <- LiveDevs
  Virtual = {p1}
  CardMem = 2
  Loops = {loop}
  Informers = {inf}
  MaxTries = 2
  MaxFaults = 1
  MaxApiFaults = 0
  MaxNodeFaults = 1
  MaxCrashes = 0
INVARIANT NodeInv
PROPERTIES Reclaimed AdmissionEnds LockReleased ErrorPodReaped LiveMarkKept
CHECK_DEADLOCK FALSE
