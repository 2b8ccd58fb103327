SPECIFICATION Spec
CONSTANTS
  p1 = p1
  p2 = p2
  a = a
  b = b
  d1 = d1
  d2 = d2
  loop = loop
  loop2 = loop2
  inf = inf
  NoPod = NoPod
  NoCtr = NoCtr
  Pods = {p1, p2}
  Containers = {a, b}
  Cards = {d1, d2}
  VIdx = {0}
  Order <- PairOrder
  Devs <- PairDevs
  Virtual = {p1, p2}
  CardMem = 2
  Loops = {loop, loop2}
  Informers = {}
  MaxTries = 2
  MaxFaults = 1
  MaxApiFaults = 1
  MaxNodeFaults = 1
  MaxCrashes = 1
INVARIANTS RightPod LockCoversAllocating IndexKnown OneVdcuEach MarkNamesItsVdcu AdmittedServed
PROPERTY OwnVdcuKept
SYMMETRY LoopSymmetry
CHECK_DEADLOCK FALSE
