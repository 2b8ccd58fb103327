SPECIFICATION FairSpec
CONSTANTS
  n1 = n1
  n2 = n2
  w1 = w1
  w2 = w2
  w3 = w3
  Nodes = {n1, n2}
  Topologies = {"a", "b"}
  None = None
  Writers = {w1, w2, w3}
  NodeOf <- Loops3
  MaxErrors = 1
  MaxChanges = 1
  MaxDeletes = 1
INVARIANT TopologyInv
PROPERTIES KeepsToOwnEntry Converges
