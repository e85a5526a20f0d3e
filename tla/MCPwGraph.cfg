SPECIFICATION Spec
CONSTANTS
  m = m
  n = n
  p = p
  q = q
  Nodes <- MCNodes
  Ports <- MCPorts
  NodeOf <- MCNodeOf
  Named <- MCNamed
  Matching <- MCPorts
  Tracked <- MCTracked
  MaxChanges = 2
  MaxReconnects = 1
INVARIANTS
  SnapshotExact
  AddedOnce
  NoneMissed
PROPERTIES
  CallbacksAlternate
