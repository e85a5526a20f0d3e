SPECIFICATION MCSpec
CONSTANTS
  g = g
  h = h
  st = st
  None = None
  Subs <- MCSubs
  Kind <- MCKind
  Sends <- MCSends
  Header = 1
  BufferSize = 4
  Buffers = 2
  MaxSends = 3
  MaxOpens = 2
INVARIANTS
  FrameAlive
  ResetIsFinal
  PortsOnceInOrder
PROPERTIES
  NoLateErase
  
  ResetReturns
  PortsArrive
CHECK_DEADLOCK FALSE
