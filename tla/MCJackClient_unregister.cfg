SPECIFICATION Spec
CONSTANTS
  p = p
  q = q
  r = r
  Handler = Handler
  Objs <- MCObjs
  Setups <- MCSetups
  Outputs <- MCOutputs
  Sizes <- MCSizes
  RingSize = 3
  EventSlots = 3
  MaxOpens <- MCOpens
  MaxSends = 2
  MaxTokens = 2
INVARIANT PortStaysRegistered
