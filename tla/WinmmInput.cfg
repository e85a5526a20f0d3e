SPECIFICATION FairSpec
CONSTANTS
  App = App
  Driver = Driver
  NoThread = NoThread
  Count = 2
  MaxOpens = 2
INVARIANTS
  BuffersOutliveCallbacks
  DriverOwnsNoFreed
  QuietAfterClose
PROPERTIES
  CloseReturns
CHECK_DEADLOCK FALSE
