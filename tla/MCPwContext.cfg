SPECIFICATION FairSpec
CONSTANTS
  a = a
  b = b
  None = None
  Clients <- MCTwo
  Errors <- MCFatal
  Seqs <- MCSeqs
  MaxCores = 2
  MaxErrors = 1
  CallbacksTakeHolders = FALSE
INVARIANTS
  NoDanglingStream
  ReconnectExclusive
  SyncOnLiveCore
PROPERTIES
  CallsReturn
