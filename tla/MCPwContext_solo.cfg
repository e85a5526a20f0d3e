SPECIFICATION Spec
CONSTANTS
  a = a
  b = b
  None = None
  Clients <- MCOne
  Errors <- MCNotRecoverable
  Seqs <- MCSeqs
  MaxCores = 3
  MaxErrors = 2
  CallbacksTakeHolders = TRUE
INVARIANTS
  SyncMeansRoundTrip
