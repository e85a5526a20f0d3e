SPECIFICATION Spec
CONSTANTS
  a = a
  b = b
  None = None
  Clients <- MCTwo
  Errors <- MCNotRecoverable
  Seqs <- MCSeqs
  MaxCores = 2
  MaxErrors = 0
  CallbacksTakeHolders = TRUE
INVARIANTS
  NoCircularWait
