SPECIFICATION Spec
CONSTANTS
  PacketSize = 2
  MaxMessages = 4
  MaxSpans = 5
INVARIANTS
  Transparent
  TimesAddUp
PROPERTIES
  Recovers
CHECK_DEADLOCK FALSE
