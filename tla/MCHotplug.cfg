SPECIFICATION MCSpec
CONSTANTS
  Backends = {"seq", "shared", "raw", "jack", "winmm"}
  PortCount = 2
  Rechecks = 1
  MaxMoves = 4
  Services = {"winuwp", "winmidi", "coremidi", "webmidi", "jackump"}
  Devices = {1, 2}
  Layouts <- MCLayouts
  Physical = {1}
  Ump = {1}
  NotifyInConstructor = TRUE
  Idle = {"winuwp", "winmidi"}
  MaxSteps = 4
PROPERTIES
  ObserversAlternate
  CatchesUp
CHECK_DEADLOCK FALSE
