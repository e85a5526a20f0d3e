SPECIFICATION MCSpec
CONSTANTS
  Backends = {"seq", "raw", "ump"}
  QueueSize = 2
  MaxOpens = 3
  MaxUnasked = 2
  Protocols = {"midi1", "ump"}
  Names = {"x", "y"}
  Sends <- MCSends
  Foreign <- MCForeign
  MaxNetOpens = 2
  MaxArrivals = 2
  ScancodeMap <- MCScancodeMap
  AutoRepeat = FALSE
  MaxPresses = 4
  OutBackends = {"seq", "seq_ump", "raw", "ump", "winmm", "winuwp", "coremidi", "coremidi_ump", "winmidi", "kdmapi", "webmidi", "android", "rawio"}
  Destinations = {"d1", "d2"}
  Messages <- MCMessages
  MaxOutOpens = 2
  MaxSends = 2
  MaxOthers = 1
  DeviceBuffer = 3
  ChunkSize = 2
  PacketSize = 2
  ListSize = 3
  Tells = {"seq", "raw", "ump", "winmm", "winuwp", "coremidi", "winmidi", "rawio"}
  Connects = {"seq", "seq_ump", "raw", "ump", "winmm", "winuwp", "kdmapi", "webmidi"}
  Frees = {"raw", "ump", "winuwp", "winmidi", "webmidi", "rawio"}
  Forgets = {"raw", "ump", "winmm", "winuwp", "coremidi", "coremidi_ump", "kdmapi", "rawio"}
  InBackends = {"coremidi", "coremidi_ump", "winmidi", "winuwp", "webmidi", "android", "rawio"}
  Sources = {"d1", "d2"}
  Block <- MCBlock
  MaxInOpens = 2
  Waiting = {"coremidi", "coremidi_ump", "winmidi", "winuwp", "rawio"}
  FirstOnly = {"winmidi", "android"}
  Served = {"coremidi", "coremidi_ump", "winuwp", "rawio"}
  Released = {"winmidi", "winuwp", "rawio"}
  Wrappers = {"observer", "input", "output"}
  DirectReturns = FALSE
  MaxReports = 3
  MaxPyCalls = 5
  MaxDepth = 3
  Build1 <- MCBuild1
  Build2 <- MCBuild2
  Apis1 = {"COREMIDI", "ALSA_SEQ", "KEYBOARD", "RAW_IO"}
  Apis2 = {"COREMIDI_UMP", "ALSA_SEQ_UMP", "RAW_IO_UMP"}
  Without <- MCWithout
  Asked = {"UNSPECIFIED", "COREMIDI", "ALSA_SEQ", "KEYBOARD", "ALSA_SEQ_UMP"}
  Ports = {"none", "virtual", "ALSA_SEQ"}
  ComeAndGo = {"ALSA_SEQ", "ALSA_SEQ_UMP"}
  MayThrow = {"ALSA_SEQ", "ALSA_SEQ_UMP"}
  Silent = {"KEYBOARD", "RAW_IO", "RAW_IO_UMP", "DUMMY"}
  Refuses = {"KEYBOARD", "DUMMY"}
  MaxObjects = 2
  MaxNews = 2
INVARIANTS
  ClosedIsQuiet
  OpenIsServed
  HearsWhatWasDone
  SendsWhatItSays
PROPERTIES
  PortsReturn
CHECK_DEADLOCK FALSE
