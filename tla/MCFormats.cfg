SPECIFICATION MCSpec
CONSTANTS
  IndexSize = 20
  Messages <- MCMessages
  MaxBatch = 2
  Packets <- MCPackets
  LastTrack = 2
  Events <- MCEvents
  MaxEvents = 2
  Noise = {0, 1, 144, 240, 247, 255}
  Columns = 2
  Texts <- MCTexts
  Positions <- MCPositions
  Times <- MCTimes
  Levels = {200, 16383}
  Type = "logic_control"
  MaxChallenges = 2
  MaxCalls = 2
  Saved <- MCSaved
  Known <- MCKnown
  MaxPorts = 2
  Stations <- MCStations
  Calls <- MCCalls
  Others <- MCOthers
  Requests <- MCRequests
  Inquiries <- MCInquiries
  Payloads <- MCPayloads
  Fillers <- MCFillers
  Singles <- MCSingles
  Messages7 <- MCMessages7
  Writings <- MCWritings
  DataSets <- MCDataSets
  ChunkSize = 2
  Room = 16
  MaxOthers = 1
  StreamRoom = 14
  Listened = {1, 2}
  Firsts <- MCFirsts
  Seconds <- MCSeconds
  MergeRoom = 80
  Stray = {0, 1, 30}
INVARIANTS
  ConverterKeeps
  PacketsKeep
  BuffersKeep
  FilesKeep
  RemoteFollows
  PortFoundAgain
CHECK_DEADLOCK FALSE
