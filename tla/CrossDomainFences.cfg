SPECIFICATION Spec
CONSTANTS
  IdModulus = 16
  SentinelStart = 7
  PipeReadStart = 9
  Uuids = {"u"}
  Rings = {1, 2}
  Blobs = {}
  Fences = {f1, f2, f3}
  MaxInits = 2
  MaxPoll = 2
  InitCmds <- AllInits
  SendCmds <- PipeSend
  PeerFiles <- SocketFiles
  MaxDescriptor = 2
  MaxPipe = 10
  MaxReqs = 1
  ImportIds = {}
  EventIds = {}
  TouchIds = {2}
  SentIds = {}
  MaxMsgs = 1
  MaxChunks = 1
  MaxEvt = 1
  MaxQueue = 2
  Reattach = {2}
  PeerCloses = FALSE
  PeerReadsEvents = FALSE
  MayDrop = TRUE
SYMMETRY FenceSymmetry
INVARIANTS SignalOnce FenceAccounted
PROPERTY FencesImplemented
CHECK_DEADLOCK FALSE
