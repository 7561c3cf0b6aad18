SPECIFICATION Spec
CONSTANTS
  IdModulus = 16
  SentinelStart = 7
  PipeReadStart = 9
  Uuids = {"u"}
  Rings = {1, 2}
  Blobs = {3}
  Fences = {f1, f2}
  MaxInits = 1
  MaxPoll = 1
  InitCmds <- OneConnection
  SendCmds <- AllSends
  PeerFiles <- AllFiles
  MaxDescriptor = 5
  MaxPipe = 10
  MaxReqs = 2
  ImportIds = {5}
  EventIds = {4}
  TouchIds = {3, 4}
  SentIds = {}
  MaxMsgs = 1
  MaxChunks = 1
  MaxEvt = 1
  MaxQueue = 2
  Reattach = {}
  PeerCloses = FALSE
  PeerReadsEvents = TRUE
  MayDrop = FALSE
SYMMETRY FenceSymmetry
INVARIANTS TypeOK FreshIds
CHECK_DEADLOCK FALSE
