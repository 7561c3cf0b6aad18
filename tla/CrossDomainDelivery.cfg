SPECIFICATION Spec
CONSTANTS
  IdModulus = 16
  SentinelStart = 7
  PipeReadStart = 9
  Uuids = {"u"}
  Rings = {1, 2}
  Blobs = {}
  Fences = {f1, f2, f3, f4}
  MaxInits = 1
  MaxPoll = 1
  InitCmds <- OneConnection
  SendCmds <- PipeSend
  PeerFiles <- BlobFiles
  MaxDescriptor = 5
  MaxPipe = 10
  MaxReqs = 1
  ImportIds = {}
  EventIds = {}
  TouchIds = {}
  SentIds = {}
  MaxMsgs = 2
  MaxChunks = 2
  MaxEvt = 1
  MaxQueue = 2
  Reattach = {}
  PeerCloses = TRUE
  PeerReadsEvents = FALSE
  MayDrop = FALSE
SYMMETRY FenceSymmetry
INVARIANTS RingFresh DeliveredInOrder HangUpAfterData
PROPERTY RingNotOverwritten
CHECK_DEADLOCK FALSE
