SPECIFICATION Spec
CONSTANTS
  IdModulus = 16
  SentinelStart = 7
  PipeReadStart = 9
  Uuids = {"u"}
  Rings = {1, 2}
  Blobs = {}
  Fences = {f1, f2}
  MaxInits = 1
  MaxPoll = 1
  InitCmds <- OneConnection
  SendCmds <- NoSends
  PeerFiles <- EventFiles
  MaxDescriptor = 3
  MaxPipe = 10
  MaxReqs = 2
  ImportIds = {}
  EventIds = {3}
  TouchIds = {}
  SentIds = {}
  MaxMsgs = 1
  MaxChunks = 1
  MaxEvt = 1
  MaxQueue = 2
  Reattach = {}
  PeerCloses = FALSE
  PeerReadsEvents = FALSE
  MayDrop = FALSE
INVARIANT RingFresh
CHECK_DEADLOCK FALSE
