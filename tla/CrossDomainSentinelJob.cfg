SPECIFICATION FairSpec
CONSTANTS
  IdModulus = 16
  SentinelStart = 7
  PipeReadStart = 9
  Uuids = {"u"}
  Rings = {1, 2}
  Blobs = {}
  Fences = {f1}
  MaxInits = 1
  MaxPoll = 1
  InitCmds <- OneConnection
  SendCmds <- NoSends
  PeerFiles <- NoFiles
  MaxDescriptor = 2
  MaxPipe = 10
  MaxReqs = 1
  ImportIds = {}
  EventIds = {}
  TouchIds = {}
  SentIds = {7}
  MaxMsgs = 1
  MaxChunks = 1
  MaxEvt = 1
  MaxQueue = 2
  Reattach = {}
  PeerCloses = FALSE
  PeerReadsEvents = FALSE
  MayDrop = FALSE
PROPERTIES SentinelJobHandled
CHECK_DEADLOCK FALSE
