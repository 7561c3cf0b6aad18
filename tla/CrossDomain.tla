---------------------------- MODULE CrossDomain ----------------------------
(***************************************************************************)
(* The cross-domain context of rutabaga_gfx and its worker thread          *)
(* (src/src/cross_domain/{context,worker,common}.rs).                      *)
(*                                                                         *)
(* Threads: the VMM thread runs the guest's commands one after the other   *)
(* (variable ctx says where it is inside a command that takes several      *)
(* steps); every successful CMD_INIT with a channel spawns a worker, which *)
(* takes jobs from its session's queue and, for HandleFence, polls its     *)
(* epoll set, handles the FIRST event, writes the channel ring and signals *)
(* the guest fence.  The guest, the peer on the host socket and the        *)
(* sentinel threads are the environment.                                   *)
(***************************************************************************)
EXTENDS Naturals, Sequences, FiniteSets

CONSTANTS
    Fences,          \* guest fence ids; a fence is created at most once
    MaxInits,        \* bound: successful CMD_INITs of one context
    MaxPoll,         \* bound: channel fences the guest keeps outstanding
    Rings,           \* guest-memory blob resources (naturals)
    Blobs,           \* resources with a host handle (naturals)
    InitCmds,        \* CMD_INIT commands of the guest
    SendCmds,        \* CMD_SEND identifier lists of the guest
    PeerFiles,       \* descriptor lists a peer message may carry
    IdModulus,       \* 2^32 in the code
    SentinelStart,   \* CROSS_DOMAIN_ATOMIC_MEMORY_SENTINEL_START
    PipeReadStart,   \* CROSS_DOMAIN_PIPE_READ_START
    MaxDescriptor,   \* bound: descriptor_id counter
    MaxPipe,         \* bound: read_pipe_id counter
    MaxReqs,         \* bound: no image requirements once descriptor_id is here
    ImportIds,       \* ids the guest chooses in CMD_IMPORT_VIRTIOFS_HANDLE
    EventIds,        \* ids the guest names in CMD_READ_CREATE_EVENT
    TouchIds,        \* ids it names in CMD_WRITE, ASSIGN_SOCKET_UUID, blobs
    SentIds,         \* ids it chooses in CMD_CREATE_ATOMIC_MEMORY_SENTINEL
    Uuids,           \* internal socket uuids
    MaxMsgs,         \* bound: messages a peer sends on one connection
    MaxChunks,       \* bound: reads' worth of data a peer puts in one pipe
    MaxQueue,        \* bound: no CMD_READ_CREATE_EVENT on a queue this long
    MaxEvt,          \* eventfd counter limit (u64::MAX - 1 in the kernel)
    Reattach,        \* resources the guest detaches, or attaches again
    PeerCloses,      \* whether the peer may close the connection
    PeerReadsEvents, \* whether the peer also reads the eventfds it sent
    MayDrop          \* whether the VMM destroys the context

Sessions  == 1 .. MaxInits
Resources == Rings \cup Blobs
Ids       == 0 .. IdModulus - 1

\* Connection ids of the epoll set that no item allocates.
ChannelId  == 1
ResampleId == 2
KillId     == 3

NoFence == "nofence"
ItemTypes == {"Reqs", "Blob", "ReadPipe", "WritePipe", "Event", "File", "Socket"}
FileTypes == {"Event", "Blob", "WritePipe", "Socket", "Unknown"}
IdentTypes == {"blob", "read_pipe", "fs_blob", "other"}
InitTypes == {"none", "path", "nopath", "internal"}
JobOps    == {"HandleFence", "AddReadPipe", "AddReadEvent",
              "AddAtomicMemorySentinel", "Finish"}

Job(op, arg) == [op |-> op, arg |-> arg]
Jobs == [op : {"HandleFence"}, arg : Fences] \cup [op : JobOps \ {"HandleFence"}, arg : Ids]

\* What a ring write leaves in a ring.  n numbers the messages of one source:
\* the connection of session src, or the item src.  n = 0 is end of file.
Msg(kind, src, n, ids) == [kind |-> kind, src |-> src, n |-> n, ids |-> ids]
NoMsg == Msg("none", 0, 0, <<>>)
Messages == [kind : {"none", "receive", "read", "sentinel", "reqs"},
             src : Nat, n : Nat, ids : Seq(Ids)]

ASSUME IdAssumption ==
    /\ {IdModulus, SentinelStart, PipeReadStart, MaxDescriptor, MaxPipe} \subseteq Nat
    /\ 1 <= MaxDescriptor /\ MaxDescriptor < SentinelStart
    /\ SentinelStart < PipeReadStart
    /\ PipeReadStart <= MaxPipe /\ MaxPipe < IdModulus
    /\ ImportIds \cup EventIds \cup TouchIds \cup SentIds \subseteq Ids

ASSUME InputAssumption ==
    /\ {MaxInits, MaxPoll, MaxReqs, MaxMsgs, MaxChunks, MaxQueue, MaxEvt} \subseteq Nat
    /\ Resources \subseteq Nat \ {0}
    /\ NoFence \notin Fences
    /\ InitCmds \subseteq [query : Resources, channel : Resources, type : InitTypes, uuid : Uuids]
    /\ SendCmds \subseteq Seq([type : IdentTypes, id : Ids])
    /\ PeerFiles \subseteq Seq(FileTypes)
    /\ Reattach \subseteq Resources
    /\ {PeerCloses, PeerReadsEvents, MayDrop} \subseteq BOOLEAN

VARIABLES
    \* the VMM thread and CrossDomainContext
    ctx,             \* where the VMM thread is
    send,            \* locals of send(): identifiers to do, the read pipe added
    wr,              \* locals of write()
    paths,           \* self.paths is Some
    cur,             \* self.state: the latest session, 0 for None
    chan,            \* the session worker_thread/resample_evt/kill_evt belong to
    sockets,         \* internal_sockets: uuids present
    backing,         \* resource.backing_iovecs is Some
    \* shared with the worker
    rings,           \* per session: query_ring_id, channel_ring_id
    jobs,            \* per session: the job queue
    resample,        \* per session: resample eventfd is non-zero
    kill,            \* per session: kill eventfd is non-zero
    ctxres,          \* context_resources
    ring,            \* per resource: what the guest has not read yet
    items,           \* item table
    descriptor_id, read_pipe_id,
    watcher,         \* sentinel manager: id -> none, live, shutdown
    sevt,            \* per sentinel: its eventfd is non-zero
    \* worker threads
    wpc, wfence, wevent, wreply, wfiles, reg,
    \* guest
    created, signals, fring, read, seen,
    \* peer
    inq, csent, closed, pw, pwrote, pread, evtOpen, evt

ctxVars   == <<ctx, send, wr, paths, cur, chan, sockets, backing>>
itemVars  == <<items, descriptor_id, read_pipe_id>>
sentVars  == <<watcher, sevt>>
workVars  == <<wpc, wfence, wevent, wreply, wfiles, reg>>
guestVars == <<created, fring, read, seen>>
peerVars  == <<inq, csent, closed, pw, pwrote, pread, evtOpen, evt>>
wakeVars  == <<resample, kill>>
vars == <<ctxVars, rings, jobs, wakeVars, ctxres, ring, itemVars, sentVars,
          workVars, guestVars, signals, peerVars>>

-----------------------------------------------------------------------------
(* State predicates and operations of common.rs                            *)

\* item_state.lock(): held by a worker from the lookup of the item to the
\* fence handler's return, and by write() while the descriptor may block it.
ItemsFree == ctx # "write" /\ \A s \in Sessions : wpc[s] \notin {"item", "isignal"}

\* context_resources.lock(): held while a worker writes a ring from a
\* descriptor, which may block.
ResourcesFree == \A s \in Sessions : wpc[s] # "item"

\* sentinel_manager.lock()
ManagerFree == \A s \in Sessions : wpc[s] # "ssignal"

Idle == ctx = "idle"
HasWorker(s) == wpc[s] # "none"
Exited(s)    == wpc[s] \in {"halted", "done"}

\* write_to_ring fails unless the resource is attached with its iovecs.
RingWritable(r) == ctxres[r] = "iovecs"

\* The id add_item gives the next item of a type.
NewId(ty) ==
    IF ty = "ReadPipe"
    THEN LET n == (read_pipe_id + 1) % IdModulus
         IN  IF n > PipeReadStart THEN n ELSE PipeReadStart
    ELSE (descriptor_id + 1) % IdModulus

\* Plausible bug: the counter is not written back.
AddWithoutCounting(ty) ==
    /\ ItemsFree /\ descriptor_id < MaxDescriptor
    /\ items' = [items EXCEPT ![NewId(ty)] = ty]
    /\ UNCHANGED <<descriptor_id, read_pipe_id>>

add_item(ty) ==
    /\ ItemsFree
    /\ IF ty = "ReadPipe"
       THEN /\ read_pipe_id < MaxPipe
            /\ read_pipe_id' = (read_pipe_id + 1) % IdModulus
            /\ UNCHANGED descriptor_id
       ELSE /\ descriptor_id < MaxDescriptor
            /\ descriptor_id' = (descriptor_id + 1) % IdModulus
            /\ UNCHANGED read_pipe_id
    /\ items' = [items EXCEPT ![NewId(ty)] = ty]

add_job(s, job) == jobs' = [jobs EXCEPT ![s] = Append(@, job)]

\* Dropping an item closes its descriptor.  The read end of a pipe has no other
\* owner, so the kernel takes it out of every epoll set; an eventfd is also
\* open in the peer and stays registered.
DropItem(id) ==
    /\ items' = [items EXCEPT ![id] = "none"]
    /\ reg' = IF items[id] = "ReadPipe"
              THEN [s \in Sessions |-> reg[s] \ {<<id, "item">>}]
              ELSE reg
    /\ UNCHANGED <<descriptor_id, read_pipe_id>>

Init ==
    /\ ctx = "idle" /\ send = [todo |-> <<>>, pipe |-> 0]
    /\ wr = [id |-> 0, ty |-> "Event", hup |-> FALSE]
    /\ paths = TRUE /\ cur = 0 /\ chan = 0 /\ sockets = {}
    /\ backing = [r \in Resources |-> r \in Rings]
    /\ rings = [s \in Sessions |-> [query |-> 0, channel |-> 0]]
    /\ jobs = [s \in Sessions |-> <<>>]
    /\ resample = [s \in Sessions |-> FALSE]
    /\ kill = [s \in Sessions |-> FALSE]
    /\ ctxres = [r \in Resources |-> "absent"]
    /\ ring = [r \in Resources |-> NoMsg]
    /\ items = [id \in Ids |-> "none"]
    /\ descriptor_id = 1 /\ read_pipe_id = PipeReadStart
    /\ watcher = [id \in SentIds |-> "none"]
    /\ sevt = [id \in SentIds |-> FALSE]
    /\ wpc = [s \in Sessions |-> "none"]
    /\ wfence = [s \in Sessions |-> NoFence]
    /\ wevent = [s \in Sessions |-> [id |-> 0, readable |-> FALSE, hung_up |-> FALSE]]
    /\ wreply = [s \in Sessions |-> NoMsg]
    /\ wfiles = [s \in Sessions |-> <<>>]
    /\ reg = [s \in Sessions |-> {}]
    /\ created = {} /\ signals = [f \in Fences |-> 0]
    /\ fring = [f \in Fences |-> 0] /\ read = {} /\ seen = <<>>
    /\ inq = [s \in Sessions |-> <<>>] /\ csent = [s \in Sessions |-> 0]
    /\ closed = [s \in Sessions |-> FALSE]
    /\ pw = [id \in Ids |-> "none"]
    /\ pwrote = [id \in Ids |-> 0] /\ pread = [id \in Ids |-> 0]
    /\ evtOpen = {} /\ evt = [id \in Ids |-> 0]

-----------------------------------------------------------------------------
(* The VMM thread: context.rs                                              *)

\* attach: a guest-memory blob gives its iovecs away, once.
attach(r) ==
    /\ Idle /\ ResourcesFree
    /\ ctxres[r] = "absent" \/ r \in Reattach
    /\ ctxres' = [ctxres EXCEPT ![r] =
                     IF r \in Blobs THEN "handle"
                     ELSE IF backing[r] THEN "iovecs" ELSE "bare"]
    /\ backing' = [backing EXCEPT ![r] = FALSE]
    /\ UNCHANGED <<ctx, send, wr, paths, cur, chan, sockets, rings, jobs, wakeVars, ring,
                   itemVars, sentVars, workVars, guestVars, signals, peerVars>>

detach(r) ==
    /\ Idle /\ ResourcesFree
    /\ ctxres[r] # "absent" /\ r \in Reattach
    /\ ctxres' = [ctxres EXCEPT ![r] = "absent"]
    /\ UNCHANGED <<ctxVars, rings, jobs, wakeVars, ring, itemVars, sentVars, workVars,
                   guestVars, signals, peerVars>>

\* The tail of initialize: self.state is replaced; with a connection, a worker
\* is spawned and takes the places of the former thread and events.
Spawn(c) ==
    /\ cur' = cur + 1 /\ chan' = cur + 1
    /\ wpc' = [wpc EXCEPT ![cur + 1] = "idle"]
    /\ rings' = [rings EXCEPT ![cur + 1] = [query |-> c.query, channel |-> c.channel]]
    /\ UNCHANGED <<wfence, wevent, wreply, wfiles, reg>>

\* initialize.  get_connection takes self.paths before it looks the path up or
\* connects, so a failure leaves nothing to try again with.
initialize(c) ==
    /\ Idle /\ ResourcesFree /\ cur < MaxInits
    /\ ctxres[c.query] # "absent"
    /\ \/ /\ c.type = "none"
          /\ cur' = cur + 1
          /\ rings' = [rings EXCEPT ![cur + 1] = [query |-> c.query, channel |-> c.channel]]
          /\ UNCHANGED <<paths, chan, sockets, workVars>>
       \/ /\ c.type # "none" /\ ctxres[c.channel] # "absent"
          /\ \/ /\ c.type = "internal" /\ c.uuid \in sockets
                /\ sockets' = sockets \ {c.uuid}
                /\ Spawn(c) /\ UNCHANGED paths
             \/ /\ c.type = "path" /\ paths
                /\ paths' = FALSE
                /\ Spawn(c) /\ UNCHANGED sockets
             \/ /\ c.type \in {"path", "nopath"} /\ paths
                /\ paths' = FALSE
                /\ UNCHANGED <<cur, chan, sockets, rings, workVars>>
    /\ UNCHANGED <<ctx, send, wr, backing, jobs, wakeVars, ctxres, ring, itemVars, sentVars,
                   guestVars, signals, peerVars>>

\* get_image_requirements: the item stays when the ring cannot be written.
get_image_requirements ==
    /\ Idle /\ ResourcesFree /\ cur # 0
    /\ descriptor_id < MaxReqs
    /\ add_item("Reqs")
    /\ LET q == rings[cur].query
       IN  ring' = IF RingWritable(q)
                   THEN [ring EXCEPT ![q] = Msg("reqs", NewId("Reqs"), 0, <<>>)]
                   ELSE ring
    /\ UNCHANGED <<ctxVars, rings, jobs, wakeVars, ctxres, sentVars, workVars, guestVars,
                   signals, peerVars>>

\* send: one step per identifier, then the message.
SendBegin(cmd) ==
    /\ Idle
    /\ ctx' = "send" /\ send' = [todo |-> cmd, pipe |-> 0]
    /\ UNCHANGED <<wr, paths, cur, chan, sockets, backing, rings, jobs, wakeVars, ctxres, ring,
                   itemVars, sentVars, workVars, guestVars, signals, peerVars>>

\* An error returns from send; a pipe made for it stays in the item table, and
\* both copies of its write end are dropped.
SendError(pipes) ==
    /\ ctx' = "idle" /\ send' = [todo |-> <<>>, pipe |-> 0]
    /\ pw' = [id \in Ids |-> IF id \in pipes \ {0} THEN "closed" ELSE pw[id]]

SendNext(pipe) == ctx' = ctx /\ send' = [todo |-> Tail(send.todo), pipe |-> pipe]

SendBlob(id) ==
    /\ ResourcesFree
    /\ IF id \in Resources /\ ctxres[id] = "handle"
       THEN SendNext(send.pipe) /\ UNCHANGED pw
       ELSE SendError({send.pipe})
    /\ UNCHANGED <<itemVars, reg>>

\* The guest guesses the id of the read pipe; a wrong guess is refused after
\* the item was added.
SendReadPipe(id) ==
    IF send.pipe # 0
    THEN SendError({send.pipe}) /\ UNCHANGED <<itemVars, reg>>
    ELSE /\ add_item("ReadPipe")
         /\ IF NewId("ReadPipe") = id
            THEN SendNext(id) /\ pw' = [pw EXCEPT ![id] = "host"]
            ELSE SendError({NewId("ReadPipe")})
         /\ UNCHANGED reg

\* The item is taken out of the table whatever its type.
SendFsBlob(id) ==
    /\ ItemsFree
    /\ IF items[id] = "File" THEN SendNext(send.pipe) /\ UNCHANGED pw
                             ELSE SendError({send.pipe})
    /\ DropItem(id)

SendIdentifier ==
    /\ ctx = "send" /\ send.todo # <<>>
    /\ LET i == Head(send.todo) IN
       \/ i.type = "blob" /\ SendBlob(i.id)
       \/ i.type = "read_pipe" /\ SendReadPipe(i.id)
       \/ i.type = "fs_blob" /\ SendFsBlob(i.id)
       \/ i.type = "other" /\ SendError({send.pipe}) /\ UNCHANGED <<itemVars, reg>>
    /\ UNCHANGED <<wr, paths, cur, chan, sockets, backing, rings, jobs, wakeVars, ctxres, ring,
                   sentVars, wpc, wfence, wevent, wreply, wfiles, guestVars, signals,
                   inq, csent, closed, pwrote, pread, evtOpen, evt>>

\* Plausible bug: the new pipe's job is queued and nobody wakes the worker.
WakeNobody == UNCHANGED resample

\* resample_evt.signal()
Resample == resample' = [resample EXCEPT ![chan] = TRUE]

\* send_msg, then the job that makes the worker poll the new pipe.
SendFinish ==
    /\ ctx = "send" /\ send.todo = <<>>
    /\ IF cur # 0 /\ chan # 0 /\ HasWorker(cur) /\ ~closed[cur]
       THEN /\ ctx' = "idle" /\ send' = [todo |-> <<>>, pipe |-> 0]
            /\ IF send.pipe # 0
               THEN /\ pw' = [pw EXCEPT ![send.pipe] = "peer"]
                    /\ add_job(cur, Job("AddReadPipe", send.pipe))
                    /\ Resample
               ELSE UNCHANGED <<pw, jobs, resample>>
       ELSE /\ SendError({send.pipe}) /\ UNCHANGED <<jobs, resample>>
    /\ UNCHANGED <<wr, paths, cur, chan, sockets, backing, rings, kill, ctxres, ring,
                   itemVars, sentVars, workVars, guestVars, signals,
                   inq, csent, closed, pwrote, pread, evtOpen, evt>>

\* write: the item leaves the table first and comes back after the write, so
\* an error (a wrong type, a failed or blocked descriptor) loses it.
WriteBegin(id, hup) ==
    /\ Idle /\ ItemsFree
    /\ items[id] # "none"
    /\ DropItem(id)
    /\ IF items[id] \in {"WritePipe", "Event"}
       THEN ctx' = "write" /\ wr' = [id |-> id, ty |-> items[id], hup |-> hup]
       ELSE UNCHANGED <<ctx, wr>>
    /\ UNCHANGED <<send, paths, cur, chan, sockets, backing, rings, jobs, wakeVars, ctxres,
                   ring, sentVars, wpc, wfence, wevent, wreply, wfiles, guestVars, signals,
                   peerVars>>

\* An eventfd at its limit blocks the writer.
WriteEnd ==
    /\ ctx = "write" /\ ctx' = "idle"
    /\ IF wr.ty = "Event"
       THEN evt[wr.id] < MaxEvt /\ evt' = [evt EXCEPT ![wr.id] = @ + 1]
       ELSE UNCHANGED evt
    /\ items' = IF wr.hup THEN items ELSE [items EXCEPT ![wr.id] = wr.ty]
    /\ UNCHANGED <<send, wr, paths, cur, chan, sockets, backing, rings, jobs, wakeVars, ctxres,
                   ring, descriptor_id, read_pipe_id, sentVars, workVars, guestVars, signals,
                   inq, csent, closed, pw, pwrote, pread, evtOpen>>

WriteError ==
    /\ ctx = "write" /\ ctx' = "idle"
    /\ UNCHANGED <<send, wr, paths, cur, chan, sockets, backing, rings, jobs, wakeVars, ctxres,
                   ring, itemVars, sentVars, workVars, guestVars, signals, peerVars>>

\* read_event_new.  The unwraps panic without a state or a resample event.
read_event_new(id) ==
    /\ Idle /\ ItemsFree
    /\ items[id] = "Event" /\ cur # 0 /\ chan # 0
    /\ Len(jobs[cur]) < MaxQueue
    /\ add_job(cur, Job("AddReadEvent", id))
    /\ Resample
    /\ UNCHANGED <<ctxVars, rings, kill, ctxres, ring, itemVars, sentVars, workVars,
                   guestVars, signals, peerVars>>

import_virtiofs_handle(id) ==
    /\ Idle /\ ItemsFree
    /\ items[id] = "none"
    /\ items' = [items EXCEPT ![id] = "File"]
    /\ UNCHANGED <<ctxVars, rings, jobs, wakeVars, ctxres, ring, descriptor_id, read_pipe_id,
                   sentVars, workVars, guestVars, signals, peerVars>>

\* socket_assign_uuid: the item is gone whatever its type.
socket_assign_uuid(id, uuid) ==
    /\ Idle /\ ItemsFree
    /\ items[id] # "none"
    /\ sockets' = IF items[id] = "Socket" THEN sockets \cup {uuid} ELSE sockets
    /\ DropItem(id)
    /\ UNCHANGED <<ctx, send, wr, paths, cur, chan, backing, rings, jobs, wakeVars, ctxres, ring,
                   sentVars, wpc, wfence, wevent, wreply, wfiles, guestVars, signals, peerVars>>

\* context_create_blob: only image requirements stay in the table.
context_create_blob(id) ==
    /\ Idle /\ ItemsFree
    /\ items[id] \notin {"none", "Reqs"}
    /\ DropItem(id)
    /\ UNCHANGED <<ctxVars, rings, jobs, wakeVars, ctxres, ring, sentVars, wpc, wfence, wevent,
                   wreply, wfiles, guestVars, signals, peerVars>>

\* atomic_memory_sentinel_new: the watcher exists before the state is looked
\* at, and the job is queued without a resample.
atomic_memory_sentinel_new(id) ==
    /\ Idle /\ ManagerFree
    /\ watcher[id] = "none"
    /\ watcher' = [watcher EXCEPT ![id] = "live"]
    /\ IF cur # 0 THEN add_job(cur, Job("AddAtomicMemorySentinel", id)) ELSE UNCHANGED jobs
    /\ UNCHANGED <<ctxVars, rings, wakeVars, ctxres, ring, itemVars, sevt, workVars,
                   guestVars, signals, peerVars>>

\* atomic_memory_sentinel_destroy: shutdown() joins the watcher thread, whose
\* last step signals the event (module MemorySentinel has its steps).
atomic_memory_sentinel_destroy(id) ==
    /\ Idle /\ ManagerFree
    /\ watcher[id] = "live"
    /\ watcher' = [watcher EXCEPT ![id] = "shutdown"]
    /\ sevt' = [sevt EXCEPT ![id] = TRUE]
    /\ UNCHANGED <<ctxVars, rings, jobs, wakeVars, ctxres, ring, itemVars, workVars,
                   guestVars, signals, peerVars>>

\* Plausible bug: a fence of the query ring is also left to the worker.
QueryFallsThrough(f) ==
    /\ Idle /\ f \notin created
    /\ created' = created \cup {f}
    /\ signals' = [signals EXCEPT ![f] = @ + 1]
    /\ fring' = IF cur # 0 THEN [fring EXCEPT ![f] = rings[cur].query] ELSE fring
    /\ IF cur # 0 THEN add_job(cur, Job("HandleFence", f)) ELSE UNCHANGED jobs
    /\ UNCHANGED <<ctxVars, rings, wakeVars, ctxres, ring, itemVars, sentVars, workVars,
                   read, seen, peerVars>>

\* context_create_fence on the query ring: signalled at once, with or without
\* a state.
QueryFence(f) ==
    /\ Idle /\ f \notin created
    /\ created' = created \cup {f}
    /\ signals' = [signals EXCEPT ![f] = @ + 1]
    /\ fring' = IF cur # 0 THEN [fring EXCEPT ![f] = rings[cur].query] ELSE fring
    /\ UNCHANGED <<ctxVars, rings, jobs, wakeVars, ctxres, ring, itemVars, sentVars, workVars,
                   read, seen, peerVars>>

Outstanding == {f \in created : f \notin read}

\* context_create_fence on the channel ring.  Without a state the fence is
\* accepted and forgotten.
ChannelFence(f) ==
    /\ Idle /\ f \notin created
    /\ Cardinality(Outstanding) < MaxPoll
    /\ created' = created \cup {f}
    /\ IF cur # 0
       THEN /\ add_job(cur, Job("HandleFence", f))
            /\ fring' = [fring EXCEPT ![f] = rings[cur].channel]
       ELSE UNCHANGED <<jobs, fring>>
    /\ UNCHANGED <<ctxVars, rings, wakeVars, ctxres, ring, itemVars, sentVars, workVars,
                   signals, read, seen, peerVars>>

\* Plausible bug: the thread is joined without the kill event.
DropWithoutKill ==
    /\ MayDrop /\ Idle
    /\ IF cur # 0 THEN add_job(cur, Job("Finish", 0)) ELSE UNCHANGED jobs
    /\ ctx' = IF chan # 0 THEN "join" ELSE "dropped"
    /\ UNCHANGED <<send, wr, paths, cur, chan, sockets, backing, rings, wakeVars, ctxres, ring,
                   itemVars, sentVars, workVars, guestVars, signals, peerVars>>

\* Drop: Finish to the current session, kill and join the thread of chan.
DropBegin ==
    /\ MayDrop /\ Idle
    /\ IF cur # 0 THEN add_job(cur, Job("Finish", 0)) ELSE UNCHANGED jobs
    /\ IF chan # 0
       THEN ctx' = "join" /\ kill' = [kill EXCEPT ![chan] = TRUE]
       ELSE ctx' = "dropped" /\ UNCHANGED kill
    /\ UNCHANGED <<send, wr, paths, cur, chan, sockets, backing, rings, resample, ctxres, ring,
                   itemVars, sentVars, workVars, guestVars, signals, peerVars>>

DropJoin ==
    /\ ctx = "join" /\ Exited(chan)
    /\ ctx' = "dropped"
    /\ UNCHANGED <<send, wr, paths, cur, chan, sockets, backing, rings, jobs, wakeVars, ctxres,
                   ring, itemVars, sentVars, workVars, guestVars, signals, peerVars>>

-----------------------------------------------------------------------------
(* The worker: worker.rs                                                   *)

ctxSide == <<ctxVars, rings, kill, guestVars>>

\* An error returns from run: the thread ends and the fence it held is gone.
Halt(s) ==
    /\ wpc' = [wpc EXCEPT ![s] = "halted"]
    /\ wfence' = [wfence EXCEPT ![s] = NoFence]

Goto(s, pc) == wpc' = [wpc EXCEPT ![s] = pc]

\* wait_ctx.add of an item: missing, of another type or registered -> error.
AddDescriptor(s, id, ty) ==
    /\ ItemsFree
    /\ IF items[id] = ty /\ <<id, "item">> \notin reg[s]
       THEN reg' = [reg EXCEPT ![s] = @ \cup {<<id, "item">>}] /\ UNCHANGED <<wpc, wfence>>
       ELSE Halt(s) /\ UNCHANGED reg

\* run: take one job.
TakeJob(s) ==
    /\ wpc[s] = "idle" /\ jobs[s] # <<>>
    /\ jobs' = [jobs EXCEPT ![s] = Tail(@)]
    /\ LET job == Head(jobs[s]) IN
       \/ /\ job.op = "HandleFence"
          /\ Goto(s, "poll") /\ wfence' = [wfence EXCEPT ![s] = job.arg] /\ UNCHANGED reg
       \/ job.op = "AddReadPipe" /\ AddDescriptor(s, job.arg, "ReadPipe")
       \/ job.op = "AddReadEvent" /\ AddDescriptor(s, job.arg, "Event")
       \/ /\ job.op = "AddAtomicMemorySentinel"
          /\ reg' = [reg EXCEPT ![s] = @ \cup {<<job.arg, "job">>}]
          /\ UNCHANGED <<wpc, wfence>>
       \/ job.op = "Finish" /\ Goto(s, "done") /\ UNCHANGED <<wfence, reg>>
    /\ UNCHANGED <<ctxSide, resample, ctxres, ring, itemVars, sentVars, wevent, wreply, wfiles,
                   signals, peerVars>>

Ev(id, readable, hung_up) == [id |-> id, readable |-> readable, hung_up |-> hung_up]

\* What epoll reports.  Level triggered; a pipe at end of file reports HUP only.
Ready(s) ==
    {Ev(ChannelId, TRUE, closed[s]) : x \in {y \in {0} : inq[s] # <<>> \/ closed[s]}}
    \cup {Ev(ResampleId, TRUE, FALSE) : x \in {y \in {0} : resample[s]}}
    \cup {Ev(KillId, TRUE, FALSE) : x \in {y \in {0} : kill[s]}}
    \cup {Ev(id, pwrote[id] > pread[id], pw[id] = "closed") :
             id \in {i \in Ids : /\ <<i, "item">> \in reg[s]
                                 /\ pwrote[i] > pread[i] \/ pw[i] = "closed"}}
    \cup {Ev(id, TRUE, FALSE) :
             id \in {i \in evtOpen : <<i, "item">> \in reg[s] /\ evt[i] > 0}}
    \cup {Ev(id, TRUE, FALSE) : id \in {i \in SentIds : <<i, "job">> \in reg[s] /\ sevt[i]}}

\* wait_ctx.wait, then events.first(): which event comes first is the kernel's.
Poll(s) ==
    /\ wpc[s] = "poll"
    /\ \E e \in Ready(s) : wevent' = [wevent EXCEPT ![s] = e]
    /\ Goto(s, "event")
    /\ UNCHANGED <<ctxSide, resample, jobs, ctxres, ring, itemVars, sentVars, wfence, wreply,
                   wfiles, reg, signals, peerVars>>

IsSentinelId(id) == SentinelStart <= id /\ id < PipeReadStart
IsItemId(id) == id \notin {ChannelId, ResampleId, KillId} /\ ~IsSentinelId(id)

\* process_receive: receive_msg.  End of file is an empty message.
Receive(s) ==
    /\ wpc[s] = "event" /\ wevent[s].id = ChannelId
    /\ IF inq[s] = <<>>
       THEN /\ wreply' = [wreply EXCEPT ![s] = Msg("receive", s, 0, <<>>)]
            /\ UNCHANGED <<inq, wfiles>>
       ELSE /\ wreply' = [wreply EXCEPT ![s] =
                             Msg("receive", s, csent[s] - Len(inq[s]) + 1, <<>>)]
            /\ wfiles' = [wfiles EXCEPT ![s] = Head(inq[s])]
            /\ inq' = [inq EXCEPT ![s] = Tail(@)]
    /\ Goto(s, "files")
    /\ UNCHANGED <<ctxSide, resample, jobs, ctxres, ring, itemVars, sentVars, wfence, wevent,
                   reg, signals, csent, closed, pw, pwrote, pread, evtOpen, evt>>

\* process_receive: one item per descriptor of the message.
ReceiveFile(s) ==
    /\ wpc[s] = "files" /\ wfiles[s] # <<>>
    /\ LET ty == Head(wfiles[s]) IN
       IF ty = "Unknown"
       THEN Halt(s) /\ UNCHANGED <<itemVars, wreply, wfiles, evtOpen>>
       ELSE /\ add_item(ty)
            /\ wreply' = [wreply EXCEPT ![s].ids = Append(@, NewId(ty))]
            /\ wfiles' = [wfiles EXCEPT ![s] = Tail(@)]
            /\ evtOpen' = IF ty = "Event" THEN evtOpen \cup {NewId(ty)} ELSE evtOpen
            /\ UNCHANGED <<wpc, wfence>>
    /\ UNCHANGED <<ctxSide, resample, jobs, ctxres, ring, sentVars, wevent, reg, signals,
                   inq, csent, closed, pw, pwrote, pread, evt>>

\* Plausible bug: the ring is written and the worker polls on with the fence.
ReplyAndPollOn(s) ==
    /\ wpc[s] = "files" /\ wfiles[s] = <<>> /\ ResourcesFree
    /\ RingWritable(rings[s].channel)
    /\ ring' = [ring EXCEPT ![rings[s].channel] = wreply[s]]
    /\ Goto(s, IF inq[s] = <<>> THEN "signal" ELSE "poll")
    /\ UNCHANGED <<ctxSide, resample, jobs, ctxres, itemVars, sentVars, wfence, wevent, wreply,
                   wfiles, reg, signals, peerVars>>

\* process_receive: write the channel ring.
ReceiveReply(s) ==
    /\ wpc[s] = "files" /\ wfiles[s] = <<>> /\ ResourcesFree
    /\ LET r == rings[s].channel IN
       IF RingWritable(r)
       THEN /\ ring' = [ring EXCEPT ![r] = wreply[s]]
            /\ Goto(s, "signal") /\ UNCHANGED wfence
       ELSE Halt(s) /\ UNCHANGED ring
    /\ UNCHANGED <<ctxSide, resample, jobs, ctxres, itemVars, sentVars, wevent, wreply, wfiles,
                   reg, signals, peerVars>>

\* Plausible bug: the resample event ends the fence as any other event does.
ResampleSignals(s) ==
    /\ wpc[s] = "event" /\ wevent[s].id = ResampleId /\ resample[s]
    /\ resample' = [resample EXCEPT ![s] = FALSE]
    /\ Goto(s, "signal")
    /\ UNCHANGED <<ctxSide, jobs, ctxres, ring, itemVars, sentVars, wfence, wevent, wreply,
                   wfiles, reg, signals, peerVars>>

\* Plausible bug: the resample event is consumed and its fence forgotten.
ResampleForgets(s) ==
    /\ wpc[s] = "event" /\ wevent[s].id = ResampleId /\ resample[s]
    /\ resample' = [resample EXCEPT ![s] = FALSE]
    /\ wfence' = [wfence EXCEPT ![s] = NoFence]
    /\ Goto(s, "idle")
    /\ UNCHANGED <<ctxSide, jobs, ctxres, ring, itemVars, sentVars, wevent, wreply, wfiles,
                   reg, signals, peerVars>>

\* Plausible bug: the fence is taken out before the new job is made with it.
ResampleRequeuesNothing(s) ==
    /\ wpc[s] = "event" /\ wevent[s].id = ResampleId /\ resample[s]
    /\ resample' = [resample EXCEPT ![s] = FALSE]
    /\ add_job(s, Job("HandleFence", NoFence))
    /\ wfence' = [wfence EXCEPT ![s] = NoFence]
    /\ Goto(s, "idle")
    /\ UNCHANGED <<ctxSide, ctxres, ring, itemVars, sentVars, wevent, wreply, wfiles, reg,
                   signals, peerVars>>

\* RESAMPLE: consume the eventfd (blocking while it is zero) and queue the
\* fence again, behind the job that caused the resample.
HandleResample(s) ==
    /\ wpc[s] = "event" /\ wevent[s].id = ResampleId /\ resample[s]
    /\ resample' = [resample EXCEPT ![s] = FALSE]
    /\ add_job(s, Job("HandleFence", wfence[s]))
    /\ wfence' = [wfence EXCEPT ![s] = NoFence]
    /\ Goto(s, "idle")
    /\ UNCHANGED <<ctxSide, ctxres, ring, itemVars, sentVars, wevent, wreply, wfiles, reg,
                   signals, peerVars>>

\* KILL: the eventfd is never consumed; the fence is signalled.
HandleKill(s) ==
    /\ wpc[s] = "event" /\ wevent[s].id = KillId
    /\ Goto(s, "signal")
    /\ UNCHANGED <<ctxSide, resample, jobs, ctxres, ring, itemVars, sentVars, wfence, wevent,
                   wreply, wfiles, reg, signals, peerVars>>

\* A live sentinel: consume its eventfd, write the ring, keep the manager lock
\* until the fence handler returns.
HandleSentinel(s) ==
    /\ wpc[s] = "event" /\ IsSentinelId(wevent[s].id) /\ ManagerFree /\ ResourcesFree
    /\ LET id == wevent[s].id
           r  == rings[s].channel IN
       /\ watcher[id] = "live" /\ sevt[id]
       /\ sevt' = [sevt EXCEPT ![id] = FALSE]
       /\ IF RingWritable(r)
          THEN /\ ring' = [ring EXCEPT ![r] = Msg("sentinel", id, 0, <<>>)]
               /\ Goto(s, "ssignal") /\ UNCHANGED wfence
          ELSE Halt(s) /\ UNCHANGED ring
    /\ UNCHANGED <<ctxSide, resample, jobs, ctxres, itemVars, watcher, wevent, wreply, wfiles,
                   reg, signals, peerVars>>

\* A sentinel shut down: the manager's descriptor of the event is removed from
\* the epoll set, the fence queued again and the watcher forgotten.  epoll
\* knows the registration by the job's descriptor, so the removal fails.
HandleSentinelShutdown(s) ==
    /\ wpc[s] = "event" /\ IsSentinelId(wevent[s].id) /\ ManagerFree
    /\ LET id == wevent[s].id IN
       /\ watcher[id] # "live"
       /\ IF watcher[id] = "shutdown" /\ <<id, "manager">> \notin reg[s]
          THEN Halt(s) /\ UNCHANGED <<jobs, watcher, reg>>
          ELSE /\ reg' = [reg EXCEPT ![s] = @ \ {<<id, "manager">>}]
               /\ add_job(s, Job("HandleFence", wfence[s]))
               /\ watcher' = [watcher EXCEPT ![id] = "none"]
               /\ Goto(s, "idle") /\ wfence' = [wfence EXCEPT ![s] = NoFence]
    /\ UNCHANGED <<ctxSide, resample, ctxres, ring, itemVars, sevt, wevent, wreply, wfiles,
                   signals, peerVars>>

\* Any other id: lock the items, find the item.
LookupItem(s) ==
    /\ wpc[s] = "event" /\ IsItemId(wevent[s].id) /\ ItemsFree
    /\ IF items[wevent[s].id] \in {"ReadPipe", "Event"}
       THEN Goto(s, "item") /\ UNCHANGED wfence
       ELSE Halt(s)
    /\ UNCHANGED <<ctxSide, resample, jobs, ctxres, ring, itemVars, sentVars, wevent, wreply,
                   wfiles, reg, signals, peerVars>>

\* Zero bytes and a hang-up mean the pipe is at its end.
PipeFinished(s) == wevent[s].hung_up /\ ~wevent[s].readable

\* Plausible bug: the hang-up is looked at before the data.
HangUpFirst(s) == IF wevent[s].hung_up THEN 0 ELSE pread[wevent[s].id] + 1

\* WriteFromPipe reads once when there is data, and else says hang_up = 1 (n = 0).
ReadNumber(s) == IF wevent[s].readable THEN pread[wevent[s].id] + 1 ELSE 0

HandlePipe(s) ==
    /\ wpc[s] = "item" /\ items[wevent[s].id] = "ReadPipe"
    /\ LET id == wevent[s].id
           r  == rings[s].channel
           n  == ReadNumber(s) IN
       IF RingWritable(r)
       THEN /\ ring' = [ring EXCEPT ![r] = Msg("read", id, n, <<>>)]
            /\ pread' = IF n = 0 THEN pread ELSE [pread EXCEPT ![id] = n]
            /\ IF PipeFinished(s) THEN DropItem(id) ELSE UNCHANGED <<itemVars, reg>>
            /\ Goto(s, "isignal") /\ UNCHANGED wfence
       ELSE Halt(s) /\ UNCHANGED <<ring, pread, itemVars, reg>>
    /\ UNCHANGED <<ctxSide, resample, jobs, ctxres, sentVars, wevent, wreply, wfiles, signals,
                   inq, csent, closed, pw, pwrote, evtOpen, evt>>

\* WriteFromEvent: a blocking read of the eventfd, which resets it.
HandleEvent(s) ==
    /\ wpc[s] = "item" /\ items[wevent[s].id] = "Event"
    /\ LET id == wevent[s].id
           r  == rings[s].channel IN
       IF RingWritable(r)
       THEN /\ evt[id] > 0
            /\ ring' = [ring EXCEPT ![r] = Msg("read", id, evt[id], <<>>)]
            /\ evt' = [evt EXCEPT ![id] = 0]
            /\ Goto(s, "isignal") /\ UNCHANGED wfence
       ELSE Halt(s) /\ UNCHANGED <<ring, evt>>
    /\ UNCHANGED <<ctxSide, resample, jobs, ctxres, itemVars, sentVars, wevent, wreply, wfiles,
                   reg, signals, inq, csent, closed, pw, pwrote, pread, evtOpen>>

\* Plausible bug: the fence is signalled and queued again.
SignalAndRequeue(s) ==
    /\ wpc[s] \in {"signal", "isignal", "ssignal"}
    /\ signals' = [signals EXCEPT ![wfence[s]] = @ + 1]
    /\ wfence' = [wfence EXCEPT ![s] = NoFence]
    /\ Goto(s, "idle")
    /\ add_job(s, Job("HandleFence", wfence[s]))
    /\ UNCHANGED <<ctxSide, resample, ctxres, ring, itemVars, sentVars, wevent, wreply,
                   wfiles, reg, peerVars>>

\* fence_handler.call, and back to the job queue.
SignalFence(s) ==
    /\ wpc[s] \in {"signal", "isignal", "ssignal"}
    /\ signals' = [signals EXCEPT ![wfence[s]] = @ + 1]
    /\ wfence' = [wfence EXCEPT ![s] = NoFence]
    /\ Goto(s, "idle")
    /\ UNCHANGED <<ctxSide, resample, jobs, ctxres, ring, itemVars, sentVars, wevent, wreply,
                   wfiles, reg, peerVars>>

-----------------------------------------------------------------------------
(* The environment                                                         *)

hostSide == <<ctxVars, rings, jobs, wakeVars, ctxres, itemVars, workVars, signals>>

\* The guest reads a ring when the fence it waits for is signalled; before the
\* first CMD_INIT there is no ring to read.
GuestRead(f) ==
    /\ ctx \notin {"join", "dropped"}
    /\ f \in created \ read /\ signals[f] > 0
    /\ read' = read \cup {f}
    /\ IF fring[f] # 0
       THEN /\ seen' = Append(seen, ring[fring[f]])
            /\ ring' = [ring EXCEPT ![fring[f]] = NoMsg]
       ELSE UNCHANGED <<seen, ring>>
    /\ UNCHANGED <<hostSide, sentVars, created, fring, peerVars>>

PeerSend(s, files) ==
    /\ HasWorker(s) /\ ~closed[s] /\ csent[s] < MaxMsgs
    /\ inq' = [inq EXCEPT ![s] = Append(@, files)]
    /\ csent' = [csent EXCEPT ![s] = @ + 1]
    /\ UNCHANGED <<hostSide, sentVars, ring, guestVars, closed, pw, pwrote, pread, evtOpen, evt>>

PeerClose(s) ==
    /\ PeerCloses /\ HasWorker(s) /\ ~closed[s]
    /\ closed' = [closed EXCEPT ![s] = TRUE]
    /\ UNCHANGED <<hostSide, sentVars, ring, guestVars, inq, csent, pw, pwrote, pread, evtOpen, evt>>

PeerPipe(id) ==
    /\ pw[id] = "peer"
    /\ \/ /\ pwrote[id] < MaxChunks
          /\ pwrote' = [pwrote EXCEPT ![id] = @ + 1] /\ UNCHANGED pw
       \/ pw' = [pw EXCEPT ![id] = "closed"] /\ UNCHANGED pwrote
    /\ UNCHANGED <<hostSide, sentVars, ring, guestVars, inq, csent, closed, pread, evtOpen, evt>>

PeerEvent(id) ==
    /\ id \in evtOpen
    /\ \/ evt[id] < MaxEvt /\ evt' = [evt EXCEPT ![id] = @ + 1]
       \/ PeerReadsEvents /\ evt[id] > 0 /\ evt' = [evt EXCEPT ![id] = 0]
    /\ UNCHANGED <<hostSide, sentVars, ring, guestVars, inq, csent, closed, pw, pwrote, pread, evtOpen>>

\* A sentinel thread signals its event.
WatcherSignal(id) ==
    /\ watcher[id] = "live" /\ ~sevt[id]
    /\ sevt' = [sevt EXCEPT ![id] = TRUE]
    /\ UNCHANGED <<hostSide, watcher, ring, guestVars, peerVars>>

-----------------------------------------------------------------------------
ContextStep ==
    \/ \E r \in Resources : attach(r) \/ detach(r)
    \/ \E c \in InitCmds : initialize(c)
    \/ get_image_requirements
    \/ \E cmd \in SendCmds : SendBegin(cmd)
    \/ SendIdentifier
    \/ SendFinish
    \/ \E id \in TouchIds, hup \in BOOLEAN : WriteBegin(id, hup)
    \/ WriteEnd
    \/ WriteError
    \/ \E id \in EventIds : read_event_new(id)
    \/ \E id \in ImportIds : import_virtiofs_handle(id)
    \/ \E id \in TouchIds, u \in Uuids : socket_assign_uuid(id, u)
    \/ \E id \in TouchIds : context_create_blob(id)
    \/ \E id \in SentIds : atomic_memory_sentinel_new(id) \/ atomic_memory_sentinel_destroy(id)
    \/ \E f \in Fences : QueryFence(f) \/ ChannelFence(f)
    \/ DropBegin
    \/ DropJoin

WorkerStep(s) ==
    \/ TakeJob(s) \/ Poll(s)
    \/ Receive(s) \/ ReceiveFile(s) \/ ReceiveReply(s)
    \/ HandleResample(s) \/ HandleKill(s)
    \/ HandleSentinel(s) \/ HandleSentinelShutdown(s)
    \/ LookupItem(s) \/ HandlePipe(s) \/ HandleEvent(s)
    \/ SignalFence(s)

Environment ==
    \/ \E f \in Fences : GuestRead(f)
    \/ \E s \in Sessions : PeerClose(s) \/ \E files \in PeerFiles : PeerSend(s, files)
    \/ \E id \in Ids : PeerPipe(id) \/ PeerEvent(id)
    \/ \E id \in SentIds : WatcherSignal(id)

Next == ContextStep \/ (\E s \in Sessions : WorkerStep(s)) \/ Environment

Spec == Init /\ [][Next]_vars

\* The kernel schedules every runnable worker, and send() and drop() go on when
\* they can.  A write may stay blocked in the descriptor it writes to; guests,
\* peers and sentinels owe nothing.
Fairness ==
    /\ \A s \in Sessions : WF_vars(WorkerStep(s))
    /\ WF_vars(SendIdentifier) /\ WF_vars(SendFinish) /\ WF_vars(DropJoin)

FairSpec == Spec /\ Fairness

-----------------------------------------------------------------------------
(* Properties                                                              *)

Busy == {"poll", "event", "files", "item", "signal", "isignal", "ssignal"}

CtxType ==
    /\ ctx \in {"idle", "send", "write", "join", "dropped"}
    /\ send \in [todo : Seq([type : IdentTypes, id : Ids]), pipe : Ids]
    /\ wr \in [id : Ids, ty : ItemTypes, hup : BOOLEAN]
    /\ paths \in BOOLEAN /\ cur \in 0 .. MaxInits /\ chan \in 0 .. MaxInits
    /\ sockets \subseteq Uuids /\ backing \in [Resources -> BOOLEAN]
    /\ rings \in [Sessions -> [query : Resources \cup {0}, channel : Resources \cup {0}]]

SharedType ==
    /\ jobs \in [Sessions -> Seq(Jobs)]
    /\ resample \in [Sessions -> BOOLEAN] /\ kill \in [Sessions -> BOOLEAN]
    /\ ctxres \in [Resources -> {"absent", "iovecs", "bare", "handle"}]
    /\ ring \in [Resources -> Messages]
    /\ items \in [Ids -> ItemTypes \cup {"none"}]
    /\ descriptor_id \in Ids /\ read_pipe_id \in Ids
    /\ watcher \in [SentIds -> {"none", "live", "shutdown"}]
    /\ sevt \in [SentIds -> BOOLEAN]

WorkerType ==
    /\ wpc \in [Sessions -> Busy \cup {"none", "idle", "halted", "done"}]
    /\ wfence \in [Sessions -> Fences \cup {NoFence}]
    /\ wevent \in [Sessions -> [id : Ids, readable : BOOLEAN, hung_up : BOOLEAN]]
    /\ wreply \in [Sessions -> Messages]
    /\ wfiles \in [Sessions -> Seq(FileTypes)]
    /\ reg \in [Sessions -> SUBSET (Ids \X {"item", "job", "manager"})]

GuestType ==
    /\ created \subseteq Fences /\ signals \in [Fences -> Nat]
    /\ fring \in [Fences -> Resources \cup {0}] /\ read \subseteq created
    /\ seen \in Seq(Messages)

PeerType ==
    /\ inq \in [Sessions -> Seq(Seq(FileTypes))] /\ csent \in [Sessions -> Nat]
    /\ closed \in [Sessions -> BOOLEAN]
    /\ pw \in [Ids -> {"none", "host", "peer", "closed"}]
    /\ pwrote \in [Ids -> Nat] /\ pread \in [Ids -> Nat]
    /\ evtOpen \subseteq Ids /\ evt \in [Ids -> Nat]

\* Every variable keeps its type; in particular a queued HandleFence carries a
\* fence, and the guest reads messages and nothing else from its rings.
TypeOK == CtxType /\ SharedType /\ WorkerType /\ GuestType /\ PeerType

\* A guest fence is signalled at most once, whatever the order in which the
\* fences are queued, requeued by a resample or shared out between the workers
\* of successive CMD_INITs (fence_handler.call in worker.rs and context.rs).
SignalOnce == \A f \in Fences : signals[f] <= 1

FS == INSTANCE FenceService

\* The context and its workers are a fence service: across resamples, halted
\* workers, re-initialisation and drop, every step creates one new fence, or
\* signals one that was created and is not signalled, or touches no fence.
FencesImplemented == FS!Spec

IsFenceJob(s, i, f) == jobs[s][i] = Job("HandleFence", f)
Queued(f) == \E s \in Sessions : \E i \in 1 .. Len(jobs[s]) : IsFenceJob(s, i, f)
Held(f) == \E s \in Sessions : wfence[s] = f

\* A fence is never forgotten while the context works: it is signalled, queued
\* or held by a worker, unless a worker has halted on an error or the fence
\* came before the first CMD_INIT (fring 0), which the code drops silently.
FenceAccounted ==
    \A f \in created :
        \/ signals[f] > 0 \/ Queued(f) \/ Held(f)
        \/ fring[f] = 0
        \/ \E s \in Sessions : wpc[s] = "halted"

\* add_item never gives out an id that is in use: every id above the counters
\* is free, but for ids the guest itself chose for an import.
FreshIds ==
    \A id \in Ids \ ImportIds :
        \/ id > descriptor_id /\ id < PipeReadStart
        \/ id > read_pipe_id
        => items[id] = "none"

\* "Signaling the fence means it's okay for the guest to access ring data"
\* (worker.rs): a guest whose channel fence is signalled finds a message it has
\* not read yet.
RingFresh ==
    ctx \in {"idle", "send", "write"} =>
        \A f \in created \ read, s \in Sessions :
            signals[f] > 0 /\ fring[f] # 0 /\ fring[f] = rings[s].channel
                => ring[fring[f]] # NoMsg

\* A message in a channel ring is not replaced before the guest has read it.
RingNotOverwritten ==
    [][\A s \in Sessions :
          LET c == rings[s].channel
          IN  c # 0 => \/ ring[c] = NoMsg
                       \/ ring'[c] \in {ring[c], NoMsg}]_vars

\* Where the guest has read something of a source, end-of-file messages left out.
SeenFrom(kind, src) ==
    {i \in 1 .. Len(seen) : seen[i].kind = kind /\ seen[i].src = src /\ seen[i].n # 0}

\* The k-th that it has read is the k-th of the source.
InOrder(kind, src) ==
    \A i \in SeenFrom(kind, src) :
        seen[i].n = Cardinality({j \in SeenFrom(kind, src) : j <= i})

\* The guest reads the messages of a connection and the data of a pipe in the
\* order they were sent, without gaps and without repetitions.
DeliveredInOrder ==
    /\ \A s \in Sessions : InOrder("receive", s)
    /\ \A id \in PipeReadStart .. MaxPipe : InOrder("read", id)

\* A guest that has been told of a pipe's hang-up has read all that the peer
\* wrote to it.
HangUpAfterData ==
    \A i \in 1 .. Len(seen) :
        seen[i].kind = "read" /\ seen[i].n = 0
            => Cardinality(SeenFrom("read", seen[i].src)) = pwrote[seen[i].src]

\* A pipe handed to the peer is polled in the end, although the worker may be
\* blocked in epoll when the pipe is made, unless the worker ends.
PipeEventuallyPolled ==
    \A s \in Sessions, id \in PipeReadStart .. MaxPipe :
        (\E i \in 1 .. Len(jobs[s]) : jobs[s][i] = Job("AddReadPipe", id))
            ~> (<<id, "item">> \in reg[s] \/ items[id] = "none" \/ Exited(s))

\* Something only the worker can take: a peer's message, a sentinel's event.
Pending(s) ==
    inq[s] # <<>> \/ \E id \in SentIds : sevt[id] /\ <<id, "job">> \in reg[s]

\* A fence that waits while something is pending is signalled or the pending
\* input is taken for an earlier fence, unless the worker ends.
PollServed ==
    \A s \in Sessions, f \in Fences :
        Pending(s) /\ (wfence[s] = f \/ \E i \in 1 .. Len(jobs[s]) : IsFenceJob(s, i, f))
            ~> (signals[f] > 0 \/ Exited(s) \/ ~Pending(s))

\* Dropping a context ends when its worker is that of the latest CMD_INIT: the
\* kill event gets it out of epoll, Finish out of its queue, and it is joined.
\* A later CMD_INIT without a channel (context.rs:203) replaces the state but
\* not worker_thread and kill_evt: Finish then goes to a queue nobody serves,
\* while the worker joined waits for a job in its own, and drop never ends.
DropTerminates == (ctx = "join" /\ chan = cur) ~> ctx = "dropped"

\* "The worker thread must: ... (3) handle jobs from the virtio-gpu thread"
\* (worker.rs): a queued sentinel is taken from the queue in the end.
SentinelJobHandled ==
    \A s \in Sessions, id \in SentIds :
        (\E i \in 1 .. Len(jobs[s]) : jobs[s][i] = Job("AddAtomicMemorySentinel", id))
            ~> (<<id, "job">> \in reg[s] \/ Exited(s))

=============================================================================
