------------------------------- MODULE Kumquat -------------------------------
(***************************************************************************)
(* The Kumquat server (src/kumquat/server): one thread that serves the     *)
(* connections of several clients over one Rutabaga, and the fence handler *)
(* that the renderer's threads call.                                       *)
(*                                                                         *)
(* A command and its reply are one step: only the server's thread touches  *)
(* the tables.  CmdSubmit3d with a fence is three, as the renderer may     *)
(* complete the fence before the reply is sent.  An error of any call      *)
(* leaves run() and main(), and with them the server: "ended" when the     *)
(* server's state is the reason, "failed" when one of Rutabaga's           *)
(* components refuses a call whose ids are right, as it may at any time.   *)
(*                                                                         *)
(* The clients are the virtgpu_kumquat library, which sends one command in *)
(* a packet; Rutabaga is the part of its tables the server depends on.     *)
(***************************************************************************)
EXTENDS Naturals, SequencesExt

CONSTANTS
    Clients,
    Requests,      \* what clients ask for, see RequestOps
    MaxReqs,       \* bound: requests of all clients together, besides their contexts
    MaxIds,        \* bound: ids the server gives out
    MaxBoots       \* bound: times the server is started

RequestOps == {"Query", "CtxCreate", "Create3d", "CreateBlob", "Detach", "Attach", "Transfer",
               "Submit", "SubmitInFences", "SubmitFence", "SubmitShare", "SubmitShareRing",
               "Save", "Restore"}
FencedOps  == {"SubmitFence", "SubmitShare", "SubmitShareRing"}
SharedOps  == {"SubmitShare", "SubmitShareRing"}
\* What a client may ask for and end the server with, see EndedForCause.
RiskyOps   == {"Attach", "Save", "Restore", "SubmitShare", "SubmitInFences"}
\* The library reads the answer before it returns.
ReplyOps   == {"Query", "CtxCreate", "Create3d", "CreateBlob", "Save", "Restore"} \cup FencedOps

ASSUME KumquatAssumption ==
    Requests \subseteq RequestOps /\ {MaxReqs, MaxIds} \subseteq Nat /\ MaxBoots \in Nat \ {0}

\* One counter gives out all ids.
Ids == 1..MaxIds
Boots == 1..MaxBoots
FenceIds == Boots \X Ids
\* Connection ids count up from 0, the listener's.
EventType == [id : Nat, readable : BOOLEAN, hung_up : BOOLEAN]
CmdType == [op : RequestOps \cup {"CtxDestroy"}, ctx : Ids \cup {0}, res : Ids \cup {0}]
SubmitType == [step : {"create", "reply"}, c : Clients, event : EventType, id : Ids, op : FencedOps]
Cmd(op, ctx, res) == [op |-> op, ctx |-> ctx, res |-> res]

VARIABLES
    server,        \* "run", "ended" or "failed"
    boot,          \* which process this is
    connection_id, connections, wait_ctx,
    events,        \* of the last wait, not handled yet
    submit,        \* the fenced CmdSubmit3d in hand
    id_allocator, resources, pending_fences,
    rutabaga,      \* its contexts, resources, those with iovecs, fences
    snap,          \* SNAPSHOT_DIR, which outlives the server
    backlog, peer, conn, inbox, outbox, broken, \* the sockets
    waiting, ctx, bos, left,                    \* the library's side
    created, signals,  \* history: emulated fences and their eventfds
    faults             \* history: what clients did that can end the server

connVars  == <<connection_id, connections, wait_ctx, events>>
gpuVars   == <<id_allocator, resources, rutabaga>>
fenceVars == <<pending_fences, created, signals>>
sockVars  == <<backlog, peer, conn, broken>>
libVars   == <<waiting, ctx, bos, left, faults>>
vars == <<server, boot, connVars, submit, gpuVars, fenceVars, snap, sockVars, inbox, outbox, libVars>>

NoEvent  == [id |-> 0, readable |-> FALSE, hung_up |-> FALSE]
NoSubmit == [step |-> "none", c |-> "none", event |-> NoEvent, id |-> 0, op |-> "none"]
NoTables == [ctx |-> {}, res |-> {}, backed |-> {}, fences |-> {}, shareable |-> {}]
NoResources == [r \in {} |-> 0]
EmptySnap == [dir |-> FALSE, taken |-> FALSE, ctx |-> {}, res |-> {}]

\* KumquatBuilder::build and KumquatGpu::new; the clients are new as well.
Started ==
    /\ server' = "run"
    /\ connection_id' = 0 /\ connections' = {0} /\ wait_ctx' = {0} /\ events' = {}
    /\ submit' = NoSubmit
    /\ id_allocator' = 0 /\ resources' = NoResources /\ pending_fences' = {}
    /\ rutabaga' = NoTables
    /\ backlog' = {} /\ peer' = [c \in Clients |-> "off"] /\ conn' = [c \in Clients |-> 0]
    /\ inbox' = [c \in Clients |-> <<>>] /\ outbox' = [c \in Clients |-> <<>>]
    /\ broken' = [c \in Clients |-> FALSE]
    /\ waiting' = [c \in Clients |-> "no"] /\ ctx' = [c \in Clients |-> 0]
    /\ bos' = [c \in Clients |-> {}] /\ faults' = {}

Init ==
    /\ server = "run" /\ boot = 1
    /\ connection_id = 0 /\ connections = {0} /\ wait_ctx = {0} /\ events = {}
    /\ submit = NoSubmit
    /\ id_allocator = 0 /\ resources = NoResources /\ pending_fences = {}
    /\ rutabaga = NoTables /\ snap = EmptySnap
    /\ backlog = {} /\ peer = [c \in Clients |-> "off"] /\ conn = [c \in Clients |-> 0]
    /\ inbox = [c \in Clients |-> <<>>] /\ outbox = [c \in Clients |-> <<>>]
    /\ broken = [c \in Clients |-> FALSE]
    /\ waiting = [c \in Clients |-> "no"] /\ ctx = [c \in Clients |-> 0]
    /\ bos = [c \in Clients |-> {}] /\ left = MaxReqs
    /\ created = {} /\ signals = [f \in FenceIds |-> 0] /\ faults = {}

-----------------------------------------------------------------------------
(* Clients: the virtgpu_kumquat library, and processes that are killed     *)

Connect(c) ==
    /\ server = "run" /\ peer[c] = "off"
    /\ peer' = [peer EXCEPT ![c] = "open"] /\ backlog' = backlog \cup {c}
    /\ UNCHANGED <<server, boot, connVars, submit, gpuVars, fenceVars, snap, conn, broken,
                   inbox, outbox, libVars>>

\* Ids of resources that other clients have exported to c.
Shared(c) == UNION {bos[d] : d \in Clients \ {c}} \ bos[c]

\* What the library lets c ask for.
Askable(c) ==
    {Cmd(op, ctx[c], 0) : op \in Requests \cap {"Query", "Save", "Restore"}}
    \cup {Cmd(op, 0, 0) : op \in {x \in Requests : x = "CtxCreate" /\ ctx[c] = 0}}
    \cup (IF ctx[c] = 0 THEN {} ELSE
          {Cmd(op, ctx[c], 0) : op \in Requests \cap ({"Create3d", "CreateBlob", "Submit", "SubmitInFences"}
                                                   \cup FencedOps)}
          \cup {Cmd(op, ctx[c], r) : op \in Requests \cap {"Detach", "Transfer"}, r \in bos[c]}
          \cup {Cmd(op, ctx[c], r) : op \in Requests \cap {"Attach"}, r \in Shared(c)})

Request(c) ==
    /\ peer[c] = "open" /\ waiting[c] = "no"
    /\ \E m \in Askable(c) :
        /\ m.op = "CtxCreate" \/ left > 0
        /\ inbox' = [inbox EXCEPT ![c] = Append(@, m)]
        /\ left' = IF m.op = "CtxCreate" THEN left ELSE left - 1
        /\ waiting' = [waiting EXCEPT ![c] = IF m.op \in ReplyOps THEN "reply"
                                             ELSE IF m.op = "Transfer" THEN "event" ELSE "no"]
        /\ bos' = [bos EXCEPT ![c] = IF m.op = "Detach" THEN @ \ {m.res}
                                     ELSE IF m.op = "Attach" THEN @ \cup {m.res} ELSE @]
        /\ faults' = faults \cup ({m.op} \cap RiskyOps)
    /\ UNCHANGED <<server, boot, connVars, submit, gpuVars, fenceVars, snap, sockVars, outbox, ctx>>

ReadReply(c) ==
    /\ peer[c] = "open" /\ outbox[c] # <<>>
    /\ LET m == Head(outbox[c]) IN
        /\ ctx' = IF m.op = "CtxCreate" THEN [ctx EXCEPT ![c] = m.ctx] ELSE ctx
        /\ bos' = IF m.op \in {"Create3d", "CreateBlob"} THEN [bos EXCEPT ![c] = @ \cup {m.res}] ELSE bos
    /\ outbox' = [outbox EXCEPT ![c] = Tail(@)]
    /\ waiting' = [waiting EXCEPT ![c] = "no"]
    /\ UNCHANGED <<server, boot, connVars, submit, gpuVars, fenceVars, snap, sockVars, inbox, left, faults>>

\* What the Drop of a client with a context sends.
DropCmds(c) ==
    [i \in 1..Cardinality(bos[c]) |-> Cmd("Detach", ctx[c], SetToSeq(bos[c])[i])]
    \o <<Cmd("CtxDestroy", ctx[c], 0)>>

\* Drop for VirtGpuKumquat detaches everything, destroys the context and waits
\* for no answer; then the socket is closed.
Drop(c) ==
    /\ peer[c] = "open" /\ waiting[c] = "no"
    /\ waiting' = [waiting EXCEPT ![c] = "drop"]
    /\ inbox' = [inbox EXCEPT ![c] = IF ctx[c] = 0 THEN @ ELSE @ \o DropCmds(c)]
    /\ ctx' = [ctx EXCEPT ![c] = 0] /\ bos' = [bos EXCEPT ![c] = {}]
    /\ UNCHANGED <<server, boot, connVars, submit, gpuVars, fenceVars, snap, sockVars,
                   outbox, left, faults>>

Close(c) ==
    /\ peer[c] = "open" /\ waiting[c] = "drop"
    /\ peer' = [peer EXCEPT ![c] = "closed"]
    /\ UNCHANGED <<server, boot, connVars, submit, gpuVars, fenceVars, snap, backlog, conn, broken,
                   inbox, outbox, libVars>>

\* The process dies.  A reply it has not read makes the server's next read fail.
Crash(c) ==
    /\ peer[c] = "open" /\ waiting[c] # "drop"
    /\ peer' = [peer EXCEPT ![c] = "closed"]
    /\ broken' = [broken EXCEPT ![c] = outbox[c] # <<>>]
    /\ outbox' = [outbox EXCEPT ![c] = <<>>] /\ waiting' = [waiting EXCEPT ![c] = "no"]
    /\ bos' = [bos EXCEPT ![c] = {}] /\ ctx' = [ctx EXCEPT ![c] = 0]
    /\ faults' = faults \cup {"Crash"}
    /\ UNCHANGED <<server, boot, connVars, submit, gpuVars, fenceVars, snap, backlog, conn, inbox, left>>

-----------------------------------------------------------------------------
(* Kumquat::run                                                            *)

Idle == server = "run" /\ submit.step = "none"
Fail ==
    /\ server' = "ended"
    /\ UNCHANGED <<boot, connVars, submit, gpuVars, fenceVars, snap, sockVars, inbox, outbox, libVars>>

\* epoll is level-triggered; a closed peer is readable and hung up.
Ready ==
    {[id |-> 0, readable |-> TRUE, hung_up |-> FALSE] : x \in backlog}
    \cup {[id |-> conn[c], readable |-> TRUE, hung_up |-> peer[c] = "closed"] :
              c \in {d \in Clients : conn[d] \in wait_ctx \ {0}
                                     /\ (inbox[d] # <<>> \/ peer[d] = "closed")}}

Wait ==
    /\ Idle /\ events = {} /\ Ready # {}
    /\ events' = Ready
    /\ UNCHANGED <<server, boot, connection_id, connections, wait_ctx, submit, gpuVars, fenceVars,
                   snap, sockVars, inbox, outbox, libVars>>

Accept(e) ==
    /\ Idle /\ e \in events /\ e.id = 0
    /\ \E c \in backlog :
        /\ backlog' = backlog \ {c} /\ conn' = [conn EXCEPT ![c] = connection_id + 1]
        /\ connection_id' = connection_id + 1
        /\ wait_ctx' = wait_ctx \cup {connection_id + 1}
        /\ connections' = connections \cup {connection_id + 1}
    /\ events' = events \ {e}
    /\ UNCHANGED <<server, boot, submit, gpuVars, fenceVars, snap, peer, broken, inbox, outbox, libVars>>

\* Plausible bug: the end of a stream is an error.
NoDataFails(c, e) ==
    /\ Idle /\ e \in events /\ e.id # 0 /\ e.id = conn[c]
    /\ e.id \notin connections \/ broken[c] \/ inbox[c] = <<>>
    /\ Fail

\* A read that fails or finds nothing.  "No data" makes process_command
\* return true, and hung_up = !true && event.hung_up keeps the connection.
NoData(c, e) ==
    /\ Idle /\ e \in events /\ e.id # 0 /\ e.id = conn[c]
    /\ e.id \notin connections \/ broken[c] \/ inbox[c] = <<>>
    /\ IF e.id \notin connections \/ broken[c]
       THEN Fail
       ELSE /\ events' = events \ {e}
            /\ UNCHANGED <<server, boot, connection_id, connections, wait_ctx, submit, gpuVars,
                           fenceVars, snap, sockVars, inbox, outbox, libVars>>

\* The next packet of c is command op.
Reads(c, e, op) ==
    /\ Idle /\ e \in events /\ e.id # 0 /\ e.id = conn[c] /\ e.id \in connections
    /\ ~broken[c] /\ inbox[c] # <<>> /\ Head(inbox[c]).op = op
    /\ inbox' = [inbox EXCEPT ![c] = Tail(@)]

\* Plausible bug: the connection goes whenever a command was processed.
HangUpAlways(e) ==
    /\ events' = events \ {e}
    /\ connections' = connections \ {e.id} /\ wait_ctx' = wait_ctx \ {e.id}
    /\ UNCHANGED connection_id

\* After a command: a peer that had hung up when the batch was taken is
\* removed, with whatever it sent besides.
Processed(e) ==
    /\ events' = events \ {e}
    /\ connections' = IF e.hung_up THEN connections \ {e.id} ELSE connections
    /\ wait_ctx' = IF e.hung_up THEN wait_ctx \ {e.id} ELSE wait_ctx
    /\ UNCHANGED connection_id

\* stream.write fails with EPIPE when the peer is gone.
Reply(c, m) ==
    IF peer[c] = "closed" THEN server' = "ended" /\ UNCHANGED outbox
    ELSE outbox' = [outbox EXCEPT ![c] = Append(@, m)] /\ UNCHANGED server

HeadOf(c) == Head(inbox[c])
Refused == server' = "ended" /\ UNCHANGED <<connVars, outbox>>

\* A component or context of Rutabaga returns an error, or panics, for reasons
\* of its own.  What it leaves in the tables goes with the process.
ComponentFails == server' = "failed" /\ UNCHANGED <<connVars, outbox>>

-----------------------------------------------------------------------------
(* process_command                                                         *)

\* GetNumCapsets, GetCapsetInfo, GetCapset
Query(c, e) ==
    /\ Reads(c, e, "Query")
    /\ ComponentFails \/ (Reply(c, Cmd("Query", 0, 0)) /\ Processed(e))
    /\ UNCHANGED <<boot, submit, gpuVars, fenceVars, snap, sockVars, libVars>>

\* Plausible bug: the counter is returned before it is incremented.
PostIncrement == id_allocator

allocate_id == id_allocator + 1

CtxCreate(c, e) ==
    /\ Reads(c, e, "CtxCreate")
    /\ allocate_id <= MaxIds /\ id_allocator' = allocate_id
    /\ \/ ComponentFails /\ UNCHANGED rutabaga
       \/ IF allocate_id \in rutabaga.ctx THEN Refused /\ UNCHANGED rutabaga
          ELSE /\ rutabaga' = [rutabaga EXCEPT !.ctx = @ \cup {allocate_id}]
               /\ Reply(c, Cmd("CtxCreate", allocate_id, 0)) /\ Processed(e)
    /\ UNCHANGED <<boot, submit, resources, fenceVars, snap, sockVars, libVars>>

CtxDestroy(c, e) ==
    /\ Reads(c, e, "CtxDestroy")
    /\ IF HeadOf(c).ctx \notin rutabaga.ctx THEN Refused /\ UNCHANGED rutabaga
       ELSE /\ rutabaga' = [rutabaga EXCEPT !.ctx = @ \ {HeadOf(c).ctx}]
            /\ Processed(e) /\ UNCHANGED <<server, outbox>>
    /\ UNCHANGED <<boot, submit, id_allocator, resources, fenceVars, snap, sockVars, libVars>>

\* Rutabaga's context is told; attached_contexts is not.
CtxAttachResource(c, e) ==
    /\ Reads(c, e, "Attach")
    /\ IF HeadOf(c).ctx \in rutabaga.ctx /\ HeadOf(c).res \in rutabaga.res
       THEN Processed(e) /\ UNCHANGED <<server, outbox>> ELSE Refused
    /\ UNCHANGED <<boot, submit, gpuVars, fenceVars, snap, sockVars, libVars>>

\* Plausible bug: only resources with a mapping are released in Rutabaga.
ReleaseMapped(r, ctxs) ==
    IF ctxs # {} THEN resources' = [resources EXCEPT ![r].ctxs = ctxs] /\ UNCHANGED rutabaga
    ELSE /\ resources' = Restrict(resources, DOMAIN resources \ {r})
         /\ rutabaga' = IF resources[r].mapping
                        THEN [rutabaga EXCEPT !.res = @ \ {r}, !.backed = @ \ {r}] ELSE rutabaga

\* Plausible bug: the backing is not detached first.
ReleaseAttached(r, ctxs) ==
    IF ctxs # {} THEN resources' = [resources EXCEPT ![r].ctxs = ctxs] /\ UNCHANGED rutabaga
    ELSE /\ resources' = Restrict(resources, DOMAIN resources \ {r})
         /\ rutabaga' = [rutabaga EXCEPT !.res = @ \ {r}]

\* attached_contexts without the context that detached: the last one out
\* detaches the backing if there is a mapping, and releases the resource.
Release(r, ctxs) ==
    IF ctxs # {} THEN resources' = [resources EXCEPT ![r].ctxs = ctxs] /\ UNCHANGED rutabaga
    ELSE /\ resources' = Restrict(resources, DOMAIN resources \ {r})
         /\ rutabaga' = [rutabaga EXCEPT !.res = @ \ {r},
                                         !.backed = IF resources[r].mapping THEN @ \ {r} ELSE @]

CtxDetachResource(c, e) ==
    /\ Reads(c, e, "Detach")
    /\ LET m == HeadOf(c) IN
       IF m.ctx \in rutabaga.ctx /\ m.res \in rutabaga.res /\ m.res \in DOMAIN resources
       THEN /\ Release(m.res, resources[m.res].ctxs \ {m.ctx})
            /\ Processed(e) /\ UNCHANGED <<server, outbox>>
       ELSE Refused /\ UNCHANGED <<resources, rutabaga>>
    /\ UNCHANGED <<boot, submit, id_allocator, fenceVars, snap, sockVars, libVars>>

NewResource(r, ctxs, mapping) ==
    [x \in DOMAIN resources \cup {r} |->
        IF x = r THEN [ctxs |-> ctxs, mapping |-> mapping] ELSE resources[x]]

\* Shared memory becomes the backing, and the client gets its descriptor.
ResourceCreate3d(c, e) ==
    /\ Reads(c, e, "Create3d")
    /\ allocate_id <= MaxIds /\ id_allocator' = allocate_id
    /\ \/ ComponentFails /\ UNCHANGED <<rutabaga, resources>>
       \/ IF allocate_id \in rutabaga.res \/ HeadOf(c).ctx \notin rutabaga.ctx
          THEN Refused /\ UNCHANGED <<rutabaga, resources>>
          ELSE /\ rutabaga' = [rutabaga EXCEPT !.res = @ \cup {allocate_id},
                                               !.backed = @ \cup {allocate_id}]
               /\ resources' = NewResource(allocate_id, {}, TRUE)
               /\ Reply(c, Cmd("Create3d", 0, allocate_id)) /\ Processed(e)
    /\ UNCHANGED <<boot, submit, fenceVars, snap, sockVars, libVars>>

\* create_blob, export_blob; the context is attached after the reply.
ResourceCreateBlob(c, e) ==
    /\ Reads(c, e, "CreateBlob")
    /\ allocate_id <= MaxIds /\ id_allocator' = allocate_id
    /\ \/ ComponentFails /\ UNCHANGED <<rutabaga, resources>>
       \/ IF allocate_id \in rutabaga.res \/ HeadOf(c).ctx \notin rutabaga.ctx
          THEN Refused /\ UNCHANGED <<rutabaga, resources>>
          ELSE /\ rutabaga' = [rutabaga EXCEPT !.res = @ \cup {allocate_id}]
               /\ resources' = NewResource(allocate_id, {HeadOf(c).ctx}, FALSE)
               /\ Reply(c, Cmd("CreateBlob", 0, allocate_id)) /\ Processed(e)
    /\ UNCHANGED <<boot, submit, fenceVars, snap, sockVars, libVars>>

\* TransferToHost3d and TransferFromHost3d signal the event the client sent.
TransferHost3d(c, e) ==
    /\ Reads(c, e, "Transfer")
    /\ \/ ComponentFails /\ UNCHANGED waiting
       \/ IF HeadOf(c).res \in rutabaga.res
          THEN /\ waiting' = [waiting EXCEPT ![c] = IF @ = "event" THEN "no" ELSE @]
               /\ Processed(e) /\ UNCHANGED <<server, outbox>>
          ELSE Refused /\ UNCHANGED waiting
    /\ UNCHANGED <<boot, submit, gpuVars, fenceVars, snap, sockVars, ctx, bos, left, faults>>

\* CmdSubmit3d without RUTABAGA_FLAG_FENCE
CmdSubmit3d(c, e) ==
    /\ Reads(c, e, "Submit")
    /\ \/ ComponentFails
       \/ IF HeadOf(c).ctx \in rutabaga.ctx
          THEN Processed(e) /\ UNCHANGED <<server, outbox>> ELSE Refused
    /\ UNCHANGED <<boot, submit, gpuVars, fenceVars, snap, sockVars, libVars>>

\* KumquatStream::read takes num_in_fences ids from the packet, where the
\* library put none, and then finds too little of the commands.
CmdSubmitInFences(c, e) ==
    /\ Reads(c, e, "SubmitInFences") /\ Refused
    /\ UNCHANGED <<boot, submit, gpuVars, fenceVars, snap, sockVars, libVars>>

\* Plausible bug: the fence gets the last id given out.
SubmitOldId(c, e, op) ==
    /\ op \in FencedOps /\ Reads(c, e, op)
    /\ \/ (ComponentFails \/ (HeadOf(c).ctx \notin rutabaga.ctx /\ Refused))
          /\ UNCHANGED <<submit, pending_fences, created>>
       \/ /\ HeadOf(c).ctx \in rutabaga.ctx
          /\ submit' = [step |-> "create", c |-> c, event |-> e, id |-> id_allocator, op |-> op]
          /\ IF op \in SharedOps THEN UNCHANGED <<pending_fences, created>>
             ELSE /\ pending_fences' = pending_fences \cup {id_allocator}
                  /\ created' = created \cup {<<boot, id_allocator>>}
          /\ UNCHANGED <<server, connVars, outbox>>
    /\ UNCHANGED <<boot, gpuVars, signals, snap, sockVars, libVars>>

\* With the flag: the emulated fence is in the table before the renderer
\* hears of it, and the lock is free again.
CmdSubmit3dFence(c, e, op) ==
    /\ op \in FencedOps /\ Reads(c, e, op) /\ allocate_id <= MaxIds
    /\ \/ (ComponentFails \/ (HeadOf(c).ctx \notin rutabaga.ctx /\ Refused))
          /\ UNCHANGED <<id_allocator, submit, pending_fences, created>>
       \/ /\ HeadOf(c).ctx \in rutabaga.ctx
          /\ id_allocator' = allocate_id
          /\ submit' = [step |-> "create", c |-> c, event |-> e, id |-> allocate_id, op |-> op]
          /\ IF op \in SharedOps THEN UNCHANGED <<pending_fences, created>>
             ELSE /\ pending_fences' = pending_fences \cup {allocate_id}
                  /\ created' = created \cup {<<boot, allocate_id>>}
          /\ UNCHANGED <<server, connVars, outbox>>
    /\ UNCHANGED <<boot, resources, rutabaga, signals, snap, sockVars, libVars>>

\* rutabaga.create_fence; when it fails, the event stays in pending_fences and
\* goes with the process.
CreateFence ==
    /\ server = "run" /\ submit.step = "create"
    /\ \/ ComponentFails /\ UNCHANGED <<submit, rutabaga>>
       \/ /\ submit' = [submit EXCEPT !.step = "reply"]
          /\ rutabaga' = [rutabaga EXCEPT !.fences = @ \cup {submit.id},
                 !.shareable = IF submit.op = "SubmitShareRing" THEN @ \cup {submit.id} ELSE @]
          /\ UNCHANGED <<server, connVars, outbox>>
    /\ UNCHANGED <<boot, id_allocator, resources, fenceVars, snap, sockVars, inbox, libVars>>

\* A shareable fence is exported and destroyed, which fails unless the core
\* keeps its handle; then the reply.
FinishSubmit ==
    /\ server = "run" /\ submit.step = "reply"
    /\ submit' = NoSubmit
    /\ IF submit.op \in SharedOps /\ submit.id \notin rutabaga.shareable
       THEN Refused
       ELSE Reply(submit.c, Cmd(submit.op, 0, 0)) /\ Processed(submit.event)
    /\ rutabaga' = [rutabaga EXCEPT !.shareable = @ \ {submit.id}]
    /\ UNCHANGED <<boot, id_allocator, resources, fenceVars, snap, sockVars, inbox, libVars>>

\* Plausible bug: the handler looks the event up and leaves it in the table.
HandlerGets(f) ==
    /\ server = "run" /\ f \in rutabaga.fences
    /\ rutabaga' = [rutabaga EXCEPT !.fences = @ \ {f}]
    /\ signals' = IF f \in pending_fences THEN [signals EXCEPT ![<<boot, f>>] = @ + 1] ELSE signals
    /\ UNCHANGED <<server, boot, connVars, submit, id_allocator, resources, pending_fences,
                   created, snap, sockVars, inbox, outbox, libVars>>

\* The handler of create_fence_handler, under the lock.
FenceHandler(f) ==
    /\ server = "run" /\ f \in rutabaga.fences
    /\ rutabaga' = [rutabaga EXCEPT !.fences = @ \ {f}]
    /\ pending_fences' = pending_fences \ {f}
    /\ signals' = IF f \in pending_fences THEN [signals EXCEPT ![<<boot, f>>] = @ + 1] ELSE signals
    /\ UNCHANGED <<server, boot, connVars, submit, id_allocator, resources, created, snap,
                   sockVars, inbox, outbox, libVars>>

\* Only Rutabaga's tables are saved: not resources, not id_allocator.  The
\* component's directory is made by create_dir, which fails when it is there:
\* there is one attempt, and the next one, by whatever server, is refused.
SnapshotSave(c, e) ==
    /\ Reads(c, e, "Save")
    /\ \/ snap.dir /\ Refused /\ UNCHANGED snap
       \/ ~snap.dir /\ ComponentFails /\ snap' = [snap EXCEPT !.dir = TRUE]
       \/ /\ ~snap.dir
          /\ snap' = [dir |-> TRUE, taken |-> TRUE, ctx |-> rutabaga.ctx, res |-> rutabaga.res]
          /\ Reply(c, Cmd("Save", 0, 0)) /\ Processed(e)
    /\ UNCHANGED <<boot, submit, gpuVars, fenceVars, sockVars, libVars>>

SnapshotRestore(c, e) ==
    /\ Reads(c, e, "Restore")
    /\ \/ ~snap.taken /\ Refused /\ UNCHANGED rutabaga
       \/ snap.taken /\ ComponentFails /\ UNCHANGED rutabaga
       \/ /\ snap.taken
          /\ rutabaga' = [rutabaga EXCEPT !.ctx = snap.ctx, !.res = snap.res, !.backed = {}]
          /\ Reply(c, Cmd("Restore", 0, 0)) /\ Processed(e)
    /\ UNCHANGED <<boot, submit, id_allocator, resources, fenceVars, snap, sockVars, libVars>>

\* The server is started again.
Restart ==
    /\ server # "run" /\ boot < MaxBoots
    /\ boot' = boot + 1
    /\ Started
    /\ UNCHANGED <<snap, created, signals, left>>

-----------------------------------------------------------------------------
Process(c, e) ==
    \/ NoData(c, e) \/ Query(c, e) \/ CtxCreate(c, e) \/ CtxDestroy(c, e)
    \/ CtxAttachResource(c, e) \/ CtxDetachResource(c, e)
    \/ ResourceCreate3d(c, e) \/ ResourceCreateBlob(c, e) \/ TransferHost3d(c, e)
    \/ CmdSubmit3d(c, e) \/ CmdSubmitInFences(c, e) \/ SnapshotSave(c, e) \/ SnapshotRestore(c, e)

\* The server's thread.
Run ==
    \/ Wait \/ CreateFence \/ FinishSubmit
    \/ \E e \in events : Accept(e)
    \/ \E e \in events, c \in Clients : Process(c, e)
    \/ \E e \in events, c \in Clients, op \in FencedOps : CmdSubmit3dFence(c, e, op)

Next ==
    \/ Run
    \/ \E f \in Ids : FenceHandler(f)
    \/ \E c \in Clients : Connect(c) \/ Request(c) \/ ReadReply(c) \/ Drop(c) \/ Close(c) \/ Crash(c)
    \/ Restart

Spec == Init /\ [][Next]_vars

-----------------------------------------------------------------------------
(* Properties                                                              *)

ServerType ==
    /\ server \in {"run", "ended", "failed"} /\ boot \in Boots
    /\ connection_id \in Nat /\ connections \subseteq 0..connection_id /\ wait_ctx \subseteq connections
    /\ events \subseteq EventType
    /\ submit = NoSubmit \/ submit \in SubmitType
GpuType ==
    /\ id_allocator \in Ids \cup {0}
    /\ DOMAIN resources \subseteq Ids
    /\ resources \in [DOMAIN resources -> [ctxs : SUBSET Ids, mapping : BOOLEAN]]
    /\ rutabaga \in [ctx : SUBSET Ids, res : SUBSET Ids, backed : SUBSET Ids,
                     fences : SUBSET Ids, shareable : SUBSET Ids]
    /\ snap \in [dir : BOOLEAN, taken : BOOLEAN, ctx : SUBSET Ids, res : SUBSET Ids]
SocketType ==
    /\ backlog \subseteq Clients /\ peer \in [Clients -> {"off", "open", "closed"}]
    /\ conn \in [Clients -> 0..connection_id] /\ broken \in [Clients -> BOOLEAN]
    /\ inbox \in [Clients -> Seq(CmdType)] /\ outbox \in [Clients -> Seq(CmdType)]
ClientType ==
    /\ waiting \in [Clients -> {"no", "reply", "event", "drop"}]
    /\ ctx \in [Clients -> Ids \cup {0}] /\ bos \in [Clients -> SUBSET (Ids \cup {0})]
    /\ left \in 0..MaxReqs
    /\ faults \subseteq RiskyOps \cup {"Crash"}
FenceType ==
    pending_fences \subseteq Ids /\ created \subseteq FenceIds /\ signals \in [FenceIds -> Nat]

\* Every variable keeps its type; in particular no context, resource or
\* fence has the id 0, which the library takes for none (allocate_id).
TypeOK == ServerType /\ GpuType /\ SocketType /\ ClientType /\ FenceType

FS == INSTANCE FenceService WITH Fences <- FenceIds

\* Emulated fences are fences: signalled at most once, and after they were
\* handed out (create_fence_handler, CmdSubmit3d).
FencesImplemented == FS!Spec

\* Every event in pending_fences has a fence the renderer was given and has not
\* completed: no completion has passed before the event was put there.  That it
\* completes the fence is the renderer's to promise; contexts of the magma
\* component never call the handler.
PendingOwed ==
    server = "run" => \A f \in pending_fences :
        f \in rutabaga.fences \/ (submit.step = "create" /\ submit.id = f)

\* Rutabaga's iovecs point into mappings the server still has (the Drop of
\* KumquatGpuResource unmaps them), through every order of detaches, hang-ups
\* and restores.
BackingMapped ==
    server = "run" =>
        \A r \in rutabaga.backed : r \in DOMAIN resources /\ resources[r].mapping

\* The server's table of resources is Rutabaga's, as long as nothing was
\* restored: neither leaks what the other released.
TablesAgree ==
    server = "run" /\ "Restore" \notin faults => DOMAIN resources = rutabaga.res

\* When Rutabaga's components refuse nothing, the server ends only for one of
\* six causes: a client that dies with an answer under way, a shared resource
\* (the first to detach releases it), a restore (the tables no longer agree), a
\* second snapshot (its directory is there), a shareable fence without a ring,
\* fences to wait for (their ids are not in the packet).  Whatever else clients
\* do, closing included, does not end the server for the others.
EndedForCause == server = "ended" => faults # {}

\* The connection of a client that is there is never removed, and the table
\* agrees with epoll.
ConnectionKept ==
    server = "run" =>
        /\ connections = wait_ctx
        /\ \A c \in Clients : peer[c] = "open" =>
              c \in backlog \/ (conn[c] # 0 /\ conn[c] \in connections)

=============================================================================
