# A TLA+ model of rutabaga_gfx

rutabaga_gfx is a paravirtualised graphics library. A VMM feeds it the
virtio-gpu commands of a guest, and it forwards them to one of several
*components*: 2D, virglrenderer, gfxstream, Magma, and *cross-domain*, which
is implemented in this repository and connects the guest to sockets of the host
(Wayland, for instance). This directory holds a model of it, the TLC
configurations that check the model on small instances, and TLAPS proofs for
all instances. Line numbers refer to the sources under `src/`.

## 1. Inventory

| component | state it keeps | operations | what makes it correct |
|---|---|---|---|
| Cross-domain context (`cross_domain/context.rs`, `common.rs`) | session state (rings, job queue, connection), item table and id counters, attached resources, internal sockets, events, worker handle | CMD_INIT, GET_IMAGE_REQUIREMENTS, SEND, WRITE, READ_CREATE_EVENT, IMPORT_VIRTIOFS_HANDLE, ASSIGN_SOCKET_UUID, the sentinel commands; attach, detach, create_blob, create_fence, drop | ids in use are not handed out again; every fence is signalled once; drop ends |
| Cross-domain worker (`cross_domain/worker.rs`) | its epoll set, the fence in hand, the event it serves | job loop, `handle_fence`, `process_receive` | a signalled fence means a fresh message in the ring; order; hang-up after data |
| Atomic memory sentinels (`atomic_memory_sentinel_manager.rs`) | map of watchers, one thread and one eventfd each, a futex word shared with other processes | create, signal, destroy, the watcher thread, the worker's handling of events | wakes are reported; shutdown returns; no thread is left behind |
| Kernel wrappers (vendored `magma-gpu-rs/lib/util`) | eventfd, epoll, pipe, socket, futex | as named | modelled as the cross-domain code uses them |
| Rutabaga core (`rutabaga_core.rs`) | tables of resources, contexts and components; the default component; capsets | builder; create, import, attach, detach, transfer, map, unmap, export, unref; contexts; fences; snapshot, restore | tables and components agree; handles and mappings are not lost; restored resources behave as before |
| 2D component (`rutabaga_2d.rs`) | host memory of a resource | `transfer_2d` over chunked guest memory | copies what a byte-by-byte copy would |
| gfxstream, virglrenderer (`gfxstream.rs`, `virgl_renderer.rs`) | in the C libraries | wrappers of their entry points | each create has one unref, each map one unmap |
| Magma (`magma/`) | attached resources | stubs around the Magma library | little beyond the core |
| Gralloc (`rutabaga_gralloc/`) | allocation backends; minigbm's stashed buffer | choice of the backend, image layout, memory type, allocate, import and map | planes lie inside the allocation; a blob is the image that was promised; capsets tell the truth |
| C interface (`ffi/src/lib.rs`) | raw pointers of the VMM, the debug handler | one wrapper per core operation | order of init, use and finish |
| Kumquat (`kumquat/server/`) | connections, resources with their mappings, events of emulated fences, one id counter; Rutabaga below | connection loop, one handler per command, the fence handler, restart | fences are signalled once and after they are handed out; no iovec outlives its mapping; one client does not end the service of another |

How the parts interact. The VMM calls the core from one thread (the core "assumes
a single-threaded library"). The core dispatches to the default component, or
to the context named in the call. A cross-domain context shares its job queue,
item table and attached resources with its worker thread, behind locks; it
wakes the worker through two eventfds (resample and kill). The worker answers the
guest by writing a *ring* (guest memory of an attached resource) and calling the
fence handler. A watcher thread per sentinel signals an eventfd that the worker
polls. The cross-domain contexts share one Gralloc. Kumquat is a VMM of its own kind: the clients of
its socket take the place of the guest, and fences are eventfds that it signals from the renderer's threads.

Where the difficulty is. Threads that meet in a queue, a table and an epoll set;
one message per fence, so that everything else has to wait in the right order;
a job that must reach a worker blocked in epoll; ids that share a number space
with reserved ones; several CMD_INITs of one context; the lost-wake-up problem
of the futex. In the core: operations that take something out of a table before
they can fail, and the restoration of a snapshot. In 2D: two walks, over chunks and over lines, in one loop. In
Gralloc: state that one context leaves for all others. In Kumquat: fences that complete before they are handed out, hang-ups
with data, and errors that leave the main loop. `PROJECT.json` lists the
hazards with their lines.

## 2. Modules

**`CrossDomain`** is the context and its workers. A *session* is one successful
CMD_INIT, which has its own job queue, rings, events and connection. The VMM
thread runs one command at a time; commands that can be seen half done (SEND adds
items one lock at a time, WRITE may block in the descriptor, drop joins the
worker) are several steps, and `ctx` says where it is. A worker is `wpc[s]`, from
`idle` (waiting for a job) through `poll` (in epoll) to `event` and the handler
of the first event that epoll returned; `wfence[s]` is the fence in hand. A
lock is modelled where it is held over something that may block:
`ItemsFree`, `ResourcesFree`, `ManagerFree`. The outside is modelled from its use: guest
(reads the ring once its fence is signalled, then asks for the next message),
peer (sends messages with descriptors, uses pipes and eventfds, closes), kernel
(level-triggered epoll; a closed descriptor leaves every epoll set unless
someone else has it open).

Data are reduced to what the properties tell apart. A message is its source
and its number there (end of file is number 0) and the ids it carries;
one peer message is what one `recvmsg` returns. Items are their type.
An image requirement is an item. An eventfd is its counter (for events of the
peer) or whether it is non-zero. Ids keep the arithmetic of the code: two
counters modulo `IdModulus`, with the sentinel and read-pipe ranges above the
descriptors.

**`MemorySentinel`** opens up what `CrossDomain` treats as one step
(`WatcherSignal`, create and destroy): the loop of the watcher thread around
load, check and futex wait, the manager's lock, and the three steps of
`shutdown` (store the flag, wake, join). `ShutdownReadable` is what `CrossDomain`
assumes of it.

**`Rutabaga`** is the core. One thread calls it, so an operation is one step, with the
calls it makes into components; an operation that fails without an effect is no
step, one that fails half-way is (`MapHandle` loses the handle, `export_blob` too,
`restore_fails` has one alternative per point of failure). A resource is a record of the
fields the operations look at: the component mask, the kind of memory, whether it may
be shared, handle, host memory of 2D, whether a scanout stride is set, backing, mapping. An
`Arc<RutabagaHandle>` and a `Vec<RutabagaIovec>` are numbered tokens, so that *who holds
it* (`Holders`, `Owners`) can be asked; a number is used again once nobody has it.
`build` is what the builder was given, with the compiled features and what the host
can do; default component, components and capsets are functions of it, as in
`RutabagaBuilder::build`. `renderer` is the external part: the resources, iovec pointers,
mappings and contexts that the C library behind the default component was told
of. The host memory of 2D is told apart by what a transfer finds: the whole image (`"full"`, or `"huge"` from 2^32 bytes on), less than
the image (`"short"`), a buffer for a resource that had none (`"empty"`). A snapshot keeps what `RutabagaResourceSnapshot` keeps, with the memory that the restore will
allocate (`RestoredMemory`), and two things for the properties alone: which 2D transfers succeeded when it was taken
(`works`), and of which resources the buffer will have another size (`resized`). After a restore that
failed late a VMM restores again or ends (`Running`). The items of a cross-domain context, from
which `context_create_blob` takes a handle, are in `CrossDomain`; here any handle the host has may come.

**`Transfer2D`** is the loop of `transfer_2d` with its three callers (`transfer_write`, `transfer_read`, and the reading of
a blob). One step is one round of the loop; the offsets are operators named as in the code. A destination byte holds the
chunk and the place it was copied from, so that a copy can be told from any other. The reference is
arithmetic only: byte *j* of row *k*, in the chunks put end to end and in the destination. u32 products wrap at `Word`.

**`Gralloc`** is `RutabagaGralloc` below the cross-domain contexts that share it. A host (render node or none, Vulkan
devices with their memory types) and a build are chosen at the start; backends, optimal backend and capset are functions
of the two, as in `RutabagaGralloc::new` and `determine_optimal_backend`. A context queries requirements, keeps
them as items and makes blobs from them in any order. Layouts are computed, not assumed: the canonical one without padding,
those of the drivers (external) with padded rows, in Vulkan's to `Tile`, in minigbm's to `GbmPad`, any function of the use flags: the query
removes TEXTURING, a fresh buffer has all flags, the stash those of its own query. `last_buffer` is the stash.

**`Kumquat`** is the server: `connections`, epoll (`wait_ctx`, and `events` for the batch of the last wait), `resources`,
`pending_fences`, and of Rutabaga the part the handlers depend on. A command is one step, since one thread serves them all,
but for a fenced `CmdSubmit3d`, which is three (event into the table, `create_fence`, reply), and between which
`FenceHandler` may run. An error of any call leaves `run()` and `main()` by `?`, for one of two reasons. `Refused` is an
error that follows from the state of the server, its clients and Rutabaga's tables (`server` is `"ended"`). `ComponentFails`
is any other error of a call into Rutabaga, which each of its components may return at any time (`"failed"`): `create_context`,
capset queries, `resource_create_3d`, `resource_create_blob` or `export_blob` (always for Magma), transfers, `submit_command`, `create_fence`,
`snapshot`, `restore`. `Restart` starts a new process, for which only
the snapshot is left. Clients are the virtgpu_kumquat library: one command at a time, waiting for the answers it waits for;
they share resources, close, drop, and die at any point. `faults` records the `RiskyOps` that clients asked for and the deaths, which are what the server may not survive.
The snapshot's directory (`snap.dir`) is created before anything is saved and never removed.

**`FenceService`** is the abstract specification of what a guest or client may rely on: a fence is created once, signalled
at most once, and not before it exists. `CrossDomain` implements it with its own `created` and `signals`, `Kumquat`
with the eventfds of its emulated fences (`FencesImplemented` in both).

**`MCCrossDomain`**, **`MCMemorySentinel`**, **`MCRutabaga`**, **`MCTransfer2D`**, **`MCGralloc`** and **`MCKumquat`** give the constants their values.

**`CrossDomainProofs`**, **`CrossDomainKeptProofs`**, **`CrossDomainRingProofs`**, **`MemorySentinelProofs`**, **`RutabagaProofs`**,
**`KumquatProofs`**, **`GrallocProofs`** and **`Transfer2DProofs`** have the theorems (section 4).

## 3. Runs

| run | module | result | what it shows |
|---|---|---|---|
| delivery | MCCrossDomain | holds | One connection, two messages and a pipe with two reads' worth of data, the peer may close. Signalled fences find fresh messages, nothing unread is overwritten, messages and pipe data arrive in order, hang-up comes last. |
| fences | MCCrossDomain | holds | Two CMD_INITs of all kinds, so two workers may be alive; three fences, a re-attached ring, drop. No fence is signalled twice, none is forgotten unless a worker halted, and all of it is a `FenceService`. |
| items | MCCrossDomain | holds | All commands on the item table against the worker that fills it, errors included. No id in use is given out. |
| progress | MCCrossDomain | holds | Liveness, over two CMD_INITs with a channel or without: new pipes get into the epoll set, pending input is served, drop ends if the worker it joins is of the latest CMD_INIT. |
| sentinel_job | MCCrossDomain | violated | CMD_CREATE_ATOMIC_MEMORY_SENTINEL does not wake the worker. |
| event_ids | MCCrossDomain | violated | A polled event item with id 3 is taken for the kill event. |
| sentinels | MCMemorySentinel | holds | Two watchers, words that count up: wakes are reported, threads end with their instances, shutdowns are visible. |
| sentinel_shutdown | MCMemorySentinel | violated | Shutdown can be lost between the thread's check and its wait; join then blocks with the manager locked. |
| core | MCRutabaga | holds | Five builds, one resource id, two contexts. The C library knows what the tables say it knows, after failed restores too; what is mapped can be unmapped, exported handles are held by nobody else, iovec lists have one owner, restored 2D images can be transferred unless they were restored to another size. |
| transfer_2d | MCTransfer2D | holds | Every rectangle in and around three images through up to three chunks of 0, 3, 8 or 21 bytes. Only the right bytes are written, none is left out, refusals have their cause, the loop ends. |
| gralloc | MCGralloc | holds | Two contexts, four builds, five hosts, ten images at the edges. Planes fit, blobs are what was promised unless minigbm pads a stash or a fresh texture differently, memory types suit the use, the capset is true. |
| kumquat | MCKumquat | holds | Two clients, two processes of the server, all commands. Emulated fences are a `FenceService`; tables, mappings and epoll agree; what ends the server, refusals of components apart, is one of six causes. |

The violated runs are findings: each states what a comment of the code
promises (quoted in `PROJECT.json`), and the counterexample is a behaviour of
the code. The passing runs stay clear of them by their constants or by what the property says. Of the passing runs of `CrossDomain` only
`progress` has sentinels; they may be destroyed while polled, and where that ends the worker its properties allow for it.
Only `items` has polled events, and `FreshIds` and `TypeOK` do not depend on which id an event has.

Other places where the code and its text, or two parts of the code, disagree are in the model, and the
properties name them as exceptions:

* A CMD_INIT without a channel after one with a channel (`context.rs:203-211`) replaces `state` and keeps `worker_thread` and `kill_evt`.
  Drop (`context.rs:779-794`) then queues Finish for the new session and joins the worker of the old one; if that worker waits for a
  job in its own queue, drop never ends ("but still try to join the worker thread", line 784). `DropTerminates` excepts it by
  `chan = cur`; without that conjunct TLC finds it violated in `progress`.
* `atomic_memory_sentinel_manager.rs:82` ("the disagreeing value will cause futex wait to return early") overlooks a word that
  is changed and changed back before the watcher waits again. In `sentinels` the words count up (`CountsUp`); with
  `CountsUp = FALSE` TLC finds `WakeReported` violated.
* `worker.rs:127` removes the manager's clone of a sentinel's event from epoll, where the descriptor of the job is
  registered (`worker.rs:337`): a sentinel destroyed while polled ends the worker with its fence, and "Removes a
  watcher from the map (after shutdown)" is not reached.
* `rutabaga_core.rs:737` unwraps the handle of a host-shareable fence ("must be returned on success", line 415), which cross-domain,
  Magma and gfxstream's ring 1 never return: `panicked` in `Rutabaga`.
* `rutabaga_core.rs:177` restores a guest blob of 2D with an empty host buffer where it had none; its transfers fail
  afterwards. An image of 2^32 bytes and more is created with a buffer of its size (a usize product, `rutabaga_2d.rs:183`) and restored with one of its
  size modulo 2^32 (a u32 product, `rutabaga_core.rs:173`): a write behind its end fails, a read there returns Ok without a byte, and a build with overflow checks panics in
  the restore. "Restore Rutabaga to a previously snapshot'd state" (line 599) excepts neither; `RestoredAlike` does, by `snap.resized`,
  and without that conjunct TLC finds it violated in `core`.
* `rutabaga_2d.rs:141`: an empty chunk inside a line, or lines that overlap (a scanout stride below the length of a line), make the
  walk skip bytes and still return Ok (excepted by `CopiedAll`).
* `minigbm.rs:215` compares size and format of the stash with the request, not the flags, so a blob may have the layout of
  another query (`OthersStash`); a buffer allocated afresh has the flag TEXTURING that the query removed
  (lines 154 and 237, `TexturedAfresh`); `PromiseKept` excepts both, each only if the driver pads the two buffers differently. A stash that nobody takes refuses every later query (line 202).
* `gralloc.rs:341` chooses Vulkano in every build that has it, even if it could not be initialised; then all requests
  fail. The capset asks all backends, so a build with both may promise dmabufs that Vulkano does not give (excepted by `CapsHonoured`). With a
  CPU device alone every Vulkano request fails. `formats.rs:166` has no aspect for ABGR16161616F, which line 144 accepts.
* Odd images in YUV formats lose a row and a column of chroma in the canonical layout (`formats.rs:231`, `251`).
* Kumquat ends for all its clients when a client dies with an answer under way (the write fails), when a resource is
  shared (attach is not recorded at `mod.rs:223`, so the first detach releases it and the second fails), after a restore
  (the server's own table and counter are not in the snapshot), at a second snapshot (its directory is there), on a shareable fence without a ring, and
  on a submit with fences to wait for (`kumquat_stream.rs:141` reads ids that the library, `virtgpu_kumquat_impl.rs:447`, does not send). So it
  does whenever a component refuses a call, `submit_command` at `mod.rs:365` for instance. A client that
  hangs up while idle is never removed (`kumquat.rs:60`: "no data" negated), and one whose last command comes with the hang-up loses what it sent after it.

Bounds. Two sessions are the fewest with a worker that was
replaced while alive. Three fences over two workers let one be held and one
queued while a third is created. In `delivery` four fences let the guest read two
messages and two chunks. Two image requirements or files and two pipes exercise
both counters and the guess of the next pipe's id, right and wrong. `MaxDescriptor` and
`MaxPipe` stop the counters before they wrap, so what the code does after two billion ids of one kind is not covered. In `progress`
two CMD_INITs are the fewest after which the worker that is joined is not of the session that gets Finish; one fence is enough, since
a guest with one ring waits for one at a time: before the worker takes it, while it is held, requeued by a resample (a late one, too) or signalled, jobs
and events come in every order. The legacy CMD_INIT (one ring
for both uses) is in `fences` alone: with it queries and channel messages share
a ring, and nothing in the code keeps them apart, so `delivery` uses separate
rings. Symmetry is used for fences in the safety runs, which are told apart by nothing.
In `core` one resource id is enough for operations that touch one id each; what matters is the sequence of
its generations, while contexts, the VMM and the renderer may still have a former one. Two contexts are the
fewest of which one can keep what the other, or the resource, has again; two handles and two
iovec lists are the fewest that let an old and a new one coexist (`MaxHandles`, `MaxVecs` block further
creation). The builds are those between which the core's control differs. Contexts are symmetric. Sizes of
images are in two classes, since nothing else depends on them there.
In `transfer_2d` lines are 4 to 8 bytes and chunks end inside pixels, at the ends of lines and
beyond them, so all three outcomes of every comparison occur in every combination that two lines allow; `Word = 32` makes a stride and
a size wrap. In `gralloc`, `Word = 512` and `MaxDim = 4` put images on both sides of the limits while keeping their order: an
image Vulkan accepts is far below `Word` (part of `GrallocAssumption`, true of 4096 and 2^32). `GrallocAssumption` also says what Vulkan requires of a device: memory the
host can map is coherent or cached, and the types an image may have are types of the device. `GbmPad` of the run gives linear buffers, textures
and what a CPU uses paddings of their own, so that buffers of one image with different flags do differ. Two items a context allow a stash of one to meet the other.
In `kumquat` two requests besides the contexts, with the detaches and destroys of a closing client added, are the fewest in which
a resource is created by one client and shared by another, or saved and restored; a second process shows what outlives the first. `MaxIds = 4` lets one context and three more objects, or one context each, be made in a process.
The runs take from seconds to about a minute and a half with two workers.
Deadlock checking is off: a guest that is done, or all of whose fences are used, is
a state without successors that is not an error.

Fairness. `FairSpec` of `CrossDomain` assumes that the kernel runs a worker that
can take a step, and that the VMM thread goes on inside SEND and drop. It does
not assume that WRITE goes on, which may block in the peer's descriptor, nor
that guests, peers or sentinels do anything. In `MemorySentinel` a thread asleep
in the futex is not runnable until it is woken; no interrupt, store or command
is owed. `Transfer2D` assumes that a loop once entered goes on. `Kumquat`, `Gralloc` and `Rutabaga` state none: what
they promise is safety, and a server waits for its clients.

## 4. Proofs

Each theorem holds for all values of the constants that satisfy the named assumptions of its model, so for any number of
clients, sessions, resources, fences and ids; the bounds of section 3 are constants there like the others. Every property below is also
checked by the run of its module. There is one lemma per action, or per kind of step where many
actions do the same to the variables at hand (`FenceIdle`, `TablesIdle`, `ConnIdle`, `SameFor`), and one lemma per update of a record or function.

### Cross-domain (`CrossDomainProofs`, `CrossDomainKeptProofs`; `IdAssumption`, `InputAssumption`)

| theorem | states |
|---|---|
| `Invariance` | `Spec => []IInv` |
| `TypeCorrect` | `Spec => []TypeOK` |
| `FencesSignalledOnce` | `Spec => []SignalOnce` |
| `Refinement` | `Spec => FencesImplemented` |
| `FencesAccounted` | `Spec => []FenceAccounted` |

`SignalOnce` is not inductive. A worker that signals the fence in hand keeps it
only if that fence has not been signalled, is in no other worker's hand and
waits in no queue from which it would be signalled again. So `FenceInv` says
where a fence can be: a worker holds a fence exactly while it serves one
(`HeldWhileBusy`), no two workers hold the same one (`HeldOnce`), a fence is in at
most one place of one queue (`QueuedOnce`), not both held and queued
(`HeldNotQueued`), and what is held or queued is created and not yet signalled
(`HeldOwed`, `QueuedOwed`). The requeueing of a fence by the resample event is
the step for which this is needed: the fence moves from the hand to the end of the queue.
Type correctness needs that workers belong to sessions with rings
(`SessionInv`) and that received messages were sent (`PeerInv`).

`Refinement` rests on the same invariant: a fence in a worker's hand is created and unsignalled (`HeldOwed`), and one that
is not created was never signalled (`SignalledCreated`), so `SignalFence` is a `Signal` and `QueryFence` a `CreateSignalled`; all
other steps leave both variables alone.

`FenceAccounted` is the converse, that no fence is dropped. It needs `IInv` (a worker that takes a job has no fence in hand that the new one
would replace; a new session's worker is not one that has halted) and `UncreatedRing` (the exception `fring = 0` is not lost or
gained by a fence before it exists).

`IdsStayFresh` is `FreshIds` for counters that have not come to the end of their ranges: the guards of the model stop them there, and with them the
statement. It needs `IdInv`: the counters are in their ranges, so that neither wraps and an id of one range is never ahead of the
other's counter; and an item that `write()` has taken out of the table was behind the counters, so that it may come back.

### Delivery (`CrossDomainRingProofs`; the assumptions above)

| theorem | states | for guests with |
|---|---|---|
| `RingsNeverOverwritten` | `RingNotOverwritten`, an action property | `GuestDiscipline` |
| `RingsAlwaysFresh` | `[]RingFresh` | `GuestDiscipline`, `IdsApart` |
| `AlwaysInOrder` | `[]DeliveredInOrder` | `GuestDiscipline` |
| `HangUpsAfterData` | `[]HangUpAfterData` | `GuestDiscipline`, `SentinelsApart` |

These are not true of every guest, and the theorems say for which. The code has no acknowledgement of a ring write: a guest with two
channel fences outstanding (`MaxPoll`), or with one ring for queries and channel (the legacy CMD_INIT), can find a message replaced. So
`GuestDiscipline` is one outstanding channel fence and no ring with both uses. An event or sentinel with id 3 is taken for the kill event, which signals without a
message (the run `event_ids`): `IdsApart` excludes it. The guest chooses sentinel ids freely and the epoll set has one id space, so an event of a sentinel in the
pipes' range would be taken for data of a pipe: `SentinelsApart`. The constants of the run `delivery` satisfy all three; everything else is free, sessions,
fences, connections, pipes, messages, re-attached rings, drops and errors included.

`RingInv` carries the first: a session's worker and queue have fences of the session's own ring only (`OwnRing`), the guest waits for one channel fence
(`OneWaits`), and a message that nobody has read belongs to a fence that is signalled, or is in the hand of a worker about to signal it
(`MessageTold`). A worker with an event in hand therefore finds every channel ring empty, and no second worker is busy (`EmptyRings`, `OneBusy`).
`RingFresh` adds that the kill id is of the kill event alone, which is set only when the context is dropped (`KillInv`), and that a worker about to signal has written (`FreshInv`).

`DeliveredInOrder` speaks of a history. `CountInv` ties it to the present: of what has left a connection or a pipe the guest has read all, or all but the last,
which is in a ring or, for a connection, in the hand of the worker that adds its descriptors (`SessionCounted`, `PipeCounted`). `KindInv` keeps pipes and
events apart by their ids; a chunk is counted by its pipe, an eventfd's value is not.

`HangUpAfterData` needs that what epoll has reported of a pipe is still so when the item is handled, with the peer writing and closing in between: data stays until this worker reads it, and a
pipe reported as hung up and empty gets no more (`PipeInv`; a pipe that is not made yet has no writer, one that `send()` has made is the host's). `HangInv` says of a hang-up in a ring, or
read, that its pipe has ended; once read, all of the pipe has been read.

### Sentinels (`MemorySentinelProofs`; `SentinelAssumption`)

`TypeCorrect` (`TypeOK`), `NoThreadWithoutInstance` (`NoOrphanThread`), `ShutdownsVisible` (`ShutdownReadable`, what `CrossDomain` relies on when it makes
destroy one step). The last needs that a thread ends only after its last signal, which nobody takes because the worker looks at
the flag before the event (`EndedReadable`, `BailShutdown`), and that a set flag belongs to a thread that has ended or
is being joined (`ShutdownKnown`, `OneAtATime`).

### Core (`RutabagaProofs`; `CoreAssumption`)

| theorem | states | the invariant adds |
|---|---|---|
| `TypeCorrect` | `[]TypeOK` | |
| `RendererAlwaysAgrees` | `[]RendererAgrees` | the snapshot was of a C library that agreed with its tables (`SnapAgrees`), so a restore that works makes them agree again; free ids have no component (`FreeEmpty`); a renderer's contexts are of the default component (`CtxDefault`) |
| `MappedAlwaysUnmappable` | `[]MappedCanBeUnmapped` | what is mapped is no dmabuf (`NoDmabufMapped`), which an attachment to a virgl context would give a second component; a snapshot keeps no mapping (`SnapBare`) |
| `ExportedAlwaysExclusive` | `[]ExportedExclusive` | a snapshot keeps no handle (`SnapBare`); handle numbers in use are not given out (`IsNewHandle`) |
| `IovecsAlwaysOwned` | `[]IovecsHaveOneOwner` | `OneOwner`, the same without counting; `SnapBare` |
| `RestoresAlike` | `RestoredAlike`, an action property | what worked when the snapshot was taken, of resources whose buffer keeps its size, follows from the resources in it (`SnapWorks`) |

### Kumquat (`KumquatProofs`; `KumquatAssumption`)

| theorem | states | the invariant adds |
|---|---|---|
| `TypeCorrect` | `[]TypeOK` | |
| `PendingFencesOwed` | `[]PendingOwed` | |
| `Refinement` | `FencesImplemented` | ids given out are behind the counter, a restarted server has a number of its own (`CreatedPast`); an event in the table is of a fence handed out and unsignalled (`PendingNew`); others were never signalled (`SignalsKnown`) |
| `BackingsMapped`, `TablesAlwaysAgree` | `[]BackingMapped`, `[]TablesAgree` | iovecs are of resources that exist (`BackedKept`); a Restore on its way to the server is on record (`RestoreKnown`) |
| `ConnectionsKept` | `[]ConnectionKept` | a connection has one client (`OneClient`); a batch has one event for each connection, none about one that is gone, and a hang-up in it is true (`EventsFit`) |
| `ServerEndsForCause` | `[]EndedForCause` | `Quiet`, below |

`EndedForCause` says that a server whose components refuse nothing runs on without one of the six causes (section 3), so the invariant has to say that every
command on its way succeeds and every answer has a reader: `faults = {} /\ server # "failed" => Calm`. `Calm` ties the sockets to both tables. What a client has been told, is being told or names in a
command is in the tables, and no other client names it (`Owned`); a client has one answer outstanding and sends nothing after a
command that has one (`Polite`, `Tidy`); nothing is named after it is detached (`Tidy`, `Named`), in a closing client's list of
detaches neither; and a shareable fence is kept until it is exported (`ShareOk`).

### Gralloc (`GrallocProofs`; `GrallocAssumption`)

`PromisesKept` (`PromiseKept`), `CapsAlwaysHonoured` (`CapsHonoured`) and `MemoryTypesRight` (`MemoryTypeRight`), for any contexts, images,
hosts and builds. The invariant `GInv` says of every item that a context keeps that it is `Promised`: what it holds is what the backend of this build would
do with its image on this machine. An allocation long after the query, with other contexts' queries and failures between, then meets the promise: from a new buffer
at once, from the stash because `SameImage` and equal padding give equal layouts; where the flags are padded differently, the
buffer is one of the two exceptions, whichever function `GbmPad` is. For Vulkan the strides must not change in the cut to
u32; `RowFits` shows from the last part of `GrallocAssumption` that no row of an image within `MaxDim` reaches `Word`. That `memory_type` and `device` (`Min` and `Max`) are
what they should be rests on `LeastNatural`, from the well-foundedness of `<`.

`PlanesAlwaysFit` (`PlanesFit`) is about offsets that are sums over the planes. The end of a plane is a recursive function, of which `EndsExist` shows that there is one and
`EndsOrdered` that it grows; where induction would be used, the least plane that fails (`LeastNatural`) leads to a contradiction. In the canonical layout every product that could pass `Word` is
checked before; what gbm and Vulkan give is within the bound that `RowFits` extends to whole images (`EndsBound`, `Uncut`).

### 2D copy (`Transfer2DProofs`; `TransferAssumption`)

`AlwaysCopiedRight` (`CopiedRight`), `AlwaysCopiedAll` (`CopiedAll`) and `AlwaysRefusedRightly` (`RefusedRightly`), for any images, rectangles, strides, buffers and lists of
chunks. `Inv2D` says that `src_start_offset` is the sum of the chunks passed (`WalkInv`) and that the loop was entered with a rectangle inside the resource (`EnteredInv`). A
byte that is copied then lies where its row and column say, whichever of source line and chunk ends first. `CopiedAll` needs `FillInv`: lines before
the current one are complete, the current one is complete up to the chunk at hand, and that chunk does not begin behind the line; an empty chunk or
overlapping lines break the last part, and the property excepts them. The running sum of chunks exists and is unique by a least counterexample (`LeastNumber`), again in place of induction.

### Model-checked only

* The liveness properties (`PipeEventuallyPolled`, `PollServed`, `DropTerminates`, and those of `MemorySentinel` and `Transfer2D`): out of TLAPS's reach.
* `WakeReported`, one of them, which assumes besides that the words count up.

## 5. Plan

Modelled: cross-domain with its sentinels, the core with builder, snapshot and restore, the 2D copy, Gralloc, the Kumquat
server, and the fence service that two of them implement. Every safety property of a passing run is proved.
Left: the calls of the core that are passed on to a renderer, once a model of the renderer is worth having, and a client of Kumquat with its own
promises (every command is answered, on a server without faults).

## 6. Not modelled

Contents of messages, images and blobs, formatting of the protocol structures and their
size checks (they are rejected before any state changes); descriptor exhaustion and failures of
mutexes, and with them `try_clone` in `create_watcher` (`atomic_memory_sentinel_manager.rs:186`), which fails only without a free descriptor and would leave
a thread that has no instance; offsets of a 2D transfer of 2^64 and more, where the sums of `rutabaga_2d.rs:63-66` wrap and
the checked arithmetic of lines 84-93 ends in an error; Windows and stub platforms, on which cross-domain channels do not exist; the
C libraries behind gfxstream and virglrenderer beyond what the core tells them; the core's pass-through
calls (transfers and commands of a renderer, polling, capability queries, `map_placed`); `import_and_map` of Gralloc, which
only its tests call; the C interface, which converts pointers and calls the core (that nothing is used after
`rutabaga_finish` is the VMM's duty); generated bindings; the vendored Magma and
virtgpu libraries, but for the kernel wrappers the worker uses and the client library as Kumquat's environment.
Progress of a Kumquat client (every command is answered) was left out: it depends on every other client, see the list in section 3.
