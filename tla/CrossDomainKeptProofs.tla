----------------------- MODULE CrossDomainKeptProofs -----------------------
(***************************************************************************)
(* Proofs that the cross-domain context loses no fence while its workers   *)
(* work, and gives no item an id that is in use.                           *)
(***************************************************************************)
EXTENDS CrossDomainProofs

-----------------------------------------------------------------------------
(* Fences                                                                  *)

Halted == \E s \in Sessions : wpc[s] = "halted"

\* A fence that was not created has no ring.
UncreatedRing == \A f \in Fences \ created : fring[f] = 0

\* A step that creates no fence loses none, if queued fences stay queued or
\* are taken, and those a worker holds are kept, queued again or signalled.
LEMMA AccountedKept ==
  ASSUME FenceAccounted, created' = created, fring' = fring, Halted => Halted',
         \A f \in created : signals[f] > 0 => signals'[f] > 0,
         \A f \in created : Queued(f) => Queued(f)' \/ Held(f)' \/ Halted',
         \A f \in created : Held(f) => Held(f)' \/ Queued(f)' \/ signals'[f] > 0 \/ Halted'
  PROVE  FenceAccounted'
<1> SUFFICES ASSUME NEW f \in created
             PROVE  signals'[f] > 0 \/ Queued(f)' \/ Held(f)' \/ fring'[f] = 0 \/ Halted'
  BY DEF FenceAccounted, Halted
<1>1. signals[f] > 0 \/ Queued(f) \/ Held(f) \/ fring[f] = 0 \/ Halted
  BY DEF FenceAccounted, Halted
<1> QED
  BY <1>1

\* A job goes to the end of a queue.
LEMMA AddedJob ==
  ASSUME FenceTypes, NEW s \in Sessions, NEW job \in Jobs, add_job(s, job)
  PROVE  /\ jobs'[s] = Append(jobs[s], job) /\ \A t \in Sessions \ {s} : jobs'[t] = jobs[t]
         /\ Len(jobs'[s]) = Len(jobs[s]) + 1 /\ jobs'[s][Len(jobs[s]) + 1] = job
         /\ \A i \in 1 .. Len(jobs[s]) : jobs'[s][i] = jobs[s][i]
         /\ Len(jobs[s]) \in Nat
<1>1. jobs'[s] = Append(jobs[s], job) /\ \A t \in Sessions \ {s} : jobs'[t] = jobs[t]
  BY DEF FenceTypes, add_job
<1>2. jobs[s] \in Seq(Jobs)
  BY DEF FenceTypes
<1> QED
  BY <1>1, <1>2

LEMMA QueuedAdd ==
  ASSUME FenceTypes, NEW s \in Sessions, NEW job \in Jobs, add_job(s, job), NEW f, Queued(f)
  PROVE  Queued(f)'
<1>1. PICK t \in Sessions : \E k \in 1 .. Len(jobs[t]) : IsFenceJob(t, k, f)
  BY DEF Queued
<1>2. PICK i \in 1 .. Len(jobs[t]) : IsFenceJob(t, i, f)
  BY <1>1
<1>3. i \in 1 .. Len(jobs'[t]) /\ jobs'[t][i] = jobs[t][i]
  <2>1. CASE t = s
    BY <2>1, AddedJob
  <2>2. CASE t # s
    BY <2>2, AddedJob
  <2> QED
    BY <2>1, <2>2
<1> QED
  BY <1>2, <1>3 DEF Queued, IsFenceJob

LEMMA QueuedNew ==
  ASSUME FenceTypes, NEW s \in Sessions, NEW f \in Fences, add_job(s, Job("HandleFence", f))
  PROVE  Queued(f)'
<1>1. Job("HandleFence", f) \in Jobs
  BY DEF Job, Jobs
<1>2. /\ Len(jobs[s]) + 1 \in 1 .. Len(jobs'[s])
      /\ jobs'[s][Len(jobs[s]) + 1] = Job("HandleFence", f)
  BY <1>1, AddedJob
<1> QED
  BY <1>2 DEF Queued, IsFenceJob

LEMMA QueuedTail ==
  ASSUME FenceTypes, NEW s \in Sessions, jobs[s] # <<>>, jobs' = [jobs EXCEPT ![s] = Tail(@)],
         NEW f, Queued(f), Head(jobs[s]) # Job("HandleFence", f)
  PROVE  Queued(f)'
<1>1. PICK t \in Sessions : \E k \in 1 .. Len(jobs[t]) : IsFenceJob(t, k, f)
  BY DEF Queued
<1>2. PICK i \in 1 .. Len(jobs[t]) : IsFenceJob(t, i, f)
  BY <1>1
<1>3. CASE t # s
  BY <1>2, <1>3 DEF Queued, IsFenceJob, FenceTypes
<1>4. CASE t = s
  <2>1. jobs[s] \in Seq(Jobs) /\ jobs'[s] = Tail(jobs[s])
    BY DEF FenceTypes
  <2>2. i # 1
    BY <1>2, <1>4, <2>1 DEF IsFenceJob
  <2>3. /\ Len(jobs[s]) \in Nat /\ Len(jobs'[s]) = Len(jobs[s]) - 1
        /\ \A k \in 1 .. Len(jobs[s]) - 1 : jobs'[s][k] = jobs[s][k + 1]
    <3>1. PICK q \in Seq(Jobs) : q = jobs[s]
      BY <2>1
    <3>2. q # <<>> /\ Len(q) \in Nat /\ Len(Tail(q)) = Len(q) - 1
      BY <3>1
    <3>3. \A k \in 1 .. Len(q) - 1 : Tail(q)[k] = q[k + 1]
      OBVIOUS
    <3> QED
      BY <2>1, <3>1, <3>2, <3>3
  <2>4. i - 1 \in 1 .. Len(jobs[s]) - 1 /\ i - 1 + 1 = i
    BY <1>4, <2>2, <2>3
  <2>5. jobs'[s][i - 1] = jobs[s][i]
    BY <2>3, <2>4
  <2> QED
    BY <1>2, <1>4, <2>3, <2>4, <2>5 DEF Queued, IsFenceJob
<1> QED
  BY <1>3, <1>4

\* No fence moves, and no halted worker starts again.
LEMMA AccountedStill ==
  ASSUME FenceAccounted, UNCHANGED <<jobs, wfence, signals, created, fring>>, Halted => Halted'
  PROVE  FenceAccounted'
<1>1. \A f : Queued(f)' <=> Queued(f)
  BY DEF Queued, IsFenceJob
<1>2. \A f : Held(f)' <=> Held(f)
  BY DEF Held
<1> QED
  BY <1>1, <1>2, AccountedKept

\* A job other than a fence is queued.
LEMMA AccountedAdd ==
  ASSUME IInv, FenceAccounted, NEW s \in Sessions, NEW job \in Jobs, add_job(s, job),
         UNCHANGED <<wpc, wfence, signals, created, fring>>
  PROVE  FenceAccounted'
<1>1. \A f : Queued(f) => Queued(f)'
  BY IInvTypes, QueuedAdd
<1>2. \A f : Held(f)' <=> Held(f)
  BY DEF Held
<1>3. Halted => Halted'
  BY DEF Halted
<1> QED
  BY <1>1, <1>2, <1>3, AccountedKept

LEMMA AccountedInitialize ==
  ASSUME IInv, FenceAccounted, NEW c \in InitCmds, initialize(c) PROVE FenceAccounted'
<1>1. UNCHANGED <<jobs, wfence, signals, created, fring>>
  BY DEF initialize, Spawn, workVars, guestVars
<1>2. ASSUME NEW s \in Sessions, wpc[s] = "halted" PROVE wpc'[s] = "halted"
  <2>1. s <= cur /\ s \in Nat /\ cur \in Nat
    BY <1>2, FixedIds DEF IInv, SessionInv, TypeOK, CtxType, Sessions
  <2>2. s # cur + 1
    BY <2>1
  <2>3. wpc' = wpc \/ wpc' = [wpc EXCEPT ![cur + 1] = "idle"]
    BY DEF initialize, Spawn, workVars
  <2> QED
    BY <1>2, <2>2, <2>3 DEF IInv, TypeOK, WorkerType
<1>3. Halted => Halted'
  BY <1>2 DEF Halted
<1> QED
  BY <1>1, <1>3, AccountedStill

LEMMA AccountedJob ==
  ASSUME IInv, FenceAccounted,
         \/ SendFinish \/ DropBegin
         \/ \E id \in EventIds : read_event_new(id)
         \/ \E id \in SentIds : atomic_memory_sentinel_new(id)
  PROVE  FenceAccounted'
<1>1. UNCHANGED <<wpc, wfence, signals, created, fring>>
  BY DEF SendFinish, DropBegin, read_event_new, atomic_memory_sentinel_new, workVars, guestVars
<1>2. CASE UNCHANGED jobs
  BY <1>1, <1>2, AccountedStill DEF Halted
<1>3. jobs' # jobs =>
         cur # 0 /\ \E op \in JobOps \ {"HandleFence"}, id \in Ids : add_job(cur, Job(op, id))
  <2>1. CASE SendFinish
    BY <2>1 DEF SendFinish, JobOps, IInv, TypeOK, CtxType
  <2>2. CASE DropBegin
    BY <2>2, FixedIds DEF DropBegin, JobOps
  <2>3. ASSUME NEW id \in EventIds, read_event_new(id)
        PROVE  cur # 0 /\ \E op \in JobOps \ {"HandleFence"}, i \in Ids : add_job(cur, Job(op, i))
    BY <2>3, IdAssumption DEF read_event_new, JobOps
  <2>4. ASSUME NEW id \in SentIds, atomic_memory_sentinel_new(id), jobs' # jobs
        PROVE  cur # 0 /\ \E op \in JobOps \ {"HandleFence"}, i \in Ids : add_job(cur, Job(op, i))
    BY <2>4, IdAssumption DEF atomic_memory_sentinel_new, JobOps
  <2> QED
    BY <2>1, <2>2, <2>3, <2>4
<1>4. CASE jobs' # jobs
  <2>1. cur \in Sessions
    BY <1>3, <1>4, FixedIds DEF IInv, TypeOK, CtxType, Sessions
  <2>2. PICK op \in JobOps \ {"HandleFence"}, id \in Ids : add_job(cur, Job(op, id))
    BY <1>3, <1>4
  <2>3. Job(op, id) \in Jobs
    BY DEF Job, Jobs
  <2> QED
    BY <1>1, <2>1, <2>2, <2>3, AccountedAdd
<1> QED
  BY <1>2, <1>4

\* A fence of the query ring is signalled at once.
LEMMA AccountedQuery ==
  ASSUME IInv, FenceAccounted, NEW f \in Fences, QueryFence(f) PROVE FenceAccounted'
<1>1. /\ created' = created \cup {f} /\ f \notin created /\ signals'[f] > 0
      /\ \A g \in created : signals'[g] = signals[g] /\ fring'[g] = fring[g]
  BY DEF QueryFence, IInv, TypeOK, GuestType
<1>2. UNCHANGED <<jobs, wfence, wpc>>
  BY DEF QueryFence, workVars
<1>3. \A g : (Queued(g)' <=> Queued(g)) /\ (Held(g)' <=> Held(g))
  BY <1>2 DEF Queued, Held, IsFenceJob
<1> QED
  BY <1>1, <1>2, <1>3 DEF FenceAccounted

\* A fence of the channel ring is queued, or nobody's (fring 0).
LEMMA AccountedChannel ==
  ASSUME IInv, UncreatedRing, FenceAccounted, NEW f \in Fences, ChannelFence(f) PROVE FenceAccounted'
<1>1. /\ created' = created \cup {f} /\ f \notin created /\ UNCHANGED <<signals, wfence, wpc>>
      /\ \A g \in created : fring'[g] = fring[g]
  BY DEF ChannelFence, IInv, TypeOK, GuestType, workVars
<1>2. \A g : Held(g)' <=> Held(g)
  BY <1>1 DEF Held
<1>3. CASE cur # 0
  <2>1. cur \in Sessions
    BY <1>3, FixedIds DEF IInv, TypeOK, CtxType, Sessions
  <2>2. add_job(cur, Job("HandleFence", f)) /\ Job("HandleFence", f) \in Jobs
    BY <1>3 DEF ChannelFence, Job, Jobs
  <2>3. Queued(f)'
    BY <2>1, <2>2, IInvTypes, QueuedNew
  <2>4. \A g : Queued(g) => Queued(g)'
    BY <2>1, <2>2, IInvTypes, QueuedAdd
  <2> QED
    BY <1>1, <1>2, <2>3, <2>4 DEF FenceAccounted
<1>4. CASE cur = 0
  <2>1. UNCHANGED <<jobs, fring>>
    BY <1>4 DEF ChannelFence
  <2>2. \A g : Queued(g)' <=> Queued(g)
    BY <2>1 DEF Queued, IsFenceJob
  <2>3. fring'[f] = 0
    BY <1>1, <2>1 DEF UncreatedRing
  <2> QED
    BY <1>1, <1>2, <2>1, <2>2, <2>3 DEF FenceAccounted
<1> QED
  BY <1>3, <1>4

\* The steps of the VMM thread, the guest and the peers that move no fence.
LEMMA AccountedContext ==
  ASSUME IInv, UncreatedRing, FenceAccounted, ContextStep PROVE FenceAccounted'
<1>1. ASSUME UNCHANGED <<jobs, wpc, wfence, signals, created, fring>> PROVE FenceAccounted'
  BY <1>1, AccountedStill DEF Halted
<1>2. ASSUME NEW r \in Resources, attach(r) \/ detach(r) PROVE FenceAccounted'
  BY <1>1, <1>2 DEF attach, detach, workVars, guestVars
<1>3. CASE get_image_requirements \/ SendIdentifier \/ WriteEnd \/ WriteError \/ DropJoin
  BY <1>1, <1>3 DEF get_image_requirements, SendIdentifier, WriteEnd, WriteError, DropJoin, workVars, guestVars
<1>4. ASSUME NEW cmd, SendBegin(cmd) PROVE FenceAccounted'
  BY <1>1, <1>4 DEF SendBegin, workVars, guestVars
<1>5. ASSUME NEW id, \/ import_virtiofs_handle(id) \/ context_create_blob(id)
                     \/ atomic_memory_sentinel_destroy(id)
                     \/ \E u \in Uuids : socket_assign_uuid(id, u)
                     \/ \E hup \in BOOLEAN : WriteBegin(id, hup)
      PROVE  FenceAccounted'
  BY <1>1, <1>5 DEF import_virtiofs_handle, context_create_blob, atomic_memory_sentinel_destroy,
                    socket_assign_uuid, WriteBegin, workVars, guestVars
<1> QED
  BY <1>2, <1>3, <1>4, <1>5, AccountedInitialize, AccountedJob, AccountedQuery, AccountedChannel
     DEF ContextStep

LEMMA AccountedEnvironment == ASSUME FenceAccounted, Environment PROVE FenceAccounted'
<1>1. UNCHANGED <<jobs, wpc, wfence, signals, created, fring>>
  BY DEF Environment, GuestRead, PeerSend, PeerClose, PeerPipe, PeerEvent, WatcherSignal,
         hostSide, workVars, guestVars
<1> QED
  BY <1>1, AccountedStill DEF Halted

\* A worker that halts is the excuse for what it held.
LEMMA AccountedHalt ==
  ASSUME IInv, FenceAccounted, NEW s \in Sessions, Halt(s), UNCHANGED created
  PROVE  FenceAccounted'
<1>1. wpc'[s] = "halted"
  BY DEF Halt, IInv, TypeOK, WorkerType
<1> QED
  BY <1>1 DEF FenceAccounted

\* A worker that was not halted moves on, with the fence it holds.
LEMMA AccountedGoto ==
  ASSUME IInv, FenceAccounted, NEW s \in Sessions, NEW pc, wpc[s] # "halted", Goto(s, pc),
         UNCHANGED <<jobs, wfence, signals, created, fring>>
  PROVE  FenceAccounted'
<1>1. Halted => Halted'
  BY DEF Halted, Goto, IInv, TypeOK, WorkerType
<1> QED
  BY <1>1, AccountedStill

LEMMA AccountedTake == ASSUME IInv, FenceAccounted, NEW s \in Sessions, TakeJob(s) PROVE FenceAccounted'
<1>1. /\ wpc[s] = "idle" /\ jobs[s] # <<>> /\ jobs' = [jobs EXCEPT ![s] = Tail(@)]
      /\ UNCHANGED <<signals, created, fring>> /\ FenceTypes
  BY IInvTypes DEF TakeJob, ctxSide, guestVars
<1>2. wfence[s] = NoFence /\ Head(jobs[s]) \in Jobs
  <2>1. wfence[s] = NoFence
    BY <1>1 DEF IInv, FenceInv, HeldWhileBusy, Busy
  <2> QED
    BY <1>1, <2>1, HeadAndTail DEF FenceTypes
<1>3. CASE Halt(s)
  BY <1>1, <1>3, AccountedHalt
<1>4. CASE /\ Head(jobs[s]).op = "HandleFence" /\ Goto(s, "poll")
           /\ wfence' = [wfence EXCEPT ![s] = Head(jobs[s]).arg]
  <2>1. PICK g \in Fences : Head(jobs[s]) = Job("HandleFence", g) /\ Head(jobs[s]).arg = g
    BY <1>2, <1>4 DEF Jobs, Job
  <2>2. Held(g)' /\ g # NoFence
    BY <1>1, <1>4, <2>1, InputAssumption DEF Held, FenceTypes
  <2>3. \A f \in created : Queued(f) => Queued(f)' \/ Held(f)'
    <3> SUFFICES ASSUME NEW f \in created, Queued(f), f # g PROVE Queued(f)'
      BY <2>2
    <3>1. Head(jobs[s]) # Job("HandleFence", f)
      BY <2>1 DEF Job
    <3> QED
      BY <1>1, <3>1, QueuedTail
  <2>4. \A f \in created : Held(f) => Held(f)'
    <3> SUFFICES ASSUME NEW f \in created, NEW t \in Sessions, wfence[t] = f PROVE wfence'[t] = f
      BY DEF Held
    <3>1. f # NoFence
      BY InputAssumption DEF IInv, TypeOK, GuestType
    <3> QED
      BY <1>1, <1>2, <1>4, <3>1 DEF FenceTypes
  <2>5. Halted => Halted'
    BY <1>1, <1>4 DEF Halted, Goto, FenceTypes
  <2> QED
    BY <1>1, <2>3, <2>4, <2>5, AccountedKept
<1>5. CASE /\ Head(jobs[s]).op # "HandleFence" /\ wfence' = wfence
           /\ UNCHANGED wpc \/ Goto(s, "done")
  <2>1. \A f \in created : Queued(f) => Queued(f)'
    <3> SUFFICES ASSUME NEW f \in created, Queued(f) PROVE Queued(f)'
      OBVIOUS
    <3>1. Head(jobs[s]) # Job("HandleFence", f)
      BY <1>5 DEF Job
    <3> QED
      BY <1>1, <3>1, QueuedTail
  <2>2. \A f : Held(f)' <=> Held(f)
    BY <1>5 DEF Held
  <2>3. Halted => Halted'
    BY <1>1, <1>5 DEF Halted, Goto, FenceTypes
  <2> QED
    BY <1>1, <2>1, <2>2, <2>3, AccountedKept
<1> QED
  BY <1>3, <1>4, <1>5 DEF TakeJob, AddDescriptor

\* The fence goes back to the queue, or is signalled.
LEMMA AccountedGiven ==
  ASSUME IInv, FenceAccounted, NEW s \in Sessions, wpc[s] \in Busy, UNCHANGED <<created, fring>>,
         wfence' = [wfence EXCEPT ![s] = NoFence], Goto(s, "idle"),
         \/ add_job(s, Job("HandleFence", wfence[s])) /\ UNCHANGED signals
         \/ signals' = [signals EXCEPT ![wfence[s]] = @ + 1] /\ UNCHANGED jobs
  PROVE  FenceAccounted'
<1>1. FenceTypes
  BY IInvTypes
<1>2. PICK g \in Fences : g = wfence[s]
  BY BusyHolds
<1>3. Halted => Halted'
  BY <1>1 DEF Halted, Goto, FenceTypes, Busy
<1>4. \A f \in created : Held(f) => Held(f)' \/ f = g
  BY <1>1, <1>2 DEF Held, FenceTypes
<1>5. CASE add_job(s, Job("HandleFence", wfence[s])) /\ UNCHANGED signals
  <2>1. Queued(g)'
    BY <1>1, <1>2, <1>5, QueuedNew
  <2>2. Job("HandleFence", wfence[s]) \in Jobs
    BY <1>2 DEF Job, Jobs
  <2>3. \A f : Queued(f) => Queued(f)'
    BY <1>1, <1>5, <2>2, QueuedAdd
  <2>4. \A f \in created : Held(f) => Held(f)' \/ Queued(f)'
    BY <1>4, <2>1
  <2> QED
    BY <1>3, <1>5, <2>3, <2>4, AccountedKept
<1>6. CASE signals' = [signals EXCEPT ![wfence[s]] = @ + 1] /\ UNCHANGED jobs
  <2>1. signals'[g] > 0 /\ \A f \in Fences : signals[f] > 0 => signals'[f] > 0
    BY <1>1, <1>2, <1>6 DEF FenceTypes
  <2>2. \A f : Queued(f)' <=> Queued(f)
    BY <1>6 DEF Queued, IsFenceJob
  <2>3. created \subseteq Fences
    BY <1>1 DEF FenceTypes
  <2> QED
    BY <1>3, <1>4, <2>1, <2>2, <2>3, AccountedKept
<1> QED
  BY <1>5, <1>6

LEMMA AccountedWorker ==
  ASSUME IInv, FenceAccounted, NEW s \in Sessions, WorkerStep(s) PROVE FenceAccounted'
<1>1. CASE TakeJob(s)
  BY <1>1, AccountedTake
<1>2. CASE HandleResample(s) \/ SignalFence(s)
  <2>1. wpc[s] \in Busy /\ UNCHANGED <<created, fring>>
    BY <1>2 DEF HandleResample, SignalFence, Busy, ctxSide, guestVars
  <2> QED
    BY <1>2, <2>1, AccountedGiven DEF HandleResample, SignalFence
<1>3. CASE HandleSentinelShutdown(s)
  <2>1. wpc[s] \in Busy /\ UNCHANGED <<signals, created, fring>>
    BY <1>3 DEF HandleSentinelShutdown, Busy, ctxSide, guestVars
  <2>2. CASE Halt(s)
    BY <2>1, <2>2, AccountedHalt
  <2>3. CASE ~Halt(s)
    BY <1>3, <2>1, <2>3, AccountedGiven DEF HandleSentinelShutdown
  <2> QED
    BY <2>2, <2>3
<1>4. CASE \/ Poll(s) \/ Receive(s) \/ ReceiveFile(s) \/ ReceiveReply(s) \/ HandleKill(s)
           \/ HandleSentinel(s) \/ LookupItem(s) \/ HandlePipe(s) \/ HandleEvent(s)
  <2>1. wpc[s] # "halted" /\ UNCHANGED <<jobs, signals, created, fring>>
    BY <1>4 DEF Poll, Receive, ReceiveFile, ReceiveReply, HandleKill, HandleSentinel, LookupItem,
                HandlePipe, HandleEvent, ctxSide, guestVars
  <2>2. \/ Halt(s)
        \/ UNCHANGED wfence /\ \E pc : Goto(s, pc)
        \/ UNCHANGED <<wfence, wpc>>
    BY <1>4 DEF Poll, Receive, ReceiveFile, ReceiveReply, HandleKill, HandleSentinel, LookupItem,
                HandlePipe, HandleEvent
  <2> QED
    BY <2>1, <2>2, AccountedHalt, AccountedGoto, AccountedStill DEF Halted
<1> QED
  BY <1>1, <1>2, <1>3, <1>4 DEF WorkerStep

LEMMA UncreatedRingNext == IInv /\ UncreatedRing /\ [Next]_vars => UncreatedRing'
<1> SUFFICES ASSUME IInv, UncreatedRing, [Next]_vars PROVE UncreatedRing'
  OBVIOUS
<1>1. ASSUME NEW f \in Fences, QueryFence(f) \/ ChannelFence(f) PROVE UncreatedRing'
  <2>1. created' = created \cup {f} /\ \A g \in Fences \ {f} : fring'[g] = fring[g]
    BY <1>1 DEF QueryFence, ChannelFence, IInv, TypeOK, GuestType
  <2> QED
    BY <2>1 DEF UncreatedRing
<1>2. ASSUME UNCHANGED <<created, fring>> PROVE UncreatedRing'
  BY <1>2 DEF UncreatedRing
<1>3. CASE ContextStep /\ ~\E f \in Fences : QueryFence(f) \/ ChannelFence(f)
  <2>1. UNCHANGED <<created, fring>>
    BY <1>3 DEF ContextStep, attach, detach, initialize, get_image_requirements, SendBegin, SendIdentifier,
         SendFinish, WriteBegin, WriteEnd, WriteError, read_event_new, import_virtiofs_handle,
         socket_assign_uuid, context_create_blob, atomic_memory_sentinel_new,
         atomic_memory_sentinel_destroy, DropBegin, DropJoin, guestVars
  <2> QED
    BY <1>2, <2>1
<1>4. ASSUME NEW s \in Sessions, WorkerStep(s) PROVE UncreatedRing'
  <2>1. UNCHANGED <<created, fring>>
    BY <1>4 DEF WorkerStep, TakeJob, Poll, Receive, ReceiveFile, ReceiveReply, HandleResample, HandleKill,
         HandleSentinel, HandleSentinelShutdown, LookupItem, HandlePipe, HandleEvent, SignalFence,
         ctxSide, guestVars
  <2> QED
    BY <1>2, <2>1
<1>5. CASE Environment
  BY <1>2, <1>5 DEF Environment, GuestRead, PeerSend, PeerClose, PeerPipe, PeerEvent, WatcherSignal, guestVars
<1>6. CASE UNCHANGED vars
  BY <1>2, <1>6 DEF vars, guestVars
<1> QED
  BY <1>1, <1>3, <1>4, <1>5, <1>6 DEF Next

LEMMA AccountedNext == IInv /\ UncreatedRing /\ FenceAccounted /\ [Next]_vars => FenceAccounted'
<1>1. ASSUME FenceAccounted, UNCHANGED vars PROVE FenceAccounted'
  BY <1>1, AccountedStill DEF vars, workVars, guestVars, Halted
<1> QED
  BY <1>1, AccountedContext, AccountedWorker, AccountedEnvironment DEF Next

\* No fence is forgotten while the workers work: what was created is signalled,
\* queued or held, across resamples, requeues and new CMD_INITs, unless the
\* guest fenced before its first CMD_INIT or a worker has halted.
THEOREM FencesAccounted == Spec => []FenceAccounted
<1>1. Init => UncreatedRing /\ FenceAccounted
  BY DEF Init, UncreatedRing, FenceAccounted
<1> QED
  BY <1>1, Invariance, UncreatedRingNext, AccountedNext, PTL DEF Spec

-----------------------------------------------------------------------------
(* Item ids                                                                *)

\* An id the counters have not reached.
Ahead(id) == (id > descriptor_id /\ id < PipeReadStart) \/ id > read_pipe_id

\* The counters stay in their ranges, so neither wraps nor meets the other's
\* ids; and an item that write() holds outside the table was in it before, so
\* that putting it back reuses no id ahead of the counters.
IdInv ==
    /\ descriptor_id <= MaxDescriptor
    /\ PipeReadStart <= read_pipe_id /\ read_pipe_id <= MaxPipe
    /\ ctx = "write" => wr.id \in ImportIds \/ ~Ahead(wr.id)
    /\ FreshIds

\* The arithmetic of add_item: a counter below its bound does not wrap, and
\* the id given is the counter's new value.
LEMMA CounterStep ==
  ASSUME TypeOK, IdInv, NEW ty \in ItemTypes, add_item(ty)
  PROVE  /\ descriptor_id' \in Nat /\ read_pipe_id' \in Nat
         /\ descriptor_id <= descriptor_id' /\ descriptor_id' <= MaxDescriptor
         /\ read_pipe_id <= read_pipe_id' /\ read_pipe_id' <= MaxPipe
         /\ NewId(ty) \in {descriptor_id', read_pipe_id'}
<1>1. /\ {descriptor_id, read_pipe_id, IdModulus, PipeReadStart, MaxDescriptor, MaxPipe} \subseteq Nat
      /\ MaxDescriptor < IdModulus /\ MaxPipe < IdModulus
      /\ PipeReadStart <= read_pipe_id /\ descriptor_id <= MaxDescriptor /\ read_pipe_id <= MaxPipe
  BY IdAssumption DEF IdInv, TypeOK, SharedType, Ids
<1>2. CASE ty = "ReadPipe"
  <2>1. read_pipe_id < MaxPipe /\ descriptor_id' = descriptor_id
    BY <1>2 DEF add_item
  <2>2. (read_pipe_id + 1) % IdModulus = read_pipe_id + 1
    BY <1>1, <2>1
  <2>3. read_pipe_id' = read_pipe_id + 1 /\ NewId(ty) = read_pipe_id + 1
    BY <1>1, <1>2, <2>2 DEF add_item, NewId
  <2> QED
    BY <1>1, <2>1, <2>3
<1>3. CASE ty # "ReadPipe"
  <2>1. descriptor_id < MaxDescriptor /\ read_pipe_id' = read_pipe_id
    BY <1>3 DEF add_item
  <2>2. (descriptor_id + 1) % IdModulus = descriptor_id + 1
    BY <1>1, <2>1
  <2>3. descriptor_id' = descriptor_id + 1 /\ NewId(ty) = descriptor_id + 1
    BY <1>3, <2>2 DEF add_item, NewId
  <2> QED
    BY <1>1, <2>1, <2>3
<1> QED
  BY <1>2, <1>3

\* A new item gets an id at a counter, never one ahead of them.
LEMMA IdInvAdd ==
  ASSUME TypeOK, IdInv, NEW ty \in ItemTypes, add_item(ty), ctx' # "write" PROVE IdInv'
<1>1. /\ descriptor_id' \in Nat /\ read_pipe_id' \in Nat
      /\ descriptor_id <= descriptor_id' /\ descriptor_id' <= MaxDescriptor
      /\ read_pipe_id <= read_pipe_id' /\ read_pipe_id' <= MaxPipe
      /\ NewId(ty) \in {descriptor_id', read_pipe_id'}
  BY CounterStep
<1>2. /\ {descriptor_id, read_pipe_id, PipeReadStart, MaxDescriptor} \subseteq Nat
      /\ MaxDescriptor < PipeReadStart /\ PipeReadStart <= read_pipe_id
  BY IdAssumption DEF IdInv, TypeOK, SharedType, Ids
<1>3. ASSUME NEW id \in Ids \ ImportIds, Ahead(id)' PROVE items'[id] = "none"
  <2>1. id \in Nat
    BY IdAssumption DEF Ids
  <2>2. Ahead(id)
    BY <1>1, <1>2, <1>3, <2>1 DEF Ahead
  <2>3. id # NewId(ty)
    BY <1>1, <1>2, <1>3, <2>1 DEF Ahead
  <2>4. items[id] = "none"
    BY <2>2 DEF IdInv, FreshIds, Ahead
  <2> QED
    BY <2>3, <2>4 DEF add_item, TypeOK, SharedType
<1>4. FreshIds'
  BY <1>3 DEF FreshIds, Ahead
<1> QED
  BY <1>1, <1>2, <1>4 DEF IdInv

\* With the counters as they are, items only go, or come back where write()
\* took them, or are the guest's imports.
LEMMA IdInvKeep ==
  ASSUME TypeOK, IdInv, UNCHANGED <<descriptor_id, read_pipe_id>>,
         \A id \in Ids \ ImportIds : items'[id] \in {items[id], "none"} \/ ~Ahead(id),
         ctx' = "write" => wr'.id \in ImportIds \/ ~Ahead(wr'.id)
  PROVE  IdInv'
<1>1. \A id : Ahead(id)' <=> Ahead(id)
  BY DEF Ahead
<1>2. FreshIds'
  <2> SUFFICES ASSUME NEW id \in Ids \ ImportIds, Ahead(id) PROVE items'[id] = "none"
    BY <1>1 DEF FreshIds, Ahead
  <2> QED
    BY DEF IdInv, FreshIds, Ahead
<1> QED
  BY <1>2 DEF IdInv, Ahead

LEMMA IdInvDrop ==
  ASSUME TypeOK, IdInv, NEW id \in Ids, DropItem(id),
         ctx' = "write" => wr'.id \in ImportIds \/ ~Ahead(wr'.id)
  PROVE  IdInv'
<1>1. \A i \in Ids : items'[i] \in {items[i], "none"}
  BY DEF DropItem, TypeOK, SharedType
<1> QED
  BY <1>1, IdInvKeep DEF DropItem

LEMMA IdInvSame ==
  ASSUME TypeOK, IdInv, UNCHANGED itemVars,
         UNCHANGED <<ctx, wr>> \/ ctx' # "write"
  PROVE  IdInv'
<1>1. ctx' = "write" => wr'.id \in ImportIds \/ ~Ahead(wr'.id)
  BY DEF IdInv
<1> QED
  BY <1>1, IdInvKeep DEF itemVars

LEMMA IdInvSend == ASSUME TypeOK, IdInv, SendIdentifier PROVE IdInv'
<1>1. send.todo \in Seq([type : IdentTypes, id : Ids]) /\ send.todo # <<>>
  BY DEF SendIdentifier, TypeOK, CtxType
<1>2. Head(send.todo).id \in Ids
  <2>1. Head(send.todo) \in [type : IdentTypes, id : Ids]
    BY <1>1, HeadAndTail
  <2> QED
    BY <2>1
<1>3. ctx = "send" /\ ctx' # "write"
  BY DEF SendIdentifier, SendBlob, SendReadPipe, SendFsBlob, SendNext, SendError
<1>4. \/ UNCHANGED itemVars \/ add_item("ReadPipe") \/ DropItem(Head(send.todo).id)
  BY DEF SendIdentifier, SendBlob, SendReadPipe, SendFsBlob
<1> QED
  BY <1>2, <1>3, <1>4, IdInvSame, IdInvAdd, IdInvDrop DEF ItemTypes

LEMMA IdInvWriteBegin ==
  ASSUME TypeOK, IdInv, NEW id \in TouchIds, NEW hup, WriteBegin(id, hup) PROVE IdInv'
<1>1. id \in Ids
  BY IdAssumption
<1>2. ctx = "idle" /\ (ctx' = "write" => wr'.id = id) /\ items[id] # "none" /\ DropItem(id)
  BY DEF WriteBegin, Idle
<1>3. id \in ImportIds \/ ~Ahead(id)
  BY <1>1, <1>2 DEF IdInv, FreshIds, Ahead
<1> QED
  BY <1>1, <1>2, <1>3, IdInvDrop

LEMMA IdInvWriteEnd == ASSUME TypeOK, IdInv, WriteEnd PROVE IdInv'
<1>1. /\ ctx = "write" /\ ctx' = "idle" /\ UNCHANGED <<descriptor_id, read_pipe_id>>
      /\ items' = items \/ items' = [items EXCEPT ![wr.id] = wr.ty]
  BY DEF WriteEnd
<1>2. wr.id \in ImportIds \/ ~Ahead(wr.id)
  BY <1>1 DEF IdInv
<1>3. \A i \in Ids \ ImportIds : items'[i] \in {items[i], "none"} \/ ~Ahead(i)
  BY <1>1, <1>2 DEF TypeOK, SharedType
<1> QED
  BY <1>1, <1>3, IdInvKeep

LEMMA IdInvContext == ASSUME TypeOK, IdInv, ContextStep PROVE IdInv'
<1>1. ASSUME NEW r \in Resources, attach(r) \/ detach(r) PROVE IdInv'
  BY <1>1, IdInvSame DEF attach, detach, ctxVars
<1>2. ASSUME NEW c \in InitCmds, initialize(c) PROVE IdInv'
  BY <1>2, IdInvSame DEF initialize
<1>3. CASE get_image_requirements
  <2>1. add_item("Reqs") /\ ctx' # "write"
    BY <1>3 DEF get_image_requirements, Idle, ctxVars
  <2> QED
    BY <2>1, IdInvAdd DEF ItemTypes
<1>4. CASE SendFinish \/ WriteError \/ DropBegin \/ DropJoin \/ \E cmd \in SendCmds : SendBegin(cmd)
  <2>1. UNCHANGED itemVars /\ ctx' # "write"
    BY <1>4 DEF SendFinish, SendError, WriteError, DropBegin, DropJoin, SendBegin
  <2> QED
    BY <2>1, IdInvSame
<1>5. ASSUME NEW id \in TouchIds, context_create_blob(id) \/ \E u \in Uuids : socket_assign_uuid(id, u)
      PROVE  IdInv'
  <2>1. id \in Ids /\ DropItem(id) /\ ctx' # "write"
    BY <1>5, IdAssumption DEF context_create_blob, socket_assign_uuid, Idle, ctxVars
  <2> QED
    BY <2>1, IdInvDrop
<1>6. ASSUME NEW id \in ImportIds, import_virtiofs_handle(id) PROVE IdInv'
  <2>1. /\ items' = [items EXCEPT ![id] = "File"] /\ UNCHANGED <<descriptor_id, read_pipe_id>>
        /\ ctx' # "write"
    BY <1>6 DEF import_virtiofs_handle, Idle, ctxVars
  <2>2. \A i \in Ids \ ImportIds : items'[i] = items[i]
    BY <2>1 DEF TypeOK, SharedType
  <2> QED
    BY <2>1, <2>2, IdInvKeep
<1>7. ASSUME NEW id, read_event_new(id) \/ atomic_memory_sentinel_new(id) \/ atomic_memory_sentinel_destroy(id)
      PROVE  IdInv'
  BY <1>7, IdInvSame DEF read_event_new, atomic_memory_sentinel_new, atomic_memory_sentinel_destroy, ctxVars
<1>8. ASSUME NEW f \in Fences, QueryFence(f) \/ ChannelFence(f) PROVE IdInv'
  BY <1>8, IdInvSame DEF QueryFence, ChannelFence, ctxVars
<1> QED
  BY <1>1, <1>2, <1>3, <1>4, <1>5, <1>6, <1>7, <1>8, IdInvSend, IdInvWriteBegin, IdInvWriteEnd
     DEF ContextStep

LEMMA IdInvWorker == ASSUME TypeOK, IdInv, NEW s \in Sessions, WorkerStep(s) PROVE IdInv'
<1>1. UNCHANGED <<ctx, wr>>
  BY DEF WorkerStep, TakeJob, Poll, Receive, ReceiveFile, ReceiveReply, HandleResample, HandleKill,
         HandleSentinel, HandleSentinelShutdown, LookupItem, HandlePipe, HandleEvent, SignalFence,
         ctxSide, ctxVars
<1>2. CASE ReceiveFile(s)
  <2>1. wfiles[s] \in Seq(FileTypes) /\ wfiles[s] # <<>>
    BY <1>2 DEF ReceiveFile, TypeOK, WorkerType
  <2>2. Head(wfiles[s]) \in FileTypes
    BY <2>1
  <2>3. CASE UNCHANGED itemVars
    BY <1>1, <2>3, IdInvSame
  <2>4. CASE ~UNCHANGED itemVars
    <3>1. add_item(Head(wfiles[s])) /\ Head(wfiles[s]) \in ItemTypes
      BY <1>2, <2>2, <2>4 DEF ReceiveFile, FileTypes, ItemTypes
    <3>2. ctx' # "write"
      BY <1>1, <3>1 DEF add_item, ItemsFree
    <3> QED
      BY <3>1, <3>2, IdInvAdd
  <2> QED
    BY <2>3, <2>4
<1>3. CASE HandlePipe(s)
  <2>1. wevent[s].id \in Ids
    BY DEF TypeOK, WorkerType
  <2>2. UNCHANGED itemVars \/ DropItem(wevent[s].id)
    BY <1>3 DEF HandlePipe
  <2>3. ctx' = "write" => wr'.id \in ImportIds \/ ~Ahead(wr'.id)
    BY <1>1 DEF IdInv
  <2> QED
    BY <1>1, <2>1, <2>2, <2>3, IdInvSame, IdInvDrop
<1>4. CASE ~ReceiveFile(s) /\ ~HandlePipe(s)
  <2>1. UNCHANGED itemVars
    BY <1>4 DEF WorkerStep, TakeJob, Poll, Receive, ReceiveReply, HandleResample, HandleKill,
         HandleSentinel, HandleSentinelShutdown, LookupItem, HandleEvent, SignalFence
  <2> QED
    BY <1>1, <2>1, IdInvSame
<1> QED
  BY <1>2, <1>3, <1>4

LEMMA IdInvNext == TypeOK /\ IdInv /\ [Next]_vars => IdInv'
<1>1. ASSUME TypeOK, IdInv, Environment PROVE IdInv'
  <2>1. UNCHANGED <<itemVars, ctx, wr>>
    BY <1>1 DEF Environment, GuestRead, PeerSend, PeerClose, PeerPipe, PeerEvent, WatcherSignal,
                hostSide, ctxVars
  <2> QED
    BY <1>1, <2>1, IdInvSame
<1>2. ASSUME TypeOK, IdInv, UNCHANGED vars PROVE IdInv'
  <2>1. UNCHANGED <<itemVars, ctx, wr>>
    BY <1>2 DEF vars, ctxVars
  <2> QED
    BY <1>2, <2>1, IdInvSame
<1> QED
  BY <1>1, <1>2, IdInvContext, IdInvWorker DEF Next

LEMMA IdInvAlways == Spec => []IdInv
<1>1. Init => IdInv
  BY IdAssumption DEF Init, IdInv, FreshIds
<1> QED
  BY <1>1, TypeCorrect, IdInvNext, PTL DEF Spec

\* add_item never gives out an id that is in use (common.rs): whatever the
\* worker and the VMM thread add, drop, or take out and put back, no id ahead
\* of the counters is taken, except by an import the guest chose the id of.
\* This holds as long as neither counter has come to the end of its range,
\* where the bounds MaxDescriptor and MaxPipe stop the model.
THEOREM IdsStayFresh == Spec => []FreshIds
<1>1. IdInv => FreshIds
  BY DEF IdInv
<1> QED
  BY <1>1, IdInvAlways, PTL
=============================================================================
