------------------------- MODULE CrossDomainProofs -------------------------
(***************************************************************************)
(* Proofs about CrossDomain: type correctness and the single signalling of *)
(* every guest fence, for any number of sessions, fences and ids.          *)
(***************************************************************************)
EXTENDS CrossDomain, TLAPS

\* A session the context has started has its rings; workers belong to started
\* sessions.
SessionInv ==
    /\ chan <= cur
    /\ \A s \in Sessions :
          /\ s <= cur => rings[s].query \in Resources /\ rings[s].channel \in Resources
          /\ wpc[s] # "none" => s <= cur

\* The number of a received message is positive.
PeerInv == \A s \in Sessions : Len(inq[s]) <= csent[s]

\* A fence the code still owes a signal for.
Owed(f) == f \in created /\ signals[f] = 0 /\ fring[f] \in Resources

\* A worker holds a fence exactly while it serves one.
HeldWhileBusy == \A s \in Sessions : wpc[s] \in Busy <=> wfence[s] # NoFence

\* The fence of a HandleFence job at place i of queue s.
FenceAt(s, i, f) == jobs[s][i] = Job("HandleFence", f)
Places(s) == 1 .. Len(jobs[s])

HeldOnce ==
    \A s, t \in Sessions : wfence[s] # NoFence /\ wfence[s] = wfence[t] => s = t

QueuedOnce ==
    \A f \in Fences, s, t \in Sessions : \A i \in Places(s), j \in Places(t) :
        FenceAt(s, i, f) /\ FenceAt(t, j, f) => s = t /\ i = j

HeldNotQueued ==
    \A f \in Fences, s, t \in Sessions : \A i \in Places(t) :
        wfence[s] = f => ~FenceAt(t, i, f)

HeldOwed == \A s \in Sessions : wfence[s] # NoFence => Owed(wfence[s])

QueuedOwed ==
    \A f \in Fences, s \in Sessions : \A i \in Places(s) : FenceAt(s, i, f) => Owed(f)

SignalledCreated == \A f \in Fences : f \notin created => signals[f] = 0

FenceInv ==
    /\ HeldWhileBusy /\ HeldOnce /\ QueuedOnce /\ HeldNotQueued
    /\ HeldOwed /\ QueuedOwed /\ SignalledCreated /\ SignalOnce

IInv == TypeOK /\ SessionInv /\ PeerInv /\ FenceInv

-----------------------------------------------------------------------------
(* Constants and helpers                                                   *)

USE DEF ChannelId, ResampleId, KillId

\* The ids no item allocates are ids.
LEMMA FixedIds ==
    /\ IdModulus \in Nat \ {0} /\ PipeReadStart \in Ids
    /\ {0, ChannelId, ResampleId, KillId} \subseteq Ids
    /\ MaxInits \in Nat
  BY IdAssumption, InputAssumption DEF Ids

\* An increment modulo 2^32 is an id again.
LEMMA IncrementIsId == ASSUME NEW n \in Ids PROVE (n + 1) % IdModulus \in Ids
  BY FixedIds DEF Ids

\* add_item gives out an id (common.rs, add_item).
LEMMA NewIdIsId ==
    ASSUME descriptor_id \in Ids, read_pipe_id \in Ids, NEW ty
    PROVE  NewId(ty) \in Ids
  BY FixedIds, IncrementIsId, IdAssumption DEF NewId, Ids

\* An empty ring holds the empty message.
LEMMA NoMsgIsMessage == NoMsg \in Messages
  BY FixedIds DEF NoMsg, Msg, Messages

\* The parts of a queue.
LEMMA HeadAndTail ==
    ASSUME NEW S, NEW q \in Seq(S), q # <<>>
    PROVE  /\ Head(q) \in S /\ Tail(q) \in Seq(S)
           /\ Len(q) > 0 /\ Len(Tail(q)) = Len(q) - 1
  OBVIOUS

\* The initial states satisfy the inductive invariant.
LEMMA InitIInv == Init => IInv
<1> SUFFICES ASSUME Init PROVE IInv
  OBVIOUS
<1> USE FixedIds, NoMsgIsMessage DEF Init
<1>1. CtxType
  BY DEF CtxType, ItemTypes
<1>2. SharedType
  BY DEF SharedType, Ids
<1>3. WorkerType
  BY DEF WorkerType
<1>4. GuestType
  BY DEF GuestType
<1>5. PeerType
  BY DEF PeerType
<1>6. SessionInv /\ PeerInv
  BY DEF SessionInv, PeerInv, Sessions
<1>7. FenceInv
  BY DEF FenceInv, HeldWhileBusy, HeldOnce, QueuedOnce, HeldNotQueued, HeldOwed, QueuedOwed,
         SignalledCreated, SignalOnce, Places, Busy
<1> QED
  BY <1>1, <1>2, <1>3, <1>4, <1>5, <1>6, <1>7 DEF IInv, TypeOK

-----------------------------------------------------------------------------
(* What a step may do with fences                                          *)

fenceVars == <<jobs, wpc, wfence, signals, created, fring>>
FenceTypes ==
    /\ jobs \in [Sessions -> Seq(Jobs)]
    /\ wpc \in [Sessions -> Busy \cup {"none", "idle", "halted", "done"}]
    /\ wfence \in [Sessions -> Fences \cup {NoFence}]
    /\ signals \in [Fences -> Nat] /\ created \subseteq Fences
    /\ fring \in [Fences -> Resources \cup {0}]

\* A step that touches no fence.
LEMMA FenceFrame ==
    ASSUME FenceInv, UNCHANGED fenceVars PROVE FenceInv'
  BY DEF FenceInv, fenceVars, HeldWhileBusy, HeldOnce, QueuedOnce, HeldNotQueued, HeldOwed,
         QueuedOwed, SignalledCreated, SignalOnce, Places, FenceAt, Owed

\* A worker moves on with the fence it has, or without one.
LEMMA FencePc ==
    ASSUME FenceInv, FenceTypes, NEW s \in Sessions,
           NEW pc \in Busy \cup {"none", "idle", "halted", "done"},
           pc \in Busy <=> wpc[s] \in Busy,
           wpc' = [wpc EXCEPT ![s] = pc],
           UNCHANGED <<jobs, wfence, signals, created, fring>>
    PROVE  FenceInv'
<1>1. HeldWhileBusy'
  BY DEF FenceInv, FenceTypes, HeldWhileBusy
<1> QED
  BY <1>1 DEF FenceInv, HeldOnce, QueuedOnce, HeldNotQueued, HeldOwed, QueuedOwed,
              SignalledCreated, SignalOnce, Places, FenceAt, Owed

\* add_job of anything but a fence.
LEMMA FenceAddJob ==
    ASSUME FenceInv, FenceTypes, NEW s \in Sessions, NEW job \in Jobs,
           job.op # "HandleFence", add_job(s, job),
           UNCHANGED <<wpc, wfence, signals, created, fring>>
    PROVE  FenceInv'
<1> DEFINE q == Append(jobs[s], job)
<1>1. /\ jobs' = [jobs EXCEPT ![s] = q]
      /\ Len(q) = Len(jobs[s]) + 1 /\ q[Len(jobs[s]) + 1] = job
      /\ \A i \in Places(s) : q[i] = jobs[s][i]
      /\ Len(jobs[s]) \in Nat
  BY DEF FenceTypes, add_job, Places
<1>2. \A t \in Sessions, f \in Fences : \A i \in Places(t)' :
        FenceAt(t, i, f)' => i \in Places(t) /\ FenceAt(t, i, f)
  <2> TAKE t \in Sessions, f \in Fences
  <2> TAKE i \in Places(t)'
  <2>1. CASE t # s
    BY <2>1, <1>1 DEF Places, FenceAt, FenceTypes
  <2>2. CASE t = s
    BY <2>2, <1>1 DEF Places, FenceAt, FenceTypes, Job
  <2> QED
    BY <2>1, <2>2
<1> HIDE DEF q
<1> QED
  BY <1>2 DEF FenceInv, HeldWhileBusy, HeldOnce, QueuedOnce, HeldNotQueued, HeldOwed, QueuedOwed,
              SignalledCreated, SignalOnce, Owed

\* A worker takes a job that is no fence, or ends: what it held is gone.
LEMMA FenceDrop ==
    ASSUME FenceInv, FenceTypes, NEW s \in Sessions, NEW pc \in {"idle", "halted", "done"},
           \/ jobs' = jobs
           \/ jobs[s] # <<>> /\ jobs' = [jobs EXCEPT ![s] = Tail(@)],
           wpc' = [wpc EXCEPT ![s] = pc],
           wfence' = [wfence EXCEPT ![s] = NoFence],
           UNCHANGED <<signals, created, fring>>
    PROVE  FenceInv'
<1>1. \A t \in Sessions : \E d \in {0, 1} : \A i \in Places(t)' :
         i + d \in Places(t) /\ jobs'[t][i] = jobs[t][i + d]
  <2>1. CASE jobs' = jobs
    <3> TAKE t \in Sessions
    <3> WITNESS 0 \in {0, 1}
    <3> QED
      BY <2>1 DEF Places, FenceTypes
  <2>2. CASE jobs[s] # <<>> /\ jobs' = [jobs EXCEPT ![s] = Tail(@)]
    <3> TAKE t \in Sessions
    <3>1. CASE t = s
      <4> WITNESS 1 \in {0, 1}
      <4> QED
        BY <2>2, <3>1 DEF Places, FenceTypes
    <3>2. CASE t # s
      <4> WITNESS 0 \in {0, 1}
      <4> QED
        BY <2>2, <3>2 DEF Places, FenceTypes
    <3> QED
      BY <3>1, <3>2
  <2> QED
    BY <2>1, <2>2
<1>2. HeldWhileBusy'
  BY DEF FenceInv, FenceTypes, HeldWhileBusy, Busy
<1>3. HeldOnce' /\ HeldOwed' /\ SignalledCreated' /\ SignalOnce'
  BY DEF FenceInv, FenceTypes, HeldOnce, HeldOwed, SignalledCreated, SignalOnce, Owed
<1>4. QueuedOnce'
  <2> SUFFICES ASSUME NEW f \in Fences, NEW t \in Sessions, NEW u \in Sessions,
                      NEW i \in Places(t)', NEW j \in Places(u)',
                      FenceAt(t, i, f)', FenceAt(u, j, f)'
               PROVE  t = u /\ i = j
    BY DEF QueuedOnce
  <2>1. PICK d \in {0, 1} : \A k \in Places(t)' :
           k + d \in Places(t) /\ jobs'[t][k] = jobs[t][k + d]
    BY <1>1
  <2>2. PICK e \in {0, 1} : \A k \in Places(u)' :
           k + e \in Places(u) /\ jobs'[u][k] = jobs[u][k + e]
    BY <1>1
  <2>3. FenceAt(t, i + d, f) /\ FenceAt(u, j + e, f)
    BY <2>1, <2>2 DEF FenceAt
  <2>4. t = u /\ i + d = j + e
    BY <2>1, <2>2, <2>3 DEF FenceInv, QueuedOnce
  <2>5. CASE i = j
    BY <2>4, <2>5
  <2>6. CASE i # j
    <3>1. FenceAt(t, i + d, f) /\ FenceAt(t, j + d, f) /\ j + d \in Places(t)
      BY <2>1, <2>2, <2>3, <2>4 DEF FenceAt
    <3>2. i + d = j + d
      BY <3>1, <2>1 DEF FenceInv, QueuedOnce
    <3> QED
      BY <3>2, <2>6 DEF Places
  <2> QED
    BY <2>5, <2>6
<1>5. HeldNotQueued'
  <2> SUFFICES ASSUME NEW f \in Fences, NEW t \in Sessions, NEW u \in Sessions,
                      NEW i \in Places(u)', wfence'[t] = f, FenceAt(u, i, f)'
               PROVE  FALSE
    BY DEF HeldNotQueued
  <2>1. PICK d \in {0, 1} : \A k \in Places(u)' :
           k + d \in Places(u) /\ jobs'[u][k] = jobs[u][k + d]
    BY <1>1
  <2>2. wfence[t] = f
    BY InputAssumption DEF FenceTypes
  <2> QED
    BY <2>1, <2>2 DEF FenceInv, HeldNotQueued, FenceAt
<1>6. QueuedOwed'
  <2> SUFFICES ASSUME NEW f \in Fences, NEW u \in Sessions, NEW i \in Places(u)', FenceAt(u, i, f)'
               PROVE  Owed(f)'
    BY DEF QueuedOwed
  <2>1. PICK d \in {0, 1} : \A k \in Places(u)' :
           k + d \in Places(u) /\ jobs'[u][k] = jobs[u][k + d]
    BY <1>1
  <2> QED
    BY <2>1 DEF FenceInv, QueuedOwed, FenceAt, Owed
<1> QED
  BY <1>2, <1>3, <1>4, <1>5, <1>6 DEF FenceInv

\* A worker takes a fence from its queue.
LEMMA FenceTake ==
    ASSUME FenceInv, FenceTypes, NEW s \in Sessions, NEW f \in Fences,
           jobs[s] # <<>>, Head(jobs[s]) = Job("HandleFence", f), wpc[s] = "idle",
           jobs' = [jobs EXCEPT ![s] = Tail(@)],
           wpc' = [wpc EXCEPT ![s] = "poll"],
           wfence' = [wfence EXCEPT ![s] = f],
           UNCHANGED <<signals, created, fring>>
    PROVE  FenceInv'
<1>1. 1 \in Places(s) /\ FenceAt(s, 1, f) /\ wfence[s] = NoFence /\ f # NoFence
  <2>1. jobs[s] \in Seq(Jobs) /\ Len(jobs[s]) > 0
    BY DEF FenceTypes
  <2>2. 1 \in Places(s) /\ FenceAt(s, 1, f)
    BY <2>1 DEF Places, FenceAt
  <2>3. wfence[s] = NoFence /\ f # NoFence
    BY InputAssumption DEF FenceTypes, FenceInv, HeldWhileBusy, Busy
  <2> QED
    BY <2>2, <2>3
<1>2. /\ \A t \in Sessions \ {s} : jobs'[t] = jobs[t]
      /\ \A i \in Places(s)' : i + 1 \in Places(s) /\ jobs'[s][i] = jobs[s][i + 1]
  BY DEF Places, FenceTypes
<1>3. HeldWhileBusy'
  BY <1>1 DEF FenceInv, FenceTypes, HeldWhileBusy, Busy
<1>4. Owed(f) /\ \A t \in Sessions : wfence[t] # f
  BY <1>1 DEF FenceInv, QueuedOwed, HeldNotQueued
<1>5. HeldOnce' /\ HeldOwed' /\ SignalledCreated' /\ SignalOnce'
  BY <1>4 DEF FenceInv, FenceTypes, HeldOnce, HeldOwed, SignalledCreated, SignalOnce, Owed
<1>6. \A g \in Fences, t \in Sessions : \A i \in Places(t)' :
        FenceAt(t, i, g)' =>
            \/ t # s /\ i \in Places(t) /\ FenceAt(t, i, g)
            \/ t = s /\ i + 1 \in Places(t) /\ FenceAt(t, i + 1, g)
  BY <1>2 DEF FenceAt, Places
<1>7. QueuedOnce'
  <2> SUFFICES ASSUME NEW g \in Fences, NEW t \in Sessions, NEW u \in Sessions,
                      NEW i \in Places(t)', NEW j \in Places(u)',
                      FenceAt(t, i, g)', FenceAt(u, j, g)'
               PROVE  t = u /\ i = j
    BY DEF QueuedOnce
  <2>1. t = u
    BY <1>6 DEF FenceInv, QueuedOnce
  <2>2. CASE t # s
    BY <1>6, <2>1, <2>2 DEF FenceInv, QueuedOnce
  <2>3. CASE t = s
    <3>1. i + 1 = j + 1
      BY <1>6, <2>1, <2>3 DEF FenceInv, QueuedOnce
    <3> QED
      BY <3>1, <2>1 DEF Places
  <2> QED
    BY <2>2, <2>3
<1>8. HeldNotQueued'
  <2> SUFFICES ASSUME NEW g \in Fences, NEW t \in Sessions, NEW u \in Sessions,
                      NEW i \in Places(u)', wfence'[t] = g, FenceAt(u, i, g)'
               PROVE  FALSE
    BY DEF HeldNotQueued
  <2>1. CASE t # s
    <3>1. wfence[t] = g
      BY <2>1 DEF FenceTypes
    <3> QED
      BY <3>1, <1>6 DEF FenceInv, HeldNotQueued
  <2>2. CASE t = s
    <3>1. g = f
      BY <2>2 DEF FenceTypes
    <3>2. CASE u # s
      BY <3>1, <3>2, <1>1, <1>6 DEF FenceInv, QueuedOnce
    <3>3. CASE u = s
      <4>1. 1 = i + 1
        BY <3>1, <3>3, <1>1, <1>6 DEF FenceInv, QueuedOnce
      <4> QED
        BY <4>1 DEF Places
    <3> QED
      BY <3>2, <3>3
  <2> QED
    BY <2>1, <2>2
<1>9. QueuedOwed'
  BY <1>6 DEF FenceInv, QueuedOwed, Owed
<1> QED
  BY <1>3, <1>5, <1>7, <1>8, <1>9 DEF FenceInv

\* A fence nobody has queued or holds goes to the end of a queue.
LEMMA FenceEnqueue ==
    ASSUME QueuedOnce, HeldNotQueued, QueuedOwed, FenceTypes,
           NEW s \in Sessions, NEW f \in Fences,
           add_job(s, Job("HandleFence", f)),
           \A t \in Sessions : \A i \in Places(t) : ~FenceAt(t, i, f),
           \A t \in Sessions : wfence'[t] # f /\ (wfence'[t] # NoFence => wfence'[t] = wfence[t]),
           \A g \in Fences : Owed(g) => Owed(g)', Owed(f)'
    PROVE  QueuedOnce' /\ HeldNotQueued' /\ QueuedOwed'
<1> DEFINE q == Append(jobs[s], Job("HandleFence", f))
<1>1. /\ jobs' = [jobs EXCEPT ![s] = q]
      /\ Len(q) = Len(jobs[s]) + 1 /\ q[Len(jobs[s]) + 1] = Job("HandleFence", f)
      /\ \A i \in Places(s) : q[i] = jobs[s][i]
      /\ Len(jobs[s]) \in Nat
  BY DEF FenceTypes, add_job, Places, Jobs, Job, JobOps
<1>2. \A t \in Sessions, g \in Fences : \A i \in Places(t)' :
        FenceAt(t, i, g)' =>
            \/ i \in Places(t) /\ FenceAt(t, i, g)
            \/ t = s /\ g = f /\ i = Len(jobs[s]) + 1
  <2> TAKE t \in Sessions, g \in Fences
  <2> TAKE i \in Places(t)'
  <2>1. CASE t # s
    BY <2>1, <1>1 DEF Places, FenceAt, FenceTypes
  <2>2. CASE t = s
    BY <2>2, <1>1 DEF Places, FenceAt, FenceTypes, Job
  <2> QED
    BY <2>1, <2>2
<1> HIDE DEF q
<1>3. QueuedOnce'
  BY <1>2 DEF QueuedOnce
<1>4. HeldNotQueued'
  BY <1>2, InputAssumption DEF HeldNotQueued
<1>5. QueuedOwed'
  BY <1>2 DEF QueuedOwed
<1> QED
  BY <1>3, <1>4, <1>5

-----------------------------------------------------------------------------
(* The steps of the VMM thread preserve the invariant                      *)

USE DEF ctxVars, itemVars, sentVars, workVars, guestVars, peerVars, wakeVars, ctxSide, hostSide

\* The part of the invariant the fence lemmas use.
LEMMA IInvTypes == ASSUME IInv PROVE FenceTypes /\ FenceInv
  BY DEF IInv, TypeOK, SharedType, WorkerType, GuestType, FenceTypes

\* attach replaces the entry of one resource and touches no fence.
LEMMA attachIInv == ASSUME IInv, NEW r \in Resources, attach(r) PROVE IInv'
<1> USE DEF attach
<1>1. CtxType' /\ WorkerType' /\ GuestType' /\ PeerType' /\ SessionInv' /\ PeerInv'
  BY DEF IInv, TypeOK, CtxType, WorkerType, GuestType, PeerType, SessionInv, PeerInv
<1>2. SharedType'
  BY DEF IInv, TypeOK, SharedType
<1>3. FenceInv'
  BY FenceFrame DEF IInv, fenceVars
<1> QED
  BY <1>1, <1>2, <1>3 DEF IInv, TypeOK

\* detach removes one resource of the context.
LEMMA detachIInv == ASSUME IInv, NEW r \in Resources, detach(r) PROVE IInv'
<1> USE DEF detach
<1>1. CtxType' /\ WorkerType' /\ GuestType' /\ PeerType' /\ SessionInv' /\ PeerInv'
  BY DEF IInv, TypeOK, CtxType, WorkerType, GuestType, PeerType, SessionInv, PeerInv
<1>2. SharedType'
  BY DEF IInv, TypeOK, SharedType
<1>3. FenceInv'
  BY FenceFrame DEF IInv, fenceVars
<1> QED
  BY <1>1, <1>2, <1>3 DEF IInv, TypeOK

\* initialize gives the new session its rings before its worker starts; the
\* worker starts without a fence.
LEMMA initializeIInv == ASSUME IInv, NEW c \in InitCmds, initialize(c) PROVE IInv'
<1>1. /\ c \in [query : Resources, channel : Resources, type : InitTypes, uuid : Uuids]
      /\ cur + 1 \in Sessions /\ cur \in Nat
  BY FixedIds, InputAssumption DEF IInv, TypeOK, CtxType, initialize, Sessions
<1>2. SharedType' /\ GuestType' /\ PeerType' /\ PeerInv'
  BY DEF initialize, IInv, TypeOK, SharedType, GuestType, PeerType, PeerInv
<1> DEFINE e == [query |-> c.query, channel |-> c.channel]
<1>3. e \in [query : Resources, channel : Resources]
  BY <1>1
<1>4. /\ ctxVars' = <<ctx, send, wr, paths', cur', chan', sockets', backing>>
      /\ paths' \in BOOLEAN /\ sockets' \subseteq Uuids
      /\ \/ UNCHANGED <<cur, chan, rings, workVars>>
         \/ /\ cur' = cur + 1 /\ rings' = [rings EXCEPT ![cur + 1] = e]
            /\ UNCHANGED <<wfence, wevent, wreply, wfiles, reg>>
            /\ \/ UNCHANGED <<chan, wpc>>
               \/ chan' = cur + 1 /\ wpc' = [wpc EXCEPT ![cur + 1] = "idle"]
  BY DEF initialize, Spawn, IInv, TypeOK, CtxType
<1> HIDE DEF e
<1>5. CtxType' /\ WorkerType' /\ SessionInv'
  <2>1. rings' \in [Sessions -> [query : Resources \cup {0}, channel : Resources \cup {0}]]
    BY <1>1, <1>3, <1>4 DEF IInv, TypeOK, CtxType
  <2>2. cur' \in 0 .. MaxInits /\ chan' \in 0 .. MaxInits /\ chan' <= cur' /\ cur <= cur'
    BY <1>1, <1>4, FixedIds DEF IInv, TypeOK, CtxType, SessionInv, Sessions
  <2>3. CtxType'
    BY <1>4, <2>1, <2>2 DEF IInv, TypeOK, CtxType
  <2>4. WorkerType'
    BY <1>1, <1>4 DEF IInv, TypeOK, WorkerType
  <2>5. ASSUME NEW s \in Sessions
        PROVE  /\ (s <= cur => rings[s].query \in Resources /\ rings[s].channel \in Resources)'
               /\ (wpc[s] # "none" => s <= cur)'
    <3>1. CASE s = cur + 1
      <4>1. CASE UNCHANGED <<cur, rings, wpc>>
        BY <4>1 DEF IInv, SessionInv
      <4>2. CASE cur' = cur + 1 /\ rings' = [rings EXCEPT ![cur + 1] = e]
        <5>1. rings'[s] = e /\ s <= cur'
          BY <1>1, <3>1, <4>2 DEF IInv, TypeOK, CtxType
        <5> QED
          BY <1>3, <5>1
      <4> QED
        BY <1>4, <4>1, <4>2
    <3>2. CASE s # cur + 1
      <4>1. rings'[s] = rings[s] /\ wpc'[s] = wpc[s]
        BY <1>1, <1>4, <3>2 DEF IInv, TypeOK, CtxType, WorkerType
      <4>2. s <= cur' => s <= cur
        BY <1>1, <1>4, <3>2, FixedIds DEF Sessions
      <4>3. s <= cur => s <= cur'
        BY <1>1, <1>4, FixedIds DEF Sessions
      <4> QED
        BY <4>1, <4>2, <4>3 DEF IInv, SessionInv
    <3> QED
      BY <3>1, <3>2
  <2> QED
    BY <2>2, <2>3, <2>4, <2>5 DEF SessionInv
<1>6. FenceInv'
  <2>1. CASE wpc' = wpc
    BY <2>1, FenceFrame DEF initialize, Spawn, IInv, fenceVars
  <2>2. CASE wpc' = [wpc EXCEPT ![cur + 1] = "idle"] /\ UNCHANGED wfence
    <3>1. wpc[cur + 1] = "none"
      BY <1>1 DEF IInv, SessionInv, TypeOK, CtxType
    <3> QED
      BY <1>1, <2>2, <3>1, FencePc, IInvTypes DEF initialize, Busy
  <2> QED
    BY <2>1, <2>2 DEF initialize, Spawn
<1> QED
  BY <1>2, <1>5, <1>6 DEF IInv, TypeOK

\* get_image_requirements adds an item and writes a message to the query ring.
LEMMA get_image_requirementsIInv == ASSUME IInv, get_image_requirements PROVE IInv'
<1> USE DEF get_image_requirements
<1>1. CtxType' /\ WorkerType' /\ GuestType' /\ PeerType' /\ SessionInv' /\ PeerInv'
  BY DEF IInv, TypeOK, CtxType, WorkerType, GuestType, PeerType, SessionInv, PeerInv
<1>2. NewId("Reqs") \in Ids
  BY NewIdIsId DEF IInv, TypeOK, SharedType
<1>3. Msg("reqs", NewId("Reqs"), 0, <<>>) \in Messages
  BY <1>2, FixedIds DEF Msg, Messages, Ids
<1>4. SharedType'
  BY <1>2, <1>3, IncrementIsId DEF IInv, TypeOK, SharedType, add_item, ItemTypes
<1>5. FenceInv'
  BY FenceFrame DEF IInv, fenceVars
<1> QED
  BY <1>1, <1>4, <1>5 DEF IInv, TypeOK

\* send starts with the identifiers of the command.
LEMMA SendBeginIInv == ASSUME IInv, NEW cmd \in SendCmds, SendBegin(cmd) PROVE IInv'
<1> USE DEF SendBegin
<1>1. SharedType' /\ WorkerType' /\ GuestType' /\ PeerType' /\ SessionInv' /\ PeerInv'
  BY DEF IInv, TypeOK, SharedType, WorkerType, GuestType, PeerType, SessionInv, PeerInv
<1>2. CtxType'
  BY FixedIds, InputAssumption DEF IInv, TypeOK, CtxType
<1>3. FenceInv'
  BY FenceFrame DEF IInv, fenceVars
<1> QED
  BY <1>1, <1>2, <1>3 DEF IInv, TypeOK

\* Dropping an item keeps the types of the item table and of the epoll sets.
LEMMA DropItemTypes ==
    ASSUME items \in [Ids -> ItemTypes \cup {"none"}],
           reg \in [Sessions -> SUBSET (Ids \X {"item", "job", "manager"})],
           NEW id \in Ids, DropItem(id)
    PROVE  /\ items' \in [Ids -> ItemTypes \cup {"none"}]
           /\ reg' \in [Sessions -> SUBSET (Ids \X {"item", "job", "manager"})]
           /\ UNCHANGED <<descriptor_id, read_pipe_id>>
  BY DEF DropItem

\* Every identifier of send leaves items, pipes and locals well typed.
LEMMA SendIdentifierIInv == ASSUME IInv, SendIdentifier PROVE IInv'
<1> DEFINE ident == Head(send.todo)
<1>1. /\ ident \in [type : IdentTypes, id : Ids]
      /\ Tail(send.todo) \in Seq([type : IdentTypes, id : Ids])
      /\ send.pipe \in Ids
  <2>1. send.todo \in Seq([type : IdentTypes, id : Ids]) /\ send.pipe \in Ids
    BY DEF IInv, TypeOK, CtxType
  <2>2. send.todo # <<>>
    BY DEF SendIdentifier
  <2> QED
    BY <2>1, <2>2, HeadAndTail
<1> HIDE DEF ident
<1> DEFINE Item == /\ items' \in [Ids -> ItemTypes \cup {"none"}]
                   /\ reg' \in [Sessions -> SUBSET (Ids \X {"item", "job", "manager"})]
                   /\ descriptor_id' \in Ids /\ read_pipe_id' \in Ids
           Sent == /\ ctx' \in {"idle", "send"}
                   /\ send' \in [todo : Seq([type : IdentTypes, id : Ids]), pipe : Ids]
                   /\ pw' \in [Ids -> {"none", "host", "peer", "closed"}]
<1>2. ASSUME NEW x, SendError(x) PROVE Sent
  BY <1>2, FixedIds DEF SendError, IInv, TypeOK, PeerType
<1>3. ASSUME NEW p \in Ids, SendNext(p), UNCHANGED pw \/ \E j : pw' = [pw EXCEPT ![j] = "host"]
      PROVE  Sent
  BY <1>1, <1>3 DEF SendNext, SendIdentifier, IInv, TypeOK, PeerType
<1>4. UNCHANGED <<itemVars, reg>> => Item
  BY DEF IInv, TypeOK, SharedType, WorkerType
<1>5. Item /\ Sent
  <2>1. CASE ident.type = "blob" /\ SendBlob(ident.id)
    BY <1>1, <1>2, <1>3, <1>4, <2>1 DEF SendBlob
  <2>2. CASE ident.type = "read_pipe" /\ SendReadPipe(ident.id)
    <3>1. NewId("ReadPipe") \in Ids
      BY NewIdIsId DEF IInv, TypeOK, SharedType
    <3>2. Item
      BY <1>4, <2>2, <3>1, IncrementIsId
         DEF SendReadPipe, add_item, ItemTypes, IInv, TypeOK, SharedType, WorkerType
    <3>3. Sent
      BY <1>1, <1>2, <1>3, <2>2 DEF SendReadPipe
    <3> QED
      BY <3>2, <3>3
  <2>3. CASE ident.type = "fs_blob" /\ SendFsBlob(ident.id)
    <3>1. Item
      BY <1>1, <2>3, DropItemTypes DEF SendFsBlob, IInv, TypeOK, SharedType, WorkerType
    <3>2. Sent
      BY <1>1, <1>2, <1>3, <2>3 DEF SendFsBlob
    <3> QED
      BY <3>1, <3>2
  <2>4. CASE ident.type = "other" /\ SendError({send.pipe}) /\ UNCHANGED <<itemVars, reg>>
    BY <1>2, <1>4, <2>4
  <2> QED
    BY <2>1, <2>2, <2>3, <2>4 DEF SendIdentifier, ident
<1> HIDE DEF Item, Sent
<1>6. CtxType' /\ SharedType'
  BY <1>5 DEF Item, Sent, SendIdentifier, IInv, TypeOK, CtxType, SharedType
<1>7. WorkerType' /\ PeerType'
  BY <1>5 DEF Item, Sent, SendIdentifier, IInv, TypeOK, WorkerType, PeerType
<1>8. GuestType' /\ SessionInv' /\ PeerInv'
  BY DEF SendIdentifier, IInv, TypeOK, GuestType, SessionInv, PeerInv
<1>9. FenceInv'
  BY FenceFrame DEF SendIdentifier, IInv, fenceVars
<1> QED
  BY <1>6, <1>7, <1>8, <1>9 DEF IInv, TypeOK

\* The sessions the context names exist; add_job keeps the queues typed.
LEMMA SessionIds ==
    ASSUME IInv
    PROVE  (cur # 0 => cur \in Sessions) /\ (chan # 0 => chan \in Sessions)
  BY FixedIds DEF IInv, TypeOK, CtxType, Sessions

\* add_job keeps the queues queues of jobs.
LEMMA AddJobType ==
    ASSUME jobs \in [Sessions -> Seq(Jobs)], NEW s \in Sessions, NEW job \in Jobs, add_job(s, job)
    PROVE  jobs' \in [Sessions -> Seq(Jobs)]
  BY DEF add_job

\* The jobs of the VMM thread are jobs, and but for HandleFence no fences.
LEMMA JobIsJob ==
    ASSUME NEW id \in Ids, NEW op \in JobOps \ {"HandleFence"}
    PROVE  Job(op, id) \in Jobs /\ Job(op, id).op # "HandleFence"
  BY DEF Job, Jobs, JobOps

\* The end of send queues AddReadPipe for the new pipe, which is no fence.
LEMMA SendFinishIInv == ASSUME IInv, SendFinish PROVE IInv'
<1>1. send.pipe \in Ids
  BY DEF IInv, TypeOK, CtxType
<1>2. WorkerType' /\ GuestType' /\ SessionInv' /\ PeerInv'
  BY DEF SendFinish, IInv, TypeOK, WorkerType, GuestType, SessionInv, PeerInv
<1>3. CtxType' /\ PeerType'
  <2>1. /\ send' = [todo |-> <<>>, pipe |-> 0] /\ ctx' = "idle"
        /\ pw' \in [Ids -> {"none", "host", "peer", "closed"}]
    BY DEF SendFinish, SendError, IInv, TypeOK, PeerType
  <2>2. CtxType'
    BY <2>1, FixedIds DEF SendFinish, IInv, TypeOK, CtxType
  <2>3. PeerType'
    BY <2>1 DEF SendFinish, IInv, TypeOK, PeerType
  <2> QED
    BY <2>2, <2>3
<1>4. CASE UNCHANGED <<jobs, resample>>
  <2>1. SharedType'
    BY <1>4 DEF SendFinish, IInv, TypeOK, SharedType
  <2>2. FenceInv'
    BY <1>4, FenceFrame DEF SendFinish, IInv, fenceVars
  <2> QED
    BY <1>2, <1>3, <2>1, <2>2 DEF IInv, TypeOK
<1>5. CASE cur # 0 /\ add_job(cur, Job("AddReadPipe", send.pipe)) /\ Resample
  <2>1. Job("AddReadPipe", send.pipe) \in Jobs /\ Job("AddReadPipe", send.pipe).op # "HandleFence"
    BY <1>1, JobIsJob DEF JobOps
  <2>2. cur \in Sessions
    BY <1>5, SessionIds
  <2>3. jobs' \in [Sessions -> Seq(Jobs)]
    BY <1>5, <2>1, <2>2, AddJobType DEF IInv, TypeOK, SharedType
  <2>4. SharedType'
    BY <1>5, <2>3 DEF SendFinish, Resample, IInv, TypeOK, SharedType
  <2>5. FenceInv'
    BY <1>5, <2>1, <2>2, FenceAddJob, IInvTypes DEF SendFinish
  <2> QED
    BY <1>2, <1>3, <2>4, <2>5 DEF IInv, TypeOK
<1> QED
  BY <1>4, <1>5 DEF SendFinish

\* write takes its item out of the table.
LEMMA WriteBeginIInv ==
    ASSUME IInv, NEW id \in TouchIds, NEW hup \in BOOLEAN, WriteBegin(id, hup) PROVE IInv'
<1>1. id \in Ids
  BY IdAssumption
<1>2. /\ items' \in [Ids -> ItemTypes \cup {"none"}]
      /\ reg' \in [Sessions -> SUBSET (Ids \X {"item", "job", "manager"})]
      /\ UNCHANGED <<descriptor_id, read_pipe_id>>
  BY <1>1, DropItemTypes DEF WriteBegin, IInv, TypeOK, SharedType, WorkerType
<1>3. CtxType'
  BY <1>1 DEF WriteBegin, IInv, TypeOK, CtxType, ItemTypes
<1>4. SharedType' /\ WorkerType'
  BY <1>2 DEF WriteBegin, IInv, TypeOK, SharedType, WorkerType
<1>5. GuestType' /\ PeerType' /\ SessionInv' /\ PeerInv'
  BY DEF WriteBegin, IInv, TypeOK, GuestType, PeerType, SessionInv, PeerInv
<1>6. FenceInv'
  BY FenceFrame DEF WriteBegin, IInv, fenceVars
<1> QED
  BY <1>3, <1>4, <1>5, <1>6 DEF IInv, TypeOK

\* write puts the item back with the type it had.
LEMMA WriteEndIInv == ASSUME IInv, WriteEnd PROVE IInv'
<1>1. CtxType' /\ WorkerType' /\ GuestType' /\ SessionInv' /\ PeerInv'
  BY DEF WriteEnd, IInv, TypeOK, CtxType, WorkerType, GuestType, SessionInv, PeerInv
<1>2. SharedType' /\ PeerType'
  <2>1. wr.id \in Ids /\ wr.ty \in ItemTypes
    BY DEF IInv, TypeOK, CtxType
  <2>2. items' \in [Ids -> ItemTypes \cup {"none"}]
    BY <2>1 DEF WriteEnd, IInv, TypeOK, SharedType
  <2>3. evt' \in [Ids -> Nat]
    <3>1. evt \in [Ids -> Nat] /\ evt[wr.id] + 1 \in Nat
      BY <2>1 DEF IInv, TypeOK, PeerType
    <3>2. evt' = evt \/ evt' = [evt EXCEPT ![wr.id] = evt[wr.id] + 1]
      BY DEF WriteEnd
    <3> QED
      BY <3>1, <3>2
  <2> QED
    BY <2>2, <2>3 DEF WriteEnd, IInv, TypeOK, SharedType, PeerType
<1>3. FenceInv'
  BY FenceFrame DEF WriteEnd, IInv, fenceVars
<1> QED
  BY <1>1, <1>2, <1>3 DEF IInv, TypeOK

\* A failed write returns without the item.
LEMMA WriteErrorIInv == ASSUME IInv, WriteError PROVE IInv'
<1>1. CtxType' /\ SharedType' /\ WorkerType' /\ GuestType' /\ PeerType' /\ SessionInv' /\ PeerInv'
  BY DEF WriteError, IInv, TypeOK, CtxType, SharedType, WorkerType, GuestType, PeerType,
         SessionInv, PeerInv
<1>2. FenceInv'
  BY FenceFrame DEF WriteError, IInv, fenceVars
<1> QED
  BY <1>1, <1>2 DEF IInv, TypeOK

\* read_event_new queues AddReadEvent, which is no fence.
LEMMA read_event_newIInv == ASSUME IInv, NEW id \in EventIds, read_event_new(id) PROVE IInv'
<1>1. /\ Job("AddReadEvent", id) \in Jobs /\ Job("AddReadEvent", id).op # "HandleFence"
      /\ cur \in Sessions
  BY IdAssumption, JobIsJob, SessionIds DEF JobOps, read_event_new
<1>2. CtxType' /\ WorkerType' /\ GuestType' /\ PeerType' /\ SessionInv' /\ PeerInv'
  BY DEF read_event_new, IInv, TypeOK, CtxType, WorkerType, GuestType, PeerType, SessionInv, PeerInv
<1>3. jobs' \in [Sessions -> Seq(Jobs)]
  BY <1>1, AddJobType DEF read_event_new, IInv, TypeOK, SharedType
<1>4. SharedType'
  BY <1>3 DEF read_event_new, Resample, IInv, TypeOK, SharedType
<1>5. FenceInv'
  BY <1>1, FenceAddJob, IInvTypes DEF read_event_new
<1> QED
  BY <1>2, <1>4, <1>5 DEF IInv, TypeOK

\* import_virtiofs_handle adds a File item.
LEMMA import_virtiofs_handleIInv ==
    ASSUME IInv, NEW id \in ImportIds, import_virtiofs_handle(id) PROVE IInv'
<1> USE DEF import_virtiofs_handle
<1>1. CtxType' /\ WorkerType' /\ GuestType' /\ PeerType' /\ SessionInv' /\ PeerInv'
  BY DEF IInv, TypeOK, CtxType, WorkerType, GuestType, PeerType, SessionInv, PeerInv
<1>2. SharedType'
  BY DEF IInv, TypeOK, SharedType, ItemTypes
<1>3. FenceInv'
  BY FenceFrame DEF IInv, fenceVars
<1> QED
  BY <1>1, <1>2, <1>3 DEF IInv, TypeOK

\* socket_assign_uuid takes an item out of the table.
LEMMA socket_assign_uuidIInv ==
    ASSUME IInv, NEW id \in TouchIds, NEW u \in Uuids, socket_assign_uuid(id, u) PROVE IInv'
<1>1. /\ items' \in [Ids -> ItemTypes \cup {"none"}]
      /\ reg' \in [Sessions -> SUBSET (Ids \X {"item", "job", "manager"})]
      /\ UNCHANGED <<descriptor_id, read_pipe_id>>
  BY IdAssumption, DropItemTypes DEF socket_assign_uuid, IInv, TypeOK, SharedType, WorkerType
<1>2. CtxType' /\ SharedType' /\ WorkerType'
  BY <1>1 DEF socket_assign_uuid, IInv, TypeOK, CtxType, SharedType, WorkerType
<1>3. GuestType' /\ PeerType' /\ SessionInv' /\ PeerInv'
  BY DEF socket_assign_uuid, IInv, TypeOK, GuestType, PeerType, SessionInv, PeerInv
<1>4. FenceInv'
  BY FenceFrame DEF socket_assign_uuid, IInv, fenceVars
<1> QED
  BY <1>2, <1>3, <1>4 DEF IInv, TypeOK

\* context_create_blob takes an item out of the table.
LEMMA context_create_blobIInv ==
    ASSUME IInv, NEW id \in TouchIds, context_create_blob(id) PROVE IInv'
<1>1. /\ items' \in [Ids -> ItemTypes \cup {"none"}]
      /\ reg' \in [Sessions -> SUBSET (Ids \X {"item", "job", "manager"})]
      /\ UNCHANGED <<descriptor_id, read_pipe_id>>
  BY IdAssumption, DropItemTypes DEF context_create_blob, IInv, TypeOK, SharedType, WorkerType
<1>2. CtxType' /\ SharedType' /\ WorkerType'
  BY <1>1 DEF context_create_blob, IInv, TypeOK, CtxType, SharedType, WorkerType
<1>3. GuestType' /\ PeerType' /\ SessionInv' /\ PeerInv'
  BY DEF context_create_blob, IInv, TypeOK, GuestType, PeerType, SessionInv, PeerInv
<1>4. FenceInv'
  BY FenceFrame DEF context_create_blob, IInv, fenceVars
<1> QED
  BY <1>2, <1>3, <1>4 DEF IInv, TypeOK

\* atomic_memory_sentinel_new queues a job that is no fence.
LEMMA atomic_memory_sentinel_newIInv ==
    ASSUME IInv, NEW id \in SentIds, atomic_memory_sentinel_new(id) PROVE IInv'
<1> DEFINE job == Job("AddAtomicMemorySentinel", id)
<1>1. job \in Jobs /\ job.op # "HandleFence"
  BY IdAssumption, JobIsJob DEF JobOps
<1> HIDE DEF job
<1>2. CtxType' /\ WorkerType' /\ GuestType' /\ PeerType' /\ SessionInv' /\ PeerInv'
  BY DEF atomic_memory_sentinel_new, IInv, TypeOK, CtxType, WorkerType, GuestType, PeerType,
         SessionInv, PeerInv
<1>3. watcher' \in [SentIds -> {"none", "live", "shutdown"}]
  BY DEF atomic_memory_sentinel_new, IInv, TypeOK, SharedType
<1>4. CASE UNCHANGED jobs
  <2>1. SharedType'
    BY <1>3, <1>4 DEF atomic_memory_sentinel_new, IInv, TypeOK, SharedType
  <2>2. FenceInv'
    BY <1>4, FenceFrame DEF atomic_memory_sentinel_new, IInv, fenceVars
  <2> QED
    BY <1>2, <2>1, <2>2 DEF IInv, TypeOK
<1>5. CASE cur # 0 /\ add_job(cur, job)
  <2>1. cur \in Sessions
    BY <1>5, SessionIds
  <2>2. jobs' \in [Sessions -> Seq(Jobs)]
    BY <1>1, <1>5, <2>1, AddJobType DEF IInv, TypeOK, SharedType
  <2>3. SharedType'
    BY <1>3, <2>2 DEF atomic_memory_sentinel_new, IInv, TypeOK, SharedType
  <2>4. FenceInv'
    BY <1>1, <1>5, <2>1, FenceAddJob, IInvTypes DEF atomic_memory_sentinel_new
  <2> QED
    BY <1>2, <2>3, <2>4 DEF IInv, TypeOK
<1> QED
  BY <1>4, <1>5 DEF atomic_memory_sentinel_new, job

\* atomic_memory_sentinel_destroy changes the sentinel alone.
LEMMA atomic_memory_sentinel_destroyIInv ==
    ASSUME IInv, NEW id \in SentIds, atomic_memory_sentinel_destroy(id) PROVE IInv'
<1> USE DEF atomic_memory_sentinel_destroy
<1>1. CtxType' /\ WorkerType' /\ GuestType' /\ PeerType' /\ SessionInv' /\ PeerInv'
  BY DEF IInv, TypeOK, CtxType, WorkerType, GuestType, PeerType, SessionInv, PeerInv
<1>2. SharedType'
  BY DEF IInv, TypeOK, SharedType
<1>3. FenceInv'
  BY FenceFrame DEF IInv, fenceVars
<1> QED
  BY <1>1, <1>2, <1>3 DEF IInv, TypeOK

\* The fence is new, so nobody holds or queues it, and it is signalled here.
LEMMA QueryFenceIInv == ASSUME IInv, NEW f \in Fences, QueryFence(f) PROVE IInv'
<1>1. cur # 0 => rings[cur].query \in Resources
  BY SessionIds DEF IInv, TypeOK, CtxType, SessionInv
<1>2. CtxType' /\ SharedType' /\ WorkerType' /\ PeerType' /\ SessionInv' /\ PeerInv'
  BY DEF QueryFence, IInv, TypeOK, CtxType, SharedType, WorkerType, PeerType, SessionInv, PeerInv
<1>3. GuestType'
  BY <1>1 DEF QueryFence, IInv, TypeOK, GuestType
<1>4. FenceInv'
  <2>1. \A g \in Fences : Owed(g) => g # f /\ Owed(g)'
    BY IInvTypes DEF QueryFence, FenceTypes, Owed
  <2>2. HeldWhileBusy' /\ HeldOnce' /\ QueuedOnce' /\ HeldNotQueued'
    BY DEF QueryFence, IInv, FenceInv, HeldWhileBusy, HeldOnce, QueuedOnce, HeldNotQueued,
           FenceAt, Places
  <2>3. HeldOwed' /\ QueuedOwed'
    BY <2>1, IInvTypes DEF QueryFence, FenceTypes, FenceInv, HeldOwed, QueuedOwed, FenceAt, Places
  <2>4. SignalledCreated' /\ SignalOnce'
    BY <1>1, IInvTypes DEF QueryFence, FenceTypes, FenceInv, SignalledCreated, SignalOnce
  <2> QED
    BY <2>2, <2>3, <2>4 DEF FenceInv
<1> QED
  BY <1>2, <1>3, <1>4 DEF IInv, TypeOK

\* The fence is new and goes to one queue, or nowhere without a session.
LEMMA ChannelFenceIInv == ASSUME IInv, NEW f \in Fences, ChannelFence(f) PROVE IInv'
<1>1. cur # 0 => cur \in Sessions /\ rings[cur].channel \in Resources
  BY SessionIds DEF IInv, TypeOK, CtxType, SessionInv
<1>2. CtxType' /\ WorkerType' /\ PeerType' /\ SessionInv' /\ PeerInv'
  BY DEF ChannelFence, IInv, TypeOK, CtxType, WorkerType, PeerType, SessionInv, PeerInv
<1>3. Job("HandleFence", f) \in Jobs
  BY DEF Job, Jobs
<1>4. jobs' \in [Sessions -> Seq(Jobs)]
  BY <1>1, <1>3, AddJobType DEF ChannelFence, IInv, TypeOK, SharedType
<1>5. SharedType'
  BY <1>4 DEF ChannelFence, IInv, TypeOK, SharedType
<1>6. GuestType'
  BY <1>1 DEF ChannelFence, IInv, TypeOK, GuestType
<1>7. FenceInv'
  <2>1. /\ \A t \in Sessions : \A i \in Places(t) : ~FenceAt(t, i, f)
        /\ \A t \in Sessions : wfence[t] # f
        /\ \A g \in Fences : Owed(g) => g # f /\ Owed(g)'
    <3>1. \A g \in Fences : Owed(g) => g # f /\ Owed(g)'
      BY IInvTypes DEF ChannelFence, FenceTypes, Owed
    <3> QED
      BY <3>1, IInvTypes, InputAssumption DEF FenceInv, HeldOwed, QueuedOwed
  <2>2. HeldWhileBusy' /\ HeldOnce'
    BY DEF ChannelFence, IInv, FenceInv, HeldWhileBusy, HeldOnce
  <2>3. HeldOwed'
    BY <2>1, IInvTypes DEF ChannelFence, FenceTypes, FenceInv, HeldOwed
  <2>4. SignalledCreated' /\ SignalOnce'
    BY <1>1, IInvTypes DEF ChannelFence, FenceTypes, FenceInv, SignalledCreated, SignalOnce
  <2>5. QueuedOnce' /\ HeldNotQueued' /\ QueuedOwed'
    <3>1. CASE cur # 0
      <4>1. Owed(f)'
        BY <1>1, <3>1, IInvTypes
           DEF ChannelFence, FenceTypes, FenceInv, SignalledCreated, Owed
      <4>2. add_job(cur, Job("HandleFence", f)) /\ wfence' = wfence
        BY <3>1 DEF ChannelFence
      <4> QED
        BY <1>1, <3>1, <4>1, <4>2, <2>1, FenceEnqueue, IInvTypes DEF FenceInv
    <3>2. CASE cur = 0
      BY <2>1, <3>2, IInvTypes DEF ChannelFence, FenceInv, QueuedOnce, HeldNotQueued, QueuedOwed, FenceAt, Places
    <3> QED
      BY <3>1, <3>2
  <2> QED
    BY <2>2, <2>3, <2>4, <2>5 DEF FenceInv
<1> QED
  BY <1>2, <1>5, <1>6, <1>7 DEF IInv, TypeOK

\* Drop queues Finish, which is no fence, and raises kill.
LEMMA DropBeginIInv == ASSUME IInv, DropBegin PROVE IInv'
<1>1. Job("Finish", 0) \in Jobs /\ Job("Finish", 0).op # "HandleFence"
  BY FixedIds, JobIsJob DEF JobOps
<1>2. CtxType' /\ WorkerType' /\ GuestType' /\ PeerType' /\ SessionInv' /\ PeerInv'
  BY DEF DropBegin, IInv, TypeOK, CtxType, WorkerType, GuestType, PeerType, SessionInv, PeerInv
<1>3. jobs' \in [Sessions -> Seq(Jobs)]
  BY <1>1, SessionIds, AddJobType DEF DropBegin, IInv, TypeOK, SharedType
<1>4. SharedType'
  BY <1>3 DEF DropBegin, IInv, TypeOK, SharedType
<1>5. CASE UNCHANGED jobs
  BY <1>2, <1>4, <1>5, FenceFrame DEF DropBegin, IInv, TypeOK, fenceVars
<1>6. CASE cur # 0 /\ add_job(cur, Job("Finish", 0))
  <2>1. FenceInv'
    BY <1>1, <1>6, SessionIds, FenceAddJob, IInvTypes DEF DropBegin
  <2> QED
    BY <1>2, <1>4, <2>1 DEF IInv, TypeOK
<1> QED
  BY <1>5, <1>6 DEF DropBegin

\* The end of drop changes nothing but where the VMM thread is.
LEMMA DropJoinIInv == ASSUME IInv, DropJoin PROVE IInv'
<1>1. CtxType' /\ SharedType' /\ WorkerType' /\ GuestType' /\ PeerType' /\ SessionInv' /\ PeerInv'
  BY DEF DropJoin, IInv, TypeOK, CtxType, SharedType, WorkerType, GuestType, PeerType,
         SessionInv, PeerInv
<1>2. FenceInv'
  BY FenceFrame DEF DropJoin, IInv, fenceVars
<1> QED
  BY <1>1, <1>2 DEF IInv, TypeOK

-----------------------------------------------------------------------------
(* The steps of a worker preserve the invariant                            *)

\* What a worker step needs of the parts it disturbs: the rest is framed.
LEMMA WorkerFrame ==
    ASSUME IInv, UNCHANGED ctxSide,
           NEW s \in Sessions, wpc[s] # "none", \A t \in Sessions \ {s} : wpc'[t] = wpc[t],
           signals' \in [Fences -> Nat]
    PROVE  CtxType' /\ GuestType' /\ SessionInv' /\ s <= cur
  BY DEF IInv, TypeOK, CtxType, GuestType, SessionInv

\* A busy worker holds a fence the code owes a signal for.
LEMMA BusyHolds ==
    ASSUME IInv, NEW s \in Sessions, wpc[s] \in Busy
    PROVE  wfence[s] \in Fences /\ Owed(wfence[s])
  BY DEF IInv, FenceInv, HeldWhileBusy, HeldOwed, TypeOK, WorkerType

\* The fence a worker gives back to its queue is the only copy of it.
LEMMA FenceRequeue ==
    ASSUME IInv, NEW s \in Sessions, wpc[s] \in Busy,
           add_job(s, Job("HandleFence", wfence[s])),
           wfence' = [wfence EXCEPT ![s] = NoFence],
           wpc' = [wpc EXCEPT ![s] = "idle"],
           UNCHANGED <<signals, created, fring>>
    PROVE  FenceInv' /\ jobs' \in [Sessions -> Seq(Jobs)]
<1>1. wfence[s] \in Fences /\ Owed(wfence[s]) /\ wfence[s] # NoFence
  BY BusyHolds, InputAssumption
<1>2. Job("HandleFence", wfence[s]) \in Jobs
  BY <1>1 DEF Job, Jobs
<1>3. jobs' \in [Sessions -> Seq(Jobs)]
  BY <1>2, AddJobType, IInvTypes DEF FenceTypes
<1>4. HeldWhileBusy' /\ HeldOnce' /\ HeldOwed' /\ SignalledCreated' /\ SignalOnce'
  BY IInvTypes DEF FenceInv, FenceTypes, HeldWhileBusy, HeldOnce, HeldOwed, SignalledCreated,
                   SignalOnce, Owed, Busy
<1>5. QueuedOnce' /\ HeldNotQueued' /\ QueuedOwed'
  <2>1. \A t \in Sessions : \A i \in Places(t) : ~FenceAt(t, i, wfence[s])
    BY <1>1, IInvTypes DEF FenceInv, HeldNotQueued
  <2>2. \A t \in Sessions :
          wfence'[t] # wfence[s] /\ (wfence'[t] # NoFence => wfence'[t] = wfence[t])
    BY <1>1, IInvTypes DEF FenceTypes, FenceInv, HeldOnce
  <2>3. \A g \in Fences : Owed(g) => Owed(g)'
    BY DEF Owed
  <2> QED
    BY <1>1, <2>1, <2>2, <2>3, FenceEnqueue, IInvTypes DEF FenceInv
<1> QED
  BY <1>3, <1>4, <1>5 DEF FenceInv

\* run: a fence goes from the head of the queue to the worker, any other job
\* leaves the fences alone, an error ends the worker, which held none.
LEMMA TakeJobIInv == ASSUME IInv, NEW s \in Sessions, TakeJob(s) PROVE IInv'
<1> DEFINE job == Head(jobs[s])
<1>1. /\ jobs[s] \in Seq(Jobs) /\ jobs[s] # <<>> /\ wpc[s] = "idle" /\ wfence[s] = NoFence
      /\ job \in Jobs /\ Tail(jobs[s]) \in Seq(Jobs)
  <2>1. jobs[s] \in Seq(Jobs) /\ jobs[s] # <<>> /\ wpc[s] = "idle"
    BY DEF TakeJob, IInv, TypeOK, SharedType
  <2>2. wfence[s] = NoFence
    BY <2>1 DEF IInv, FenceInv, HeldWhileBusy, Busy
  <2> QED
    BY <2>1, <2>2, HeadAndTail
<1>2. jobs' \in [Sessions -> Seq(Jobs)]
  BY <1>1, IInvTypes DEF TakeJob, FenceTypes
<1>3. SharedType' /\ PeerType' /\ PeerInv'
  BY <1>2 DEF TakeJob, IInv, TypeOK, SharedType, PeerType, PeerInv
<1> HIDE DEF job
<1> DEFINE Reg == reg' \in [Sessions -> SUBSET (Ids \X {"item", "job", "manager"})]
           Stop(pc) == wpc' = [wpc EXCEPT ![s] = pc] /\ wfence' = [wfence EXCEPT ![s] = NoFence]
<1>4. ASSUME NEW pc \in {"idle", "halted", "done"}, Stop(pc), Reg PROVE IInv'
  <2>1. WorkerType'
    BY <1>4 DEF TakeJob, IInv, TypeOK, WorkerType
  <2>2. CtxType' /\ GuestType' /\ SessionInv'
    BY <1>1, <1>4, WorkerFrame DEF TakeJob, IInv, TypeOK, WorkerType, GuestType
  <2>3. jobs' = [jobs EXCEPT ![s] = Tail(@)] /\ UNCHANGED <<signals, created, fring>>
    BY DEF TakeJob
  <2>4. FenceInv'
    BY <1>1, <1>4, <2>3, FenceDrop, IInvTypes
  <2> QED
    BY <1>3, <2>1, <2>2, <2>4 DEF IInv, TypeOK
<1>5. UNCHANGED <<wpc, wfence>> => Stop("idle")
  BY <1>1, IInvTypes DEF FenceTypes
<1>6. UNCHANGED reg => Reg
  BY DEF IInv, TypeOK, WorkerType
<1>7. CASE job.op = "HandleFence" /\ Goto(s, "poll") /\ wfence' = [wfence EXCEPT ![s] = job.arg] /\ UNCHANGED reg
  <2>1. job.arg \in Fences /\ job = Job("HandleFence", job.arg)
    BY <1>1, <1>7 DEF Jobs, Job
  <2>2. WorkerType'
    BY <1>6, <1>7, <2>1 DEF TakeJob, Goto, IInv, TypeOK, WorkerType, Busy
  <2>3. CtxType' /\ GuestType' /\ SessionInv'
    BY <1>1, <1>7, WorkerFrame DEF TakeJob, Goto, IInv, TypeOK, WorkerType, GuestType
  <2>4. jobs' = [jobs EXCEPT ![s] = Tail(@)] /\ UNCHANGED <<signals, created, fring>>
    BY DEF TakeJob
  <2>5. FenceInv'
    BY <1>1, <1>7, <2>1, <2>4, FenceTake, IInvTypes DEF job, Goto
  <2> QED
    BY <1>3, <2>2, <2>3, <2>5 DEF IInv, TypeOK
<1>8. ASSUME NEW id \in Ids, NEW ty, AddDescriptor(s, id, ty) PROVE IInv'
  <2>1. CASE Halt(s) /\ UNCHANGED reg
    BY <1>4, <1>6, <2>1 DEF Halt
  <2>2. CASE reg' = [reg EXCEPT ![s] = @ \cup {<<id, "item">>}] /\ UNCHANGED <<wpc, wfence>>
    <3>1. Reg
      BY <2>2 DEF IInv, TypeOK, WorkerType
    <3> QED
      BY <1>4, <1>5, <2>2, <3>1
  <2> QED
    BY <1>8, <2>1, <2>2 DEF AddDescriptor
<1>9. job.op # "HandleFence" => job.arg \in Ids
  BY <1>1 DEF Jobs
<1>10. CASE /\ job.op = "AddAtomicMemorySentinel" /\ UNCHANGED <<wpc, wfence>>
            /\ reg' = [reg EXCEPT ![s] = @ \cup {<<job.arg, "job">>}]
  <2>1. Reg
    BY <1>9, <1>10 DEF IInv, TypeOK, WorkerType
  <2> QED
    BY <1>4, <1>5, <1>10, <2>1
<1>11. CASE job.op = "Finish" /\ Goto(s, "done") /\ UNCHANGED <<wfence, reg>>
  <2>1. Stop("done")
    BY <1>1, <1>11, IInvTypes DEF FenceTypes, Goto
  <2> QED
    BY <1>4, <1>6, <1>11, <2>1
<1>12. CASE \/ job.op = "AddReadPipe" /\ AddDescriptor(s, job.arg, "ReadPipe")
            \/ job.op = "AddReadEvent" /\ AddDescriptor(s, job.arg, "Event")
  BY <1>8, <1>9, <1>12
<1> QED
  BY <1>7, <1>10, <1>11, <1>12 DEF TakeJob, job

\* A worker that serves a fence goes on with it or halts and loses it.
LEMMA BusyStep ==
    ASSUME IInv, NEW s \in Sessions, wpc[s] \in Busy, UNCHANGED <<jobs, signals, ctxSide>>,
           \/ UNCHANGED wfence /\ \E pc \in Busy : Goto(s, pc)
           \/ UNCHANGED <<wfence, wpc>>
           \/ Halt(s)
    PROVE  /\ CtxType' /\ GuestType' /\ SessionInv' /\ FenceInv'
           /\ wpc' \in [Sessions -> Busy \cup {"none", "idle", "halted", "done"}]
           /\ wfence' \in [Sessions -> Fences \cup {NoFence}]
<1>1. /\ wpc' \in [Sessions -> Busy \cup {"none", "idle", "halted", "done"}]
      /\ wfence' \in [Sessions -> Fences \cup {NoFence}]
      /\ \A t \in Sessions \ {s} : wpc'[t] = wpc[t]
  BY IInvTypes DEF FenceTypes, Goto, Halt
<1>2. CtxType' /\ GuestType' /\ SessionInv'
  BY <1>1, WorkerFrame DEF IInv, TypeOK, GuestType, Busy
<1>3. CASE UNCHANGED wfence /\ \E pc \in Busy : Goto(s, pc)
  <2>1. PICK pc \in Busy : wpc' = [wpc EXCEPT ![s] = pc]
    BY <1>3 DEF Goto
  <2>2. FenceInv'
    BY <1>3, <2>1, FencePc, IInvTypes
  <2> QED
    BY <1>1, <1>2, <2>2
<1>4. CASE Halt(s)
  <2>1. FenceInv'
    BY <1>4, FenceDrop, IInvTypes DEF Halt
  <2> QED
    BY <1>1, <1>2, <2>1
<1>5. CASE UNCHANGED <<wfence, wpc>>
  <2>1. FenceInv'
    BY <1>5, FenceFrame DEF IInv, fenceVars
  <2> QED
    BY <1>1, <1>2, <2>1
<1> QED
  BY <1>3, <1>4, <1>5

\* What epoll reports carries an id.
LEMMA ReadyType ==
    ASSUME IInv, NEW s \in Sessions, NEW e \in Ready(s)
    PROVE  e \in [id : Ids, readable : BOOLEAN, hung_up : BOOLEAN]
<1>1. /\ {ChannelId, ResampleId, KillId} \cup SentIds \cup evtOpen \subseteq Ids
      /\ closed[s] \in BOOLEAN
  BY FixedIds, IdAssumption DEF IInv, TypeOK, PeerType
<1> DEFINE T == [id : Ids, readable : BOOLEAN, hung_up : BOOLEAN]
<1>2. \A id \in Ids, a, b \in BOOLEAN : Ev(id, a, b) \in T
  BY DEF Ev
<1>3. \A id \in Ids : (pwrote[id] > pread[id]) \in BOOLEAN /\ (pw[id] = "closed") \in BOOLEAN
  OBVIOUS
<1> HIDE DEF T
<1>4. \/ e = Ev(ChannelId, TRUE, closed[s])
      \/ e = Ev(ResampleId, TRUE, FALSE)
      \/ e = Ev(KillId, TRUE, FALSE)
      \/ \E id \in Ids : e = Ev(id, pwrote[id] > pread[id], pw[id] = "closed")
      \/ \E id \in evtOpen \cup SentIds : e = Ev(id, TRUE, FALSE)
  BY DEF Ready
<1>5. e \in T
  BY <1>1, <1>2, <1>3, <1>4
<1> QED
  BY <1>5 DEF T

\* The event of a poll has an id.
LEMMA PollIInv == ASSUME IInv, NEW s \in Sessions, Poll(s) PROVE IInv'
<1>1. wpc[s] \in Busy /\ UNCHANGED wfence /\ \E pc \in Busy : Goto(s, pc)
  BY DEF Poll, Busy
<1>2. /\ CtxType' /\ GuestType' /\ SessionInv' /\ FenceInv'
      /\ wpc' \in [Sessions -> Busy \cup {"none", "idle", "halted", "done"}]
  BY <1>1, BusyStep DEF Poll
<1>3. SharedType' /\ PeerType' /\ PeerInv'
  BY DEF Poll, IInv, TypeOK, SharedType, PeerType, PeerInv
<1>4. PICK e \in Ready(s) : wevent' = [wevent EXCEPT ![s] = e]
  BY DEF Poll
<1>5. wevent' \in [Sessions -> [id : Ids, readable : BOOLEAN, hung_up : BOOLEAN]]
  BY <1>4, ReadyType DEF IInv, TypeOK, WorkerType
<1>6. WorkerType'
  BY <1>2, <1>5 DEF Poll, IInv, TypeOK, WorkerType
<1> QED
  BY <1>2, <1>3, <1>6 DEF IInv, TypeOK

\* receive_msg takes one message; its number is positive.
LEMMA ReceiveIInv == ASSUME IInv, NEW s \in Sessions, Receive(s) PROVE IInv'
<1>1. wpc[s] \in Busy /\ UNCHANGED wfence /\ \E pc \in Busy : Goto(s, pc)
  BY DEF Receive, Busy
<1>2. /\ CtxType' /\ GuestType' /\ SessionInv' /\ FenceInv'
      /\ wpc' \in [Sessions -> Busy \cup {"none", "idle", "halted", "done"}]
  BY <1>1, BusyStep DEF Receive
<1>3. SharedType'
  BY DEF Receive, IInv, TypeOK, SharedType
<1>4. /\ s \in Nat /\ csent[s] \in Nat /\ Len(inq[s]) \in Nat /\ Len(inq[s]) <= csent[s]
      /\ inq[s] \in Seq(Seq(FileTypes)) /\ inq \in [Sessions -> Seq(Seq(FileTypes))]
  <2>1. inq \in [Sessions -> Seq(Seq(FileTypes))] /\ csent[s] \in Nat /\ Len(inq[s]) <= csent[s]
    BY DEF IInv, TypeOK, PeerType, PeerInv
  <2>2. s \in Nat
    BY FixedIds DEF Sessions
  <2> QED
    BY <2>1, <2>2
<1>5. /\ wreply' \in [Sessions -> Messages] /\ wfiles' \in [Sessions -> Seq(FileTypes)]
      /\ inq' \in [Sessions -> Seq(Seq(FileTypes))] /\ PeerInv'
  <2>1. CASE inq[s] = <<>>
    <3>1. Msg("receive", s, 0, <<>>) \in Messages
      BY <1>4 DEF Msg, Messages
    <3> QED
      BY <2>1, <3>1 DEF Receive, IInv, TypeOK, WorkerType, PeerType, PeerInv
  <2>2. CASE inq[s] # <<>>
    <3>1. Msg("receive", s, csent[s] - Len(inq[s]) + 1, <<>>) \in Messages
      <4>1. csent[s] - Len(inq[s]) + 1 \in Nat
        BY <1>4
      <4> QED
        BY <1>4, <4>1 DEF Msg, Messages
    <3>2. /\ Head(inq[s]) \in Seq(FileTypes) /\ Tail(inq[s]) \in Seq(Seq(FileTypes))
          /\ Len(Tail(inq[s])) = Len(inq[s]) - 1
      BY <1>4, <2>2, HeadAndTail
    <3>3. /\ wreply' = [wreply EXCEPT ![s] = Msg("receive", s, csent[s] - Len(inq[s]) + 1, <<>>)]
          /\ wfiles' = [wfiles EXCEPT ![s] = Head(inq[s])]
          /\ inq' = [inq EXCEPT ![s] = Tail(inq[s])] /\ UNCHANGED csent
      BY <2>2 DEF Receive
    <3>4. wreply' \in [Sessions -> Messages] /\ wfiles' \in [Sessions -> Seq(FileTypes)]
      BY <3>1, <3>2, <3>3 DEF IInv, TypeOK, WorkerType
    <3>5. inq' \in [Sessions -> Seq(Seq(FileTypes))] /\ PeerInv'
      <4>1. inq'[s] = Tail(inq[s]) /\ \A t \in Sessions \ {s} : inq'[t] = inq[t]
        BY <1>4, <3>3
      <4>2. Len(inq'[s]) <= csent[s]
        BY <1>4, <3>2, <4>1
      <4> QED
        BY <1>4, <3>2, <3>3, <4>1, <4>2 DEF IInv, PeerInv
    <3> QED
      BY <3>4, <3>5
  <2> QED
    BY <2>1, <2>2
<1>6. WorkerType' /\ PeerType'
  BY <1>2, <1>5 DEF Receive, IInv, TypeOK, WorkerType, PeerType
<1> QED
  BY <1>2, <1>3, <1>5, <1>6 DEF IInv, TypeOK

\* A received descriptor becomes an item and its id part of the reply.
LEMMA ReceiveFileIInv == ASSUME IInv, NEW s \in Sessions, ReceiveFile(s) PROVE IInv'
<1> DEFINE ft == Head(wfiles[s])
<1>1. ft \in FileTypes /\ Tail(wfiles[s]) \in Seq(FileTypes)
  BY HeadAndTail DEF ReceiveFile, IInv, TypeOK, WorkerType
<1>2. NewId(ft) \in Ids /\ NewId(ft) \in Nat
  BY NewIdIsId, FixedIds DEF IInv, TypeOK, SharedType, Ids
<1> HIDE DEF ft
<1>3. CASE ft = "Unknown" /\ Halt(s) /\ UNCHANGED <<itemVars, wreply, wfiles, evtOpen>>
  <2>1. /\ CtxType' /\ GuestType' /\ SessionInv' /\ FenceInv'
        /\ wpc' \in [Sessions -> Busy \cup {"none", "idle", "halted", "done"}]
        /\ wfence' \in [Sessions -> Fences \cup {NoFence}]
    BY <1>3, BusyStep DEF ReceiveFile, Busy
  <2>2. SharedType' /\ WorkerType'
    BY <1>3, <2>1 DEF ReceiveFile, IInv, TypeOK, SharedType, WorkerType
  <2>3. PeerType' /\ PeerInv'
    BY <1>3 DEF ReceiveFile, IInv, TypeOK, PeerType, PeerInv
  <2> QED
    BY <2>1, <2>2, <2>3 DEF IInv, TypeOK
<1>4. CASE /\ ft # "Unknown" /\ add_item(ft)
           /\ wreply' = [wreply EXCEPT ![s].ids = Append(@, NewId(ft))]
           /\ wfiles' = [wfiles EXCEPT ![s] = Tail(@)]
           /\ evtOpen' = IF ft = "Event" THEN evtOpen \cup {NewId(ft)} ELSE evtOpen
           /\ UNCHANGED <<wpc, wfence>>
  <2>1. CtxType' /\ GuestType' /\ SessionInv' /\ FenceInv'
    BY <1>4, BusyStep DEF ReceiveFile, Busy
  <2>2. ft \in ItemTypes
    BY <1>1, <1>4 DEF FileTypes, ItemTypes
  <2>3. SharedType'
    BY <1>2, <1>4, <2>2, IncrementIsId DEF ReceiveFile, add_item, IInv, TypeOK, SharedType
  <2>4. wreply' \in [Sessions -> Messages]
    <3>1. wreply[s] \in Messages
      BY DEF IInv, TypeOK, WorkerType
    <3>2. [wreply[s] EXCEPT !.ids = Append(wreply[s].ids, NewId(ft))] \in Messages
      <4>1. Append(wreply[s].ids, NewId(ft)) \in Seq(Ids)
        BY <1>2, <3>1 DEF Messages
      <4> QED
        BY <3>1, <4>1 DEF Messages
    <3> QED
      BY <1>4, <3>2 DEF IInv, TypeOK, WorkerType
  <2>5. WorkerType'
    BY <1>1, <1>4, <2>4 DEF ft, ReceiveFile, IInv, TypeOK, WorkerType
  <2>6. PeerType' /\ PeerInv'
    BY <1>2, <1>4 DEF ReceiveFile, IInv, TypeOK, PeerType, PeerInv
  <2> QED
    BY <2>1, <2>3, <2>5, <2>6 DEF IInv, TypeOK
<1> QED
  BY <1>3, <1>4 DEF ReceiveFile, ft

\* The reply goes to the ring and the worker on to the signal, or it halts.
LEMMA ReceiveReplyIInv == ASSUME IInv, NEW s \in Sessions, ReceiveReply(s) PROVE IInv'
<1>1. wpc[s] \in Busy /\ (Halt(s) \/ (UNCHANGED wfence /\ \E pc \in Busy : Goto(s, pc)))
  BY DEF ReceiveReply, Busy
<1>2. /\ CtxType' /\ GuestType' /\ SessionInv' /\ FenceInv'
      /\ wpc' \in [Sessions -> Busy \cup {"none", "idle", "halted", "done"}]
      /\ wfence' \in [Sessions -> Fences \cup {NoFence}]
  BY <1>1, BusyStep DEF ReceiveReply
<1>3. SharedType'
  BY DEF ReceiveReply, IInv, TypeOK, SharedType, WorkerType
<1>4. WorkerType' /\ PeerType' /\ PeerInv'
  BY <1>2 DEF ReceiveReply, IInv, TypeOK, WorkerType, PeerType, PeerInv
<1> QED
  BY <1>2, <1>3, <1>4 DEF IInv, TypeOK

\* RESAMPLE gives the fence back to the queue.
LEMMA HandleResampleIInv == ASSUME IInv, NEW s \in Sessions, HandleResample(s) PROVE IInv'
<1>1. wpc[s] \in Busy
  BY DEF HandleResample, Busy
<1>2. FenceInv' /\ jobs' \in [Sessions -> Seq(Jobs)]
  BY <1>1, FenceRequeue DEF HandleResample, Goto
<1>3. CtxType' /\ GuestType' /\ SessionInv'
  BY <1>1, WorkerFrame DEF HandleResample, Goto, IInv, TypeOK, WorkerType, GuestType, Busy
<1>4. SharedType' /\ PeerType' /\ PeerInv'
  BY <1>2 DEF HandleResample, IInv, TypeOK, SharedType, PeerType, PeerInv
<1>5. WorkerType'
  BY DEF HandleResample, Goto, IInv, TypeOK, WorkerType
<1> QED
  BY <1>2, <1>3, <1>4, <1>5 DEF IInv, TypeOK

\* KILL goes on to the signal.
LEMMA HandleKillIInv == ASSUME IInv, NEW s \in Sessions, HandleKill(s) PROVE IInv'
<1>1. wpc[s] \in Busy /\ UNCHANGED wfence /\ \E pc \in Busy : Goto(s, pc)
  BY DEF HandleKill, Busy
<1>2. /\ CtxType' /\ GuestType' /\ SessionInv' /\ FenceInv'
      /\ wpc' \in [Sessions -> Busy \cup {"none", "idle", "halted", "done"}]
  BY <1>1, BusyStep DEF HandleKill
<1>3. SharedType' /\ WorkerType' /\ PeerType' /\ PeerInv'
  BY <1>2 DEF HandleKill, IInv, TypeOK, SharedType, WorkerType, PeerType, PeerInv
<1> QED
  BY <1>2, <1>3 DEF IInv, TypeOK

\* The ids of events are naturals.
LEMMA EventId ==
    ASSUME IInv, NEW s \in Sessions PROVE wevent[s].id \in Ids /\ wevent[s].id \in Nat
  BY FixedIds DEF IInv, TypeOK, WorkerType, Ids

\* A live sentinel writes the ring and goes on to the signal, or halts.
LEMMA HandleSentinelIInv == ASSUME IInv, NEW s \in Sessions, HandleSentinel(s) PROVE IInv'
<1>1. wpc[s] \in Busy /\ (Halt(s) \/ (UNCHANGED wfence /\ \E pc \in Busy : Goto(s, pc)))
  BY DEF HandleSentinel, Busy
<1>2. /\ CtxType' /\ GuestType' /\ SessionInv' /\ FenceInv'
      /\ wpc' \in [Sessions -> Busy \cup {"none", "idle", "halted", "done"}]
      /\ wfence' \in [Sessions -> Fences \cup {NoFence}]
  BY <1>1, BusyStep DEF HandleSentinel
<1>3. Msg("sentinel", wevent[s].id, 0, <<>>) \in Messages
  BY EventId DEF Msg, Messages
<1>4. SharedType'
  BY <1>3 DEF HandleSentinel, IInv, TypeOK, SharedType
<1>5. WorkerType' /\ PeerType' /\ PeerInv'
  BY <1>2 DEF HandleSentinel, IInv, TypeOK, WorkerType, PeerType, PeerInv
<1> QED
  BY <1>2, <1>4, <1>5 DEF IInv, TypeOK

\* A shut down sentinel gives the fence back to the queue, or halts.
LEMMA HandleSentinelShutdownIInv ==
    ASSUME IInv, NEW s \in Sessions, HandleSentinelShutdown(s) PROVE IInv'
<1> DEFINE sid == wevent[s].id
<1>1. wpc[s] \in Busy
  BY DEF HandleSentinelShutdown, Busy
<1>2. CASE Halt(s) /\ UNCHANGED <<jobs, watcher, reg>>
  <2>1. /\ CtxType' /\ GuestType' /\ SessionInv' /\ FenceInv'
        /\ wpc' \in [Sessions -> Busy \cup {"none", "idle", "halted", "done"}]
        /\ wfence' \in [Sessions -> Fences \cup {NoFence}]
    BY <1>1, <1>2, BusyStep DEF HandleSentinelShutdown
  <2>2. SharedType' /\ WorkerType' /\ PeerType' /\ PeerInv'
    BY <1>2, <2>1 DEF HandleSentinelShutdown, IInv, TypeOK, SharedType, WorkerType, PeerType, PeerInv
  <2> QED
    BY <2>1, <2>2 DEF IInv, TypeOK
<1>3. CASE /\ reg' = [reg EXCEPT ![s] = @ \ {<<sid, "manager">>}]
           /\ add_job(s, Job("HandleFence", wfence[s]))
           /\ watcher' = [watcher EXCEPT ![sid] = "none"]
           /\ Goto(s, "idle") /\ wfence' = [wfence EXCEPT ![s] = NoFence]
  <2>1. FenceInv' /\ jobs' \in [Sessions -> Seq(Jobs)]
    BY <1>1, <1>3, FenceRequeue DEF HandleSentinelShutdown, Goto
  <2>2. CtxType' /\ GuestType' /\ SessionInv'
    BY <1>1, <1>3, WorkerFrame
       DEF HandleSentinelShutdown, Goto, IInv, TypeOK, WorkerType, GuestType, Busy
  <2>3. SharedType' /\ PeerType' /\ PeerInv'
    BY <1>3, <2>1 DEF HandleSentinelShutdown, IInv, TypeOK, SharedType, PeerType, PeerInv
  <2>4. WorkerType'
    BY <1>3 DEF HandleSentinelShutdown, Goto, IInv, TypeOK, WorkerType
  <2> QED
    BY <2>1, <2>2, <2>3, <2>4 DEF IInv, TypeOK
<1> QED
  BY <1>2, <1>3 DEF HandleSentinelShutdown

\* The item is found, or the worker halts.
LEMMA LookupItemIInv == ASSUME IInv, NEW s \in Sessions, LookupItem(s) PROVE IInv'
<1>1. wpc[s] \in Busy /\ (Halt(s) \/ (UNCHANGED wfence /\ \E pc \in Busy : Goto(s, pc)))
  BY DEF LookupItem, Busy
<1>2. /\ CtxType' /\ GuestType' /\ SessionInv' /\ FenceInv'
      /\ wpc' \in [Sessions -> Busy \cup {"none", "idle", "halted", "done"}]
      /\ wfence' \in [Sessions -> Fences \cup {NoFence}]
  BY <1>1, BusyStep DEF LookupItem
<1>3. SharedType' /\ WorkerType' /\ PeerType' /\ PeerInv'
  BY <1>2 DEF LookupItem, IInv, TypeOK, SharedType, WorkerType, PeerType, PeerInv
<1> QED
  BY <1>2, <1>3 DEF IInv, TypeOK

\* A pipe's data goes to the ring; a finished pipe leaves the table.
LEMMA HandlePipeIInv == ASSUME IInv, NEW s \in Sessions, HandlePipe(s) PROVE IInv'
<1> DEFINE pid == wevent[s].id
           num == ReadNumber(s)
<1>1. wpc[s] \in Busy /\ (Halt(s) \/ (UNCHANGED wfence /\ \E pc \in Busy : Goto(s, pc)))
  BY DEF HandlePipe, Busy
<1>2. /\ CtxType' /\ GuestType' /\ SessionInv' /\ FenceInv'
      /\ wpc' \in [Sessions -> Busy \cup {"none", "idle", "halted", "done"}]
      /\ wfence' \in [Sessions -> Fences \cup {NoFence}]
  BY <1>1, BusyStep DEF HandlePipe
<1>3. pid \in Ids /\ pid \in Nat /\ num \in Nat
  BY EventId DEF IInv, TypeOK, PeerType, ReadNumber
<1>4. Msg("read", pid, num, <<>>) \in Messages
  BY <1>3 DEF Msg, Messages
<1>5. /\ ring' = ring \/ ring' = [ring EXCEPT ![rings[s].channel] = Msg("read", pid, num, <<>>)]
      /\ pread' = pread \/ pread' = [pread EXCEPT ![pid] = num]
      /\ UNCHANGED <<itemVars, reg>> \/ DropItem(pid)
  BY DEF HandlePipe
<1> HIDE DEF pid, num
<1>6. /\ items' \in [Ids -> ItemTypes \cup {"none"}]
      /\ reg' \in [Sessions -> SUBSET (Ids \X {"item", "job", "manager"})]
      /\ UNCHANGED <<descriptor_id, read_pipe_id>>
  BY <1>3, <1>5, DropItemTypes DEF IInv, TypeOK, SharedType, WorkerType
<1>7. SharedType'
  <2>1. ring' \in [Resources -> Messages]
    BY <1>4, <1>5 DEF IInv, TypeOK, SharedType
  <2> QED
    BY <1>6, <2>1 DEF HandlePipe, IInv, TypeOK, SharedType
<1>8. WorkerType'
  BY <1>2, <1>6 DEF HandlePipe, IInv, TypeOK, WorkerType
<1>9. PeerType' /\ PeerInv'
  <2>1. pread' \in [Ids -> Nat]
    BY <1>3, <1>5 DEF IInv, TypeOK, PeerType
  <2> QED
    BY <2>1 DEF HandlePipe, IInv, TypeOK, PeerType, PeerInv
<1> QED
  BY <1>2, <1>7, <1>8, <1>9 DEF IInv, TypeOK

\* An eventfd's count goes to the ring.
LEMMA HandleEventIInv == ASSUME IInv, NEW s \in Sessions, HandleEvent(s) PROVE IInv'
<1>1. wpc[s] \in Busy /\ (Halt(s) \/ (UNCHANGED wfence /\ \E pc \in Busy : Goto(s, pc)))
  BY DEF HandleEvent, Busy
<1>2. /\ CtxType' /\ GuestType' /\ SessionInv' /\ FenceInv'
      /\ wpc' \in [Sessions -> Busy \cup {"none", "idle", "halted", "done"}]
      /\ wfence' \in [Sessions -> Fences \cup {NoFence}]
  BY <1>1, BusyStep DEF HandleEvent
<1>3. evt[wevent[s].id] \in Nat
  BY EventId DEF IInv, TypeOK, PeerType
<1>4. Msg("read", wevent[s].id, evt[wevent[s].id], <<>>) \in Messages
  BY <1>3, EventId DEF Msg, Messages
<1>5. SharedType'
  BY <1>4 DEF HandleEvent, IInv, TypeOK, SharedType
<1>6. evt' \in [Ids -> Nat]
  <2>1. evt' = evt \/ evt' = [evt EXCEPT ![wevent[s].id] = 0]
    BY DEF HandleEvent
  <2>2. evt \in [Ids -> Nat]
    BY DEF IInv, TypeOK, PeerType
  <2> QED
    BY <2>1, <2>2
<1>7. PeerType' /\ PeerInv'
  BY <1>6 DEF HandleEvent, IInv, TypeOK, PeerType, PeerInv
<1>8. WorkerType'
  BY <1>2 DEF HandleEvent, IInv, TypeOK, WorkerType
<1> QED
  BY <1>2, <1>5, <1>7, <1>8 DEF IInv, TypeOK

\* The fence was owed, so this is its first signal, and nobody else has it.
LEMMA SignalFenceIInv == ASSUME IInv, NEW s \in Sessions, SignalFence(s) PROVE IInv'
<1> DEFINE f == wfence[s]
<1>1. wpc[s] \in Busy /\ f \in Fences /\ f # NoFence /\ Owed(f)
  BY BusyHolds, InputAssumption DEF SignalFence, Busy
<1>2. signals' = [signals EXCEPT ![f] = 1]
  BY <1>1 DEF SignalFence, Owed
<1>3. signals' \in [Fences -> Nat]
  BY <1>2 DEF IInv, TypeOK, GuestType
<1>4. CtxType' /\ GuestType' /\ SessionInv'
  <2>1. wpc[s] # "none" /\ \A t \in Sessions \ {s} : wpc'[t] = wpc[t]
    BY DEF SignalFence, Goto, IInv, TypeOK, WorkerType
  <2> QED
    BY <1>3, <2>1, WorkerFrame DEF SignalFence
<1>5. SharedType' /\ PeerType' /\ PeerInv'
  BY DEF SignalFence, IInv, TypeOK, SharedType, PeerType, PeerInv
<1>6. WorkerType'
  BY DEF SignalFence, Goto, IInv, TypeOK, WorkerType
<1>7. FenceInv'
  <2>1. \A t \in Sessions : wfence'[t] # f /\ (wfence'[t] = wfence[t] \/ wfence'[t] = NoFence)
    BY <1>1, IInvTypes DEF SignalFence, FenceTypes, FenceInv, HeldOnce
  <2>2. \A t \in Sessions : \A i \in Places(t) : ~FenceAt(t, i, f)
    BY <1>1, IInvTypes DEF FenceInv, HeldNotQueued
  <2>3. \A g \in Fences \ {f} : Owed(g) => Owed(g)'
    BY <1>2, IInvTypes DEF SignalFence, FenceTypes, Owed
  <2>4. HeldWhileBusy' /\ HeldOnce'
    BY IInvTypes DEF SignalFence, Goto, FenceInv, FenceTypes, HeldWhileBusy, HeldOnce, Busy
  <2>5. QueuedOnce'
    BY IInvTypes DEF SignalFence, FenceInv, QueuedOnce, FenceAt, Places
  <2>6. HeldNotQueued'
    BY <2>1, IInvTypes, InputAssumption DEF SignalFence, FenceInv, HeldNotQueued, FenceAt, Places
  <2>7. HeldOwed'
    BY <2>1, <2>3, IInvTypes DEF FenceInv, FenceTypes, HeldOwed
  <2>8. QueuedOwed'
    BY <2>2, <2>3, IInvTypes DEF SignalFence, FenceInv, QueuedOwed, FenceAt, Places
  <2>9. SignalledCreated' /\ SignalOnce'
    BY <1>1, <1>2, IInvTypes
       DEF SignalFence, FenceTypes, FenceInv, SignalledCreated, SignalOnce, Owed
  <2> QED
    BY <2>4, <2>5, <2>6, <2>7, <2>8, <2>9 DEF FenceInv
<1> QED
  BY <1>4, <1>5, <1>6, <1>7 DEF IInv, TypeOK

-----------------------------------------------------------------------------
(* The steps of the environment preserve the invariant                     *)

\* A fence that names a ring lets the guest read a message.
LEMMA GuestReadIInv == ASSUME IInv, NEW f \in Fences, GuestRead(f) PROVE IInv'
<1>1. fring[f] # 0 => fring[f] \in Resources /\ ring[fring[f]] \in Messages
  BY DEF IInv, TypeOK, SharedType, GuestType
<1>2. CtxType' /\ WorkerType' /\ PeerType' /\ SessionInv' /\ PeerInv'
  BY DEF GuestRead, IInv, TypeOK, CtxType, WorkerType, PeerType, SessionInv, PeerInv
<1>3. SharedType'
  BY <1>1, NoMsgIsMessage DEF GuestRead, IInv, TypeOK, SharedType
<1>4. GuestType'
  <2>1. seen' \in Seq(Messages)
    <3>1. CASE fring[f] # 0
      <4>1. seen' = Append(seen, ring[fring[f]])
        BY <3>1 DEF GuestRead
      <4> QED
        BY <4>1, <3>1, <1>1 DEF IInv, TypeOK, GuestType
    <3>2. CASE fring[f] = 0
      BY <3>2 DEF GuestRead, IInv, TypeOK, GuestType
    <3> QED
      BY <3>1, <3>2
  <2> QED
    BY <2>1 DEF GuestRead, IInv, TypeOK, GuestType
<1>5. FenceInv'
  BY FenceFrame DEF GuestRead, IInv, fenceVars
<1> QED
  BY <1>2, <1>3, <1>4, <1>5 DEF IInv, TypeOK

\* The peer's message waits in the socket.
LEMMA PeerSendIInv ==
    ASSUME IInv, NEW s \in Sessions, NEW files \in PeerFiles, PeerSend(s, files) PROVE IInv'
<1>1. files \in Seq(FileTypes) /\ inq[s] \in Seq(Seq(FileTypes)) /\ csent[s] \in Nat
  BY InputAssumption DEF IInv, TypeOK, PeerType
<1>2. /\ Append(inq[s], files) \in Seq(Seq(FileTypes))
      /\ Len(Append(inq[s], files)) = Len(inq[s]) + 1 /\ Len(inq[s]) \in Nat
  BY <1>1
<1>3. CtxType' /\ SharedType' /\ WorkerType' /\ GuestType' /\ SessionInv'
  BY DEF PeerSend, IInv, TypeOK, CtxType, SharedType, WorkerType, GuestType, SessionInv
<1>4. PeerType'
  BY <1>1, <1>2 DEF PeerSend, IInv, TypeOK, PeerType
<1>5. PeerInv'
  <2>1. /\ inq'[s] = Append(inq[s], files) /\ csent'[s] = csent[s] + 1
        /\ \A t \in Sessions \ {s} : inq'[t] = inq[t] /\ csent'[t] = csent[t]
    BY DEF PeerSend, IInv, TypeOK, PeerType
  <2>2. Len(inq'[s]) <= csent'[s]
    BY <1>1, <1>2, <2>1 DEF IInv, PeerInv
  <2> QED
    BY <2>1, <2>2 DEF IInv, PeerInv
<1>6. FenceInv'
  BY FenceFrame DEF PeerSend, IInv, fenceVars
<1> QED
  BY <1>3, <1>4, <1>5, <1>6 DEF IInv, TypeOK

\* The peer closes the connection.
LEMMA PeerCloseIInv == ASSUME IInv, NEW s \in Sessions, PeerClose(s) PROVE IInv'
<1>1. CtxType' /\ SharedType' /\ WorkerType' /\ GuestType' /\ PeerType' /\ SessionInv' /\ PeerInv'
  BY DEF PeerClose, IInv, TypeOK, CtxType, SharedType, WorkerType, GuestType, PeerType,
         SessionInv, PeerInv
<1>2. FenceInv'
  BY FenceFrame DEF PeerClose, IInv, fenceVars
<1> QED
  BY <1>1, <1>2 DEF IInv, TypeOK

\* The peer writes or closes a pipe.
LEMMA PeerPipeIInv == ASSUME IInv, NEW id \in Ids, PeerPipe(id) PROVE IInv'
<1>1. CtxType' /\ SharedType' /\ WorkerType' /\ GuestType' /\ SessionInv' /\ PeerInv'
  BY DEF PeerPipe, IInv, TypeOK, CtxType, SharedType, WorkerType, GuestType, SessionInv, PeerInv
<1>2. pwrote' \in [Ids -> Nat] /\ pw' \in [Ids -> {"none", "host", "peer", "closed"}]
  <2>1. /\ pwrote \in [Ids -> Nat] /\ pw \in [Ids -> {"none", "host", "peer", "closed"}]
        /\ pwrote[id] + 1 \in Nat
    BY DEF IInv, TypeOK, PeerType
  <2>2. /\ pwrote' = pwrote \/ pwrote' = [pwrote EXCEPT ![id] = pwrote[id] + 1]
        /\ pw' = pw \/ pw' = [pw EXCEPT ![id] = "closed"]
    BY DEF PeerPipe
  <2> QED
    BY <2>1, <2>2
<1>3. PeerType'
  BY <1>2 DEF PeerPipe, IInv, TypeOK, PeerType
<1>4. FenceInv'
  BY FenceFrame DEF PeerPipe, IInv, fenceVars
<1> QED
  BY <1>1, <1>3, <1>4 DEF IInv, TypeOK

\* The peer signals or reads an eventfd.
LEMMA PeerEventIInv == ASSUME IInv, NEW id \in Ids, PeerEvent(id) PROVE IInv'
<1>1. CtxType' /\ SharedType' /\ WorkerType' /\ GuestType' /\ SessionInv' /\ PeerInv'
  BY DEF PeerEvent, IInv, TypeOK, CtxType, SharedType, WorkerType, GuestType, SessionInv, PeerInv
<1>2. evt' \in [Ids -> Nat]
  <2>1. evt \in [Ids -> Nat] /\ evt[id] + 1 \in Nat
    BY DEF IInv, TypeOK, PeerType
  <2>2. evt' = [evt EXCEPT ![id] = evt[id] + 1] \/ evt' = [evt EXCEPT ![id] = 0]
    BY DEF PeerEvent
  <2> QED
    BY <2>1, <2>2
<1>3. PeerType'
  BY <1>2 DEF PeerEvent, IInv, TypeOK, PeerType
<1>4. FenceInv'
  BY FenceFrame DEF PeerEvent, IInv, fenceVars
<1> QED
  BY <1>1, <1>3, <1>4 DEF IInv, TypeOK

\* A sentinel thread signals its event.
LEMMA WatcherSignalIInv == ASSUME IInv, NEW id \in SentIds, WatcherSignal(id) PROVE IInv'
<1>1. CtxType' /\ WorkerType' /\ GuestType' /\ PeerType' /\ SessionInv' /\ PeerInv'
  BY DEF WatcherSignal, IInv, TypeOK, CtxType, WorkerType, GuestType, PeerType, SessionInv, PeerInv
<1>2. SharedType'
  BY DEF WatcherSignal, IInv, TypeOK, SharedType
<1>3. FenceInv'
  BY FenceFrame DEF WatcherSignal, IInv, fenceVars
<1> QED
  BY <1>1, <1>2, <1>3 DEF IInv, TypeOK

-----------------------------------------------------------------------------
(* The theorems                                                            *)

\* Nothing changes.
LEMMA StutterIInv == ASSUME IInv, UNCHANGED vars PROVE IInv'
<1>1. CtxType' /\ SharedType' /\ WorkerType' /\ GuestType' /\ PeerType' /\ SessionInv' /\ PeerInv'
  BY DEF vars, IInv, TypeOK, CtxType, SharedType, WorkerType, GuestType, PeerType,
         SessionInv, PeerInv
<1>2. FenceInv'
  BY FenceFrame DEF vars, IInv, fenceVars
<1> QED
  BY <1>1, <1>2 DEF IInv, TypeOK

\* Every step of the context, of a worker and of the environment preserves the
\* inductive invariant.
LEMMA NextIInv == IInv /\ [Next]_vars => IInv'
<1> SUFFICES ASSUME IInv, [Next]_vars PROVE IInv'
  OBVIOUS
<1>1. CASE ContextStep
  BY <1>1, attachIInv, detachIInv, initializeIInv, get_image_requirementsIInv, SendBeginIInv,
     SendIdentifierIInv, SendFinishIInv, WriteBeginIInv, WriteEndIInv, WriteErrorIInv,
     read_event_newIInv, import_virtiofs_handleIInv, socket_assign_uuidIInv,
     context_create_blobIInv, atomic_memory_sentinel_newIInv,
     atomic_memory_sentinel_destroyIInv, QueryFenceIInv, ChannelFenceIInv, DropBeginIInv,
     DropJoinIInv DEF ContextStep
<1>2. CASE \E s \in Sessions : WorkerStep(s)
  BY <1>2, TakeJobIInv, PollIInv, ReceiveIInv, ReceiveFileIInv, ReceiveReplyIInv,
     HandleResampleIInv, HandleKillIInv, HandleSentinelIInv, HandleSentinelShutdownIInv,
     LookupItemIInv, HandlePipeIInv, HandleEventIInv, SignalFenceIInv DEF WorkerStep
<1>3. CASE Environment
  BY <1>3, GuestReadIInv, PeerSendIInv, PeerCloseIInv, PeerPipeIInv, PeerEventIInv,
     WatcherSignalIInv DEF Environment
<1>4. CASE UNCHANGED vars
  BY <1>4, StutterIInv
<1> QED
  BY <1>1, <1>2, <1>3, <1>4 DEF Next

\* The inductive invariant holds in every reachable state.
THEOREM Invariance == Spec => []IInv
  BY InitIInv, NextIInv, PTL DEF Spec

\* Type correctness: in particular the jobs a worker requeues carry the fence
\* it held, and what the guest reads from a ring is a message.
THEOREM TypeCorrect == Spec => []TypeOK
<1>1. IInv => TypeOK
  BY DEF IInv
<1> QED
  BY <1>1, Invariance, PTL

\* No guest fence is signalled twice, whatever the guest, the peer and the
\* sentinels do and however the workers of successive CMD_INITs interleave.
THEOREM FencesSignalledOnce == Spec => []SignalOnce
<1>1. IInv => SignalOnce
  BY DEF IInv, FenceInv
<1> QED
  BY <1>1, Invariance, PTL

\* The steps that create no fence and signal none.
LEMMA QuietContext ==
  ASSUME ContextStep, \A f \in Fences : ~QueryFence(f) /\ ~ChannelFence(f)
  PROVE  UNCHANGED <<created, signals>>
  BY DEF ContextStep, attach, detach, initialize, get_image_requirements, SendBegin, SendIdentifier,
         SendFinish, WriteBegin, WriteEnd, WriteError, read_event_new, import_virtiofs_handle,
         socket_assign_uuid, context_create_blob, atomic_memory_sentinel_new,
         atomic_memory_sentinel_destroy, DropBegin, DropJoin, guestVars

\* As above, for a worker.
LEMMA QuietWorker ==
  ASSUME NEW s \in Sessions, WorkerStep(s), ~SignalFence(s)
  PROVE  UNCHANGED <<created, signals>>
  BY DEF WorkerStep, TakeJob, Poll, Receive, ReceiveFile, ReceiveReply, HandleResample, HandleKill,
         HandleSentinel, HandleSentinelShutdown, LookupItem, HandlePipe, HandleEvent, ctxSide

\* As above, for the guest and the peers.
LEMMA QuietEnvironment ==
  ASSUME Environment
  PROVE  UNCHANGED <<created, signals>>
  BY DEF Environment, GuestRead, PeerSend, PeerClose, PeerPipe, PeerEvent, WatcherSignal,
         hostSide, guestVars

\* A fence of the query ring is created signalled.
LEMMA QueryFenceRefines ==
  ASSUME IInv, NEW f \in Fences, QueryFence(f) PROVE FS!CreateSignalled(f)
<1>1. signals \in [Fences -> Nat] /\ signals[f] = 0
  BY DEF IInv, TypeOK, GuestType, FenceInv, SignalledCreated, QueryFence
<1> QED
  BY <1>1 DEF QueryFence, FS!CreateSignalled

\* A fence that a worker signals was created and is owed.
LEMMA SignalFenceRefines ==
  ASSUME IInv, NEW s \in Sessions, SignalFence(s) PROVE wfence[s] \in Fences /\ FS!Signal(wfence[s])
<1>1. wfence[s] # NoFence
  BY DEF SignalFence, IInv, FenceInv, HeldWhileBusy, Busy
<1>2. wfence[s] \in Fences /\ wfence[s] \in created /\ signals[wfence[s]] = 0
  BY <1>1 DEF IInv, TypeOK, WorkerType, FenceInv, HeldOwed, Owed
<1> QED
  BY <1>2 DEF SignalFence, FS!Signal, ctxSide, guestVars

\* Every step of the detailed specification is one of the fence service, or
\* changes nothing that it knows of.
LEMMA StepRefines == IInv /\ [Next]_vars => [FS!Next]_<<created, signals>>
<1> SUFFICES ASSUME IInv, [Next]_vars PROVE [FS!Next]_<<created, signals>>
  OBVIOUS
<1>1. CASE \E f \in Fences : QueryFence(f)
  BY <1>1, QueryFenceRefines DEF FS!Next
<1>2. CASE \E f \in Fences : ChannelFence(f)
  BY <1>2 DEF ChannelFence, FS!Next, FS!Create
<1>3. CASE \E s \in Sessions : SignalFence(s)
  <2> PICK s \in Sessions : SignalFence(s)
    BY <1>3
  <2>1. wfence[s] \in Fences /\ FS!Signal(wfence[s])
    BY SignalFenceRefines
  <2> QED
    BY <2>1 DEF FS!Next
<1>4. CASE ContextStep /\ ~(\E f \in Fences : QueryFence(f) \/ ChannelFence(f))
  BY <1>4, QuietContext
<1>5. CASE \E s \in Sessions : WorkerStep(s) /\ ~SignalFence(s)
  BY <1>5, QuietWorker
<1>6. CASE Environment
  BY <1>6, QuietEnvironment
<1>7. CASE UNCHANGED vars
  BY <1>7 DEF vars, guestVars
<1> QED
  BY <1>1, <1>2, <1>3, <1>4, <1>5, <1>6, <1>7 DEF Next

\* The context with its workers implements the abstract fence service: a guest
\* may take its fences for fences that are created once, signalled at most once
\* and never before they were created.
THEOREM Refinement == Spec => FencesImplemented
<1>1. Init => FS!Init
  BY DEF Init, FS!Init
<1> QED
  BY <1>1, StepRefines, Invariance, PTL DEF Spec, FencesImplemented, FS!Spec
=============================================================================
