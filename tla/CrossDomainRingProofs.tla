----------------------- MODULE CrossDomainRingProofs -----------------------
(***************************************************************************)
(* Proofs about what the guest reads from its channel rings: messages are  *)
(* not overwritten, a signalled fence finds one, the messages of a         *)
(* connection and the data of a pipe come in order, and a hang-up comes    *)
(* after all of the data.                                                  *)
(*                                                                         *)
(* Nothing in the code keeps an unread message: it is the guest's protocol *)
(* (GuestDiscipline) and the ids it chooses (IdsApart, SentinelsApart)     *)
(* that do, so the theorems take these as their hypotheses.                *)
(***************************************************************************)
EXTENDS CrossDomainKeptProofs, FiniteSetTheorems

-----------------------------------------------------------------------------
(* Channel rings                                                           *)

ChannelRings == {c.channel : c \in InitCmds}
QueryRings   == {c.query : c \in InitCmds}

\* A guest that waits for one channel fence at a time and has query and channel
\* rings of their own.  Without either a message may be replaced before it is
\* read: the code has no acknowledgement.
GuestDiscipline == MaxPoll = 1 /\ ChannelRings \cap QueryRings = {}

RingsNamed ==
    \A s \in Sessions :
        /\ s <= cur => rings[s].query \in QueryRings /\ rings[s].channel \in ChannelRings
        /\ ~(s <= cur) => rings[s].channel = 0

\* A session's worker and queue have fences for the session's ring only.
InSession(f, s) == wfence[s] = f \/ \E i \in Places(s) : FenceAt(s, i, f)
OwnRing ==
    \A f \in Fences, s \in Sessions :
        InSession(f, s) => s <= cur /\ fring[f] = rings[s].channel

ReadSignalled == \A f \in read : signals[f] > 0

\* The guest waits for f, or has not read its ring yet.
Waits(f) == f \in created /\ f \notin read /\ fring[f] \in ChannelRings
OneWaits == \A f, g \in Fences : Waits(f) /\ Waits(g) => f = g

\* A message that nobody has read belongs to a fence that is signalled, or is
\* going to be with nothing between.
Signalling == {"signal", "isignal", "ssignal"}
Told(f) == signals[f] > 0 \/ \E s \in Sessions : wfence[s] = f /\ wpc[s] \in Signalling
MessageTold ==
    \A c \in ChannelRings :
        ring[c] # NoMsg => \E f \in Fences : Waits(f) /\ fring[f] = c /\ Told(f)

RingInv ==
    /\ RingsNamed /\ OwnRing /\ ReadSignalled /\ IsFiniteSet(created)
    /\ OneWaits /\ MessageTold

LEMMA RingNames == ChannelRings \subseteq Resources /\ QueryRings \subseteq Resources /\ 0 \notin ChannelRings
<1>1. ASSUME NEW c \in InitCmds PROVE c.channel \in Resources /\ c.query \in Resources
  BY InputAssumption
<1>2. 0 \notin Resources
  BY InputAssumption
<1> QED
  BY <1>1, <1>2 DEF ChannelRings, QueryRings

\* The fence a worker holds is the one the guest waits for.
LEMMA HeldWaits ==
  ASSUME IInv, RingInv, NEW s \in Sessions, wpc[s] \in Busy
  PROVE  /\ wfence[s] \in Fences /\ Waits(wfence[s]) /\ signals[wfence[s]] = 0 /\ s <= cur
         /\ fring[wfence[s]] = rings[s].channel /\ rings[s].channel \in ChannelRings
<1>1. wfence[s] \in Fences
  BY BusyHolds
<1>2. s <= cur /\ fring[wfence[s]] = rings[s].channel
  BY <1>1 DEF RingInv, OwnRing, InSession
<1>3. rings[s].channel \in ChannelRings
  BY <1>2 DEF RingInv, RingsNamed
<1>4. Owed(wfence[s])
  BY <1>1, InputAssumption DEF IInv, FenceInv, HeldOwed
<1>5. wfence[s] \notin read
  BY <1>4 DEF Owed, RingInv, ReadSignalled
<1> QED
  BY <1>1, <1>2, <1>3, <1>4, <1>5 DEF Waits, Owed

\* So one worker at most serves a fence.
LEMMA OneBusy ==
  ASSUME IInv, RingInv, NEW s \in Sessions, NEW t \in Sessions, wpc[s] \in Busy, wpc[t] \in Busy
  PROVE  s = t
<1>1. wfence[s] = wfence[t] /\ wfence[s] \in Fences
  BY HeldWaits DEF RingInv, OneWaits
<1> QED
  BY <1>1, InputAssumption DEF IInv, FenceInv, HeldOnce

\* While it does, and has not come to signal it, the channel rings are empty.
LEMMA EmptyRings ==
  ASSUME IInv, RingInv, NEW s \in Sessions, wpc[s] \in Busy, wpc[s] \notin Signalling,
         NEW c \in ChannelRings
  PROVE  ring[c] = NoMsg
<1> SUFFICES ASSUME ring[c] # NoMsg PROVE FALSE
  OBVIOUS
<1>1. PICK f \in Fences : Waits(f) /\ fring[f] = c /\ Told(f)
  BY DEF RingInv, MessageTold
<1>2. f = wfence[s] /\ signals[f] = 0
  BY <1>1, HeldWaits DEF RingInv, OneWaits
<1>3. PICK t \in Sessions : wfence[t] = f /\ wpc[t] \in Signalling
  BY <1>1, <1>2 DEF Told
<1>4. t = s
  BY <1>3, OneBusy DEF Signalling, Busy
<1> QED
  BY <1>3, <1>4

\* While it signals, only its own ring has a message.
LEMMA OtherRingsEmpty ==
  ASSUME IInv, RingInv, NEW s \in Sessions, wpc[s] \in Busy, NEW c \in ChannelRings, c # rings[s].channel
  PROVE  ring[c] = NoMsg
<1> SUFFICES ASSUME ring[c] # NoMsg PROVE FALSE
  OBVIOUS
<1>1. PICK f \in Fences : Waits(f) /\ fring[f] = c
  BY DEF RingInv, MessageTold
<1>2. f = wfence[s]
  BY <1>1, HeldWaits DEF RingInv, OneWaits
<1> QED
  BY <1>1, <1>2, HeldWaits

-----------------------------------------------------------------------------

ringParts == <<rings, cur, jobs, wfence, wpc, fring, created, read, signals, ring>>

LEMMA RingInvSame == ASSUME RingInv, UNCHANGED ringParts PROVE RingInv'
<1>1. UNCHANGED <<rings, cur, jobs, wfence, wpc, fring, created, read, signals, ring>>
  BY DEF ringParts
<1>2. \A f : Waits(f)' <=> Waits(f)
  BY <1>1 DEF Waits
<1>3. \A f : Told(f)' <=> Told(f)
  BY <1>1 DEF Told
<1>4. \A f, s : InSession(f, s)' <=> InSession(f, s)
  BY <1>1 DEF InSession, Places, FenceAt
<1>5. RingsNamed' /\ ReadSignalled' /\ IsFiniteSet(created)'
  BY <1>1 DEF RingInv, RingsNamed, ReadSignalled
<1>6. OwnRing'
  BY <1>1, <1>4 DEF RingInv, OwnRing
<1>7. OneWaits'
  BY <1>2 DEF RingInv, OneWaits
<1>8. MessageTold'
  BY <1>1, <1>2, <1>3 DEF RingInv, MessageTold
<1> QED
  BY <1>5, <1>6, <1>7, <1>8 DEF RingInv

\* A step that makes no fence and gives none to another session, takes back no
\* signal, and writes a ring only with the fence of the ring in hand.
LEMMA RingInvMove ==
  ASSUME RingInv, UNCHANGED <<rings, cur, fring, created, read>>,
         \A f \in Fences, s \in Sessions : InSession(f, s)' => InSession(f, s),
         \A f \in read : signals[f] > 0 => signals'[f] > 0,
         \A f \in Fences : Told(f) => Told(f)',
         \A c \in ChannelRings :
            \/ ring'[c] \in {ring[c], NoMsg}
            \/ \E f \in Fences : Waits(f) /\ fring[f] = c /\ Told(f)'
  PROVE  RingInv'
<1>1. RingsNamed' /\ ReadSignalled' /\ IsFiniteSet(created)'
  BY DEF RingInv, RingsNamed, ReadSignalled
<1>2. OwnRing'
  BY DEF RingInv, OwnRing
<1>3. \A f : Waits(f)' <=> Waits(f)
  BY DEF Waits
<1>4. OneWaits'
  BY <1>3 DEF RingInv, OneWaits
<1>5. ASSUME NEW c \in ChannelRings, ring'[c] # NoMsg
      PROVE  \E f \in Fences : Waits(f)' /\ fring'[f] = c /\ Told(f)'
  <2>1. CASE ring'[c] = ring[c]
    <3>1. PICK f \in Fences : Waits(f) /\ fring[f] = c /\ Told(f)
      BY <1>5, <2>1 DEF RingInv, MessageTold
    <3> QED
      BY <1>3, <3>1
  <2>2. CASE \E f \in Fences : Waits(f) /\ fring[f] = c /\ Told(f)'
    BY <1>3, <2>2
  <2> QED
    BY <1>5, <2>1, <2>2
<1>6. MessageTold'
  BY <1>5 DEF MessageTold
<1> QED
  BY <1>1, <1>2, <1>4, <1>6 DEF RingInv

\* The queues of a step that adds a job.
LEMMA AddedAt ==
  ASSUME IInv, NEW s \in Sessions, NEW job \in Jobs, add_job(s, job), NEW t \in Sessions,
         NEW i \in Places(t)'
  PROVE  (\E k \in Places(t) : jobs'[t][i] = jobs[t][k]) \/ (t = s /\ jobs'[t][i] = job)
<1>1. FenceTypes
  BY IInvTypes
<1>2. CASE t # s
  BY <1>1, <1>2, AddedJob DEF Places
<1>3. CASE t = s
  <2>1. /\ Len(jobs[s]) \in Nat /\ Len(jobs'[s]) = Len(jobs[s]) + 1
        /\ jobs'[s][Len(jobs[s]) + 1] = job
        /\ \A k \in 1 .. Len(jobs[s]) : jobs'[s][k] = jobs[s][k]
    BY <1>1, AddedJob
  <2>2. i = Len(jobs[s]) + 1 \/ i \in 1 .. Len(jobs[s])
    BY <1>3, <2>1 DEF Places
  <2> QED
    BY <1>3, <2>1, <2>2 DEF Places
<1> QED
  BY <1>2, <1>3

LEMMA AddedFence ==
  ASSUME IInv, NEW s \in Sessions, NEW job \in Jobs, add_job(s, job), NEW f, NEW t \in Sessions,
         NEW i \in Places(t)', FenceAt(t, i, f)'
  PROVE  (\E k \in Places(t) : FenceAt(t, k, f)) \/ (t = s /\ job = Job("HandleFence", f))
  BY AddedAt DEF FenceAt

LEMMA TailFence ==
  ASSUME IInv, NEW s \in Sessions, jobs[s] # <<>>, jobs' = [jobs EXCEPT ![s] = Tail(@)],
         NEW t \in Sessions, NEW i \in Places(t)'
  PROVE  \E k \in Places(t) : jobs'[t][i] = jobs[t][k]
<1>1. jobs \in [Sessions -> Seq(Jobs)]
  BY DEF IInv, TypeOK, SharedType
<1>2. CASE t # s
  BY <1>1, <1>2 DEF Places
<1>3. CASE t = s
  <2>1. PICK q \in Seq(Jobs) : q = jobs[s]
    BY <1>1
  <2>2. q # <<>> /\ Len(q) \in Nat /\ Len(Tail(q)) = Len(q) - 1
    BY <2>1
  <2>3. \A k \in 1 .. Len(q) - 1 : Tail(q)[k] = q[k + 1]
    OBVIOUS
  <2>4. jobs'[s] = Tail(q)
    BY <1>1, <2>1
  <2>5. i \in 1 .. Len(q) - 1 /\ i + 1 \in 1 .. Len(q)
    BY <1>3, <2>2, <2>4 DEF Places
  <2> QED
    BY <1>3, <2>1, <2>3, <2>4, <2>5 DEF Places
<1> QED
  BY <1>2, <1>3

\* No fence moves: the queues get another job, or none, and the rings are as
\* they were, or a query ring is written.
LEMMA RingInvQuiet ==
  ASSUME IInv, RingInv,
         UNCHANGED <<rings, cur, wfence, wpc, fring, created, read, signals>>,
         UNCHANGED ring \/ \A c \in ChannelRings : ring'[c] = ring[c],
         \/ UNCHANGED jobs
         \/ \E s \in Sessions, job \in Jobs : add_job(s, job) /\ job.op # "HandleFence"
  PROVE  RingInv'
<1>1. ASSUME NEW f \in Fences, NEW s \in Sessions, InSession(f, s)' PROVE InSession(f, s)
  <2>1. CASE UNCHANGED jobs
    BY <1>1, <2>1 DEF InSession, Places, FenceAt
  <2>2. ASSUME NEW t \in Sessions, NEW job \in Jobs, add_job(t, job), job.op # "HandleFence"
        PROVE  InSession(f, s)
    <3>1. job # Job("HandleFence", f)
      BY <2>2 DEF Job
    <3> QED
      BY <1>1, <2>2, <3>1, AddedFence DEF InSession
  <2> QED
    BY <2>1, <2>2
<1>2. \A f : Told(f) => Told(f)'
  BY DEF Told
<1> QED
  BY <1>1, <1>2, RingInvMove

\* A new session has neither jobs nor a fence.
LEMMA RingInvInitialize == ASSUME IInv, RingInv, NEW c \in InitCmds, initialize(c) PROVE RingInv'
<1>1. /\ UNCHANGED <<jobs, wfence, fring, created, read, signals, ring>>
      /\ UNCHANGED <<rings, cur>> \/ (cur' = cur + 1 /\ rings' = [rings EXCEPT ![cur + 1] =
                                            [query |-> c.query, channel |-> c.channel]])
      /\ UNCHANGED wpc \/ wpc' = [wpc EXCEPT ![cur + 1] = "idle"]
  BY DEF initialize, Spawn, workVars, guestVars
<1>2. cur \in Nat /\ cur < MaxInits /\ MaxInits \in Nat /\ cur + 1 \in Sessions
  BY InputAssumption DEF initialize, IInv, TypeOK, CtxType, Sessions
<1>3. \A s \in Sessions : s <= cur => s # cur + 1 /\ s <= cur'
  BY <1>1, <1>2 DEF Sessions
<1>4. ASSUME NEW s \in Sessions PROVE s <= cur \/ (s = cur + 1 /\ cur' = cur + 1) \/ ~(s <= cur')
  BY <1>1, <1>2 DEF Sessions
<1>5. \A s \in Sessions : s # cur + 1 \/ UNCHANGED rings => rings'[s] = rings[s]
  BY <1>1 DEF IInv, TypeOK, CtxType
<1>6. RingsNamed'
  <2> SUFFICES ASSUME NEW s \in Sessions
               PROVE  /\ s <= cur' => rings'[s].query \in QueryRings /\ rings'[s].channel \in ChannelRings
                      /\ ~(s <= cur') => rings'[s].channel = 0
    BY DEF RingsNamed
  <2>1. CASE UNCHANGED <<rings, cur>>
    BY <2>1 DEF RingInv, RingsNamed
  <2>2. CASE cur' = cur + 1 /\ rings' = [rings EXCEPT ![cur + 1] = [query |-> c.query, channel |-> c.channel]]
    <3>1. CASE s = cur + 1
      <4>1. rings'[s] = [query |-> c.query, channel |-> c.channel]
        BY <1>2, <2>2, <3>1 DEF IInv, TypeOK, CtxType
      <4>2. s <= cur'
        BY <1>2, <2>2, <3>1
      <4> QED
        BY <4>1, <4>2 DEF ChannelRings, QueryRings
    <3>2. CASE s # cur + 1
      <4>1. rings'[s] = rings[s]
        BY <1>5, <3>2
      <4>2. s <= cur' <=> s <= cur
        BY <1>2, <2>2, <3>2 DEF Sessions
      <4> QED
        BY <4>1, <4>2 DEF RingInv, RingsNamed
    <3> QED
      BY <3>1, <3>2
  <2> QED
    BY <1>1, <2>1, <2>2
<1>7. OwnRing'
  <2> SUFFICES ASSUME NEW f \in Fences, NEW s \in Sessions, InSession(f, s)'
               PROVE  s <= cur' /\ fring'[f] = rings'[s].channel
    BY DEF OwnRing
  <2>1. InSession(f, s)
    BY <1>1 DEF InSession, Places, FenceAt
  <2>2. s <= cur /\ fring[f] = rings[s].channel
    BY <2>1 DEF RingInv, OwnRing
  <2> QED
    BY <1>1, <1>3, <1>5, <2>2
<1>8. ReadSignalled' /\ IsFiniteSet(created)'
  BY <1>1 DEF RingInv, ReadSignalled
<1>9. \A f : Waits(f)' <=> Waits(f)
  BY <1>1 DEF Waits
<1>10. ASSUME NEW f, Told(f) PROVE Told(f)'
  <2>1. CASE signals[f] > 0
    BY <1>1, <2>1 DEF Told
  <2>2. ASSUME NEW s \in Sessions, wfence[s] = f, wpc[s] \in Signalling PROVE Told(f)'
    <3>1. s <= cur
      BY <2>2 DEF IInv, SessionInv, Signalling
    <3>2. wpc'[s] = wpc[s]
      BY <1>1, <1>3, <3>1 DEF IInv, TypeOK, WorkerType
    <3> QED
      BY <1>1, <2>2, <3>2 DEF Told
  <2> QED
    BY <1>10, <2>1, <2>2 DEF Told
<1>11. OneWaits'
  BY <1>9 DEF RingInv, OneWaits
<1>12. MessageTold'
  BY <1>1, <1>9, <1>10 DEF RingInv, MessageTold
<1> QED
  BY <1>6, <1>7, <1>8, <1>11, <1>12 DEF RingInv

\* A new fence f, with what it changes of the other fences: nothing.
LEMMA RingInvNew ==
  ASSUME IInv, RingInv, NEW f \in Fences \ created, created' = created \cup {f},
         UNCHANGED <<rings, cur, wfence, wpc, read, ring>>,
         \A g \in created : fring'[g] = fring[g] /\ signals'[g] = signals[g],
         \/ UNCHANGED jobs
         \/ /\ cur \in Sessions /\ add_job(cur, Job("HandleFence", f))
            /\ fring'[f] = rings[cur].channel,
         \/ fring'[f] \notin ChannelRings
         \/ \A g \in created : g \in read
  PROVE  RingInv'
<1>1. created \subseteq Fences /\ read \subseteq created
  BY DEF IInv, TypeOK, GuestType
<1>2. RingsNamed'
  BY DEF RingInv, RingsNamed
<1>3. ReadSignalled'
  BY <1>1 DEF RingInv, ReadSignalled
<1>4. IsFiniteSet(created')
  BY FS_AddElement DEF RingInv
<1>5. ASSUME NEW g \in Fences, NEW s \in Sessions, InSession(g, s)
      PROVE  g \in created
  <2>1. CASE wfence[s] = g
    BY <2>1, InputAssumption DEF IInv, FenceInv, HeldOwed, Owed
  <2>2. CASE \E i \in Places(s) : FenceAt(s, i, g)
    BY <2>2 DEF IInv, FenceInv, QueuedOwed, Owed
  <2> QED
    BY <1>5, <2>1, <2>2 DEF InSession
<1>6. OwnRing'
  <2> SUFFICES ASSUME NEW g \in Fences, NEW s \in Sessions, InSession(g, s)'
               PROVE  s <= cur /\ fring'[g] = rings[s].channel
    BY DEF OwnRing
  <2>1. CASE InSession(g, s)
    <3>1. s <= cur /\ fring[g] = rings[s].channel
      BY <2>1 DEF RingInv, OwnRing
    <3> QED
      BY <1>5, <2>1, <3>1
  <2>2. CASE ~InSession(g, s)
    <3>1. ~UNCHANGED jobs
      BY <2>2 DEF InSession, Places, FenceAt
    <3>2. Job("HandleFence", f) \in Jobs
      BY DEF Job, Jobs
    <3>3. PICK i \in Places(s)' : FenceAt(s, i, g)'
      BY <2>2 DEF InSession
    <3>4. s = cur /\ Job("HandleFence", f) = Job("HandleFence", g)
      BY <2>2, <3>1, <3>2, <3>3, AddedFence DEF InSession
    <3>5. f = g
      BY <3>4 DEF Job
    <3>6. cur <= cur
      BY DEF IInv, TypeOK, CtxType
    <3> QED
      BY <3>1, <3>4, <3>5, <3>6
  <2> QED
    BY <2>1, <2>2
<1>7. \A g \in created : Waits(g)' <=> Waits(g)
  BY DEF Waits
<1>8. ASSUME NEW g \in Fences, Waits(g)' PROVE g = f \/ Waits(g)
  BY <1>7, <1>8 DEF Waits
<1>9. Waits(f)' => \A g \in created : g \in read
  BY DEF Waits
<1>10. OneWaits'
  <2> SUFFICES ASSUME NEW g \in Fences, NEW h \in Fences, Waits(g)', Waits(h)' PROVE g = h
    BY DEF OneWaits
  <2>1. Waits(g) => ~Waits(f)'
    BY <1>9 DEF Waits
  <2>2. Waits(h) => ~Waits(f)'
    BY <1>9 DEF Waits
  <2>3. Waits(g) /\ Waits(h) => g = h
    BY DEF RingInv, OneWaits
  <2> QED
    BY <1>8, <2>1, <2>2, <2>3
<1>11. ASSUME NEW c \in ChannelRings, ring[c] # NoMsg
       PROVE  \E g \in Fences : Waits(g)' /\ fring'[g] = c /\ Told(g)'
  <2>1. PICK g \in Fences : Waits(g) /\ fring[g] = c /\ Told(g)
    BY <1>11 DEF RingInv, MessageTold
  <2>2. g \in created
    BY <2>1 DEF Waits
  <2>3. Told(g)'
    BY <2>1, <2>2 DEF Told
  <2> QED
    BY <1>7, <2>1, <2>2, <2>3
<1>12. MessageTold'
  BY <1>11 DEF MessageTold
<1> QED
  BY <1>2, <1>3, <1>4, <1>6, <1>10, <1>12 DEF RingInv

LEMMA RingInvQueryFence ==
  ASSUME GuestDiscipline, IInv, UncreatedRing, RingInv, NEW f \in Fences, QueryFence(f) PROVE RingInv'
<1>1. /\ f \in Fences \ created /\ created' = created \cup {f}
      /\ UNCHANGED <<rings, cur, wfence, wpc, read, ring, jobs>>
      /\ fring' = IF cur # 0 THEN [fring EXCEPT ![f] = rings[cur].query] ELSE fring
      /\ signals' = [signals EXCEPT ![f] = @ + 1]
  BY DEF QueryFence, ctxVars, workVars
<1>2. \A g \in created : fring'[g] = fring[g] /\ signals'[g] = signals[g]
  BY <1>1 DEF IInv, TypeOK, GuestType
<1>3. fring'[f] \notin ChannelRings
  <2>1. CASE cur # 0
    <3>1. cur \in Sessions /\ cur <= cur
      BY <2>1, InputAssumption DEF IInv, TypeOK, CtxType, Sessions
    <3>2. rings[cur].query \in QueryRings
      BY <3>1 DEF RingInv, RingsNamed
    <3> QED
      BY <1>1, <2>1, <3>2 DEF GuestDiscipline, IInv, TypeOK, GuestType
  <2>2. CASE cur = 0
    BY <1>1, <2>2, RingNames DEF UncreatedRing
  <2> QED
    BY <2>1, <2>2
<1> QED
  BY <1>1, <1>2, <1>3, RingInvNew

\* The guest creates a channel fence when it has read all the others.
LEMMA RingInvChannelFence ==
  ASSUME GuestDiscipline, IInv, UncreatedRing, RingInv, NEW f \in Fences, ChannelFence(f) PROVE RingInv'
<1>1. /\ f \in Fences \ created /\ created' = created \cup {f}
      /\ UNCHANGED <<rings, cur, wfence, wpc, read, ring, signals>>
      /\ Cardinality(Outstanding) < MaxPoll
  BY DEF ChannelFence, ctxVars, workVars
<1>2. \A g \in created : fring'[g] = fring[g] /\ signals'[g] = signals[g]
  BY <1>1 DEF ChannelFence, IInv, TypeOK, GuestType
<1>3. \A g \in created : g \in read
  <2>1. IsFiniteSet(Outstanding)
    <3>1. Outstanding \subseteq created
      BY DEF Outstanding
    <3> QED
      BY <3>1, FS_Subset DEF RingInv
  <2>2. Cardinality(Outstanding) \in Nat /\ Cardinality(Outstanding) < 1
    BY <1>1, <2>1, FS_CardinalityType DEF GuestDiscipline
  <2>3. Cardinality(Outstanding) = 0
    BY <2>2
  <2>4. Outstanding = {}
    BY <2>1, <2>3, FS_EmptySet
  <2> QED
    BY <2>4 DEF Outstanding
<1>4. \/ UNCHANGED jobs
      \/ /\ cur \in Sessions /\ add_job(cur, Job("HandleFence", f))
         /\ fring'[f] = rings[cur].channel
  <2>1. CASE cur # 0
    BY <2>1, InputAssumption DEF ChannelFence, IInv, TypeOK, CtxType, GuestType, Sessions
  <2>2. CASE cur = 0
    BY <2>2 DEF ChannelFence
  <2> QED
    BY <2>1, <2>2
<1> QED
  BY <1>1, <1>2, <1>3, <1>4, RingInvNew

\* The guest empties the ring of the fence it reads.
LEMMA RingInvGuestRead == ASSUME IInv, RingInv, NEW f \in Fences, GuestRead(f) PROVE RingInv'
<1>1. /\ UNCHANGED <<rings, cur, jobs, wfence, wpc, fring, created, signals>>
      /\ f \in created \ read /\ signals[f] > 0 /\ read' = read \cup {f}
      /\ ring' = IF fring[f] # 0 THEN [ring EXCEPT ![fring[f]] = NoMsg] ELSE ring
  BY DEF GuestRead, hostSide, ctxVars, workVars
<1>2. RingsNamed' /\ ReadSignalled' /\ IsFiniteSet(created)'
  BY <1>1 DEF RingInv, RingsNamed, ReadSignalled
<1>3. OwnRing'
  <2>1. \A g, s : InSession(g, s)' <=> InSession(g, s)
    BY <1>1 DEF InSession, Places, FenceAt
  <2> QED
    BY <1>1, <2>1 DEF RingInv, OwnRing
<1>4. \A g : Waits(g)' <=> Waits(g) /\ g # f
  BY <1>1 DEF Waits
<1>5. OneWaits'
  BY <1>4 DEF RingInv, OneWaits
<1>6. \A g : Told(g)' <=> Told(g)
  BY <1>1 DEF Told
<1>7. ASSUME NEW c \in ChannelRings, ring'[c] # NoMsg
      PROVE  \E g \in Fences : Waits(g)' /\ fring'[g] = c /\ Told(g)'
  <2>1. c # fring[f] /\ ring'[c] = ring[c]
    BY <1>1, <1>7, RingNames DEF IInv, TypeOK, SharedType
  <2>2. PICK g \in Fences : Waits(g) /\ fring[g] = c /\ Told(g)
    BY <1>7, <2>1 DEF RingInv, MessageTold
  <2> QED
    BY <1>1, <1>4, <1>6, <2>1, <2>2
<1>8. MessageTold'
  BY <1>7 DEF MessageTold
<1> QED
  BY <1>2, <1>3, <1>5, <1>8 DEF RingInv

LEMMA RingInvJob ==
  ASSUME IInv, RingInv,
         \/ SendFinish \/ DropBegin
         \/ \E id \in EventIds : read_event_new(id)
         \/ \E id \in SentIds : atomic_memory_sentinel_new(id)
  PROVE  RingInv'
<1>1. UNCHANGED <<rings, cur, wpc, wfence, fring, created, read, signals, ring>>
  BY DEF SendFinish, DropBegin, read_event_new, atomic_memory_sentinel_new, ctxVars, workVars, guestVars
<1>2. jobs' # jobs =>
         cur # 0 /\ \E op \in JobOps \ {"HandleFence"}, id \in Ids : add_job(cur, Job(op, id))
  <2>1. CASE SendFinish
    BY <2>1 DEF SendFinish, JobOps, IInv, TypeOK, CtxType
  <2>2. CASE DropBegin
    BY <2>2, FixedIds DEF DropBegin, JobOps
  <2>3. ASSUME NEW id \in EventIds, read_event_new(id)
        PROVE  cur # 0 /\ \E op \in JobOps \ {"HandleFence"}, i \in Ids : add_job(cur, Job(op, i))
    BY <2>3, IdAssumption DEF read_event_new, JobOps
  <2>4. ASSUME NEW id \in SentIds, atomic_memory_sentinel_new(id), jobs' # jobs
        PROVE  cur # 0 /\ \E op \in JobOps \ {"HandleFence"}, i \in Ids : add_job(cur, Job(op, i))
    BY <2>4, IdAssumption DEF atomic_memory_sentinel_new, JobOps
  <2> QED
    BY <2>1, <2>2, <2>3, <2>4
<1>3. CASE jobs' # jobs
  <2>1. cur \in Sessions
    BY <1>2, <1>3, FixedIds DEF IInv, TypeOK, CtxType, Sessions
  <2>2. PICK op \in JobOps \ {"HandleFence"}, id \in Ids : add_job(cur, Job(op, id))
    BY <1>2, <1>3
  <2>3. Job(op, id) \in Jobs /\ Job(op, id).op # "HandleFence"
    BY DEF Job, Jobs
  <2> QED
    BY <1>1, <2>1, <2>2, <2>3, RingInvQuiet
<1> QED
  BY <1>1, <1>3, RingInvQuiet

\* A query ring is no channel ring.
LEMMA QueryWrite ==
  ASSUME GuestDiscipline, IInv, RingInv, get_image_requirements, NEW c \in ChannelRings
  PROVE  ring'[c] = ring[c]
<1>1. cur \in Sessions /\ cur <= cur
  BY InputAssumption DEF get_image_requirements, IInv, TypeOK, CtxType, Sessions
<1>2. rings[cur].query \in QueryRings
  BY <1>1 DEF RingInv, RingsNamed
<1>3. rings[cur].query # c /\ c \in Resources
  BY <1>2, RingNames DEF GuestDiscipline
<1> QED
  BY <1>3 DEF get_image_requirements, IInv, TypeOK, SharedType

LEMMA RingInvContext ==
  ASSUME GuestDiscipline, IInv, UncreatedRing, RingInv, ContextStep PROVE RingInv'
<1>1. CASE get_image_requirements
  <2>1. UNCHANGED <<rings, cur, wfence, wpc, fring, created, read, signals, jobs>>
    BY <1>1 DEF get_image_requirements, ctxVars, workVars, guestVars
  <2> QED
    BY <1>1, <2>1, QueryWrite, RingInvQuiet
<1>2. ASSUME NEW r \in Resources, attach(r) \/ detach(r) PROVE RingInv'
  BY <1>2, RingInvSame DEF attach, detach, ringParts, ctxVars, workVars, guestVars
<1>3. CASE SendIdentifier \/ WriteEnd \/ WriteError \/ DropJoin
  BY <1>3, RingInvSame DEF SendIdentifier, WriteEnd, WriteError, DropJoin, ringParts, workVars, guestVars
<1>4. ASSUME NEW cmd, SendBegin(cmd) PROVE RingInv'
  BY <1>4, RingInvSame DEF SendBegin, ringParts, workVars, guestVars
<1>5. ASSUME NEW id, \/ import_virtiofs_handle(id) \/ context_create_blob(id)
                     \/ atomic_memory_sentinel_destroy(id)
                     \/ \E u \in Uuids : socket_assign_uuid(id, u)
                     \/ \E hup \in BOOLEAN : WriteBegin(id, hup)
      PROVE  RingInv'
  <2>1. UNCHANGED ringParts
    BY <1>5 DEF import_virtiofs_handle, context_create_blob, atomic_memory_sentinel_destroy,
                socket_assign_uuid, WriteBegin, ringParts, ctxVars, workVars, guestVars
  <2> QED
    BY <2>1, RingInvSame
<1> QED
  BY <1>1, <1>2, <1>3, <1>4, <1>5, RingInvInitialize, RingInvJob, RingInvQueryFence, RingInvChannelFence
     DEF ContextStep

LEMMA RingInvEnvironment == ASSUME IInv, RingInv, Environment PROVE RingInv'
<1>1. CASE ~\E f \in Fences : GuestRead(f)
  <2>1. UNCHANGED ringParts
    BY <1>1 DEF Environment, PeerSend, PeerClose, PeerPipe, PeerEvent, WatcherSignal,
                hostSide, ringParts, ctxVars, workVars, guestVars
  <2> QED
    BY <2>1, RingInvSame
<1> QED
  BY <1>1, RingInvGuestRead

\* A worker that has not written its ring changes its place or gives its fence
\* up; other workers' fences are told as before.
LEMMA ToldKept ==
  ASSUME NEW s \in Sessions, wpc[s] \notin Signalling, UNCHANGED signals,
         \A t \in Sessions \ {s} : wpc'[t] = wpc[t] /\ wfence'[t] = wfence[t], NEW f, Told(f)
  PROVE  Told(f)'
<1>1. CASE signals[f] > 0
  BY <1>1 DEF Told
<1>2. ASSUME NEW t \in Sessions, wfence[t] = f, wpc[t] \in Signalling PROVE Told(f)'
  BY <1>2 DEF Told
<1> QED
  BY <1>1, <1>2 DEF Told

\* What the worker's fence, its place, and the signals may do in a step.
LEMMA WorkerElsewhere ==
  ASSUME IInv, NEW s \in Sessions, WorkerStep(s)
  PROVE  /\ UNCHANGED <<rings, cur, fring, created, read>>
         /\ \A t \in Sessions \ {s} : wpc'[t] = wpc[t] /\ wfence'[t] = wfence[t]
<1>1. UNCHANGED <<rings, cur, fring, created, read>>
  BY DEF WorkerStep, TakeJob, Poll, Receive, ReceiveFile, ReceiveReply, HandleResample, HandleKill,
         HandleSentinel, HandleSentinelShutdown, LookupItem, HandlePipe, HandleEvent, SignalFence,
         ctxSide, ctxVars, guestVars
<1>2. /\ wpc' = wpc \/ \E pc : wpc' = [wpc EXCEPT ![s] = pc]
      /\ wfence' = wfence \/ \E g : wfence' = [wfence EXCEPT ![s] = g]
  BY DEF WorkerStep, TakeJob, AddDescriptor, Poll, Receive, ReceiveFile, ReceiveReply, HandleResample,
         HandleKill, HandleSentinel, HandleSentinelShutdown, LookupItem, HandlePipe, HandleEvent,
         SignalFence, Goto, Halt
<1> QED
  BY <1>1, <1>2 DEF IInv, TypeOK, WorkerType

\* The steps in which a worker holding a fence writes no ring.
LEMMA RingInvBusy ==
  ASSUME IInv, RingInv, NEW s \in Sessions, WorkerStep(s), wpc[s] \in Busy \ Signalling,
         UNCHANGED <<signals, ring>>,
         wfence'[s] \in {wfence[s], NoFence},
         UNCHANGED jobs \/ add_job(s, Job("HandleFence", wfence[s]))
  PROVE  RingInv'
<1>1. /\ UNCHANGED <<rings, cur, fring, created, read>>
      /\ \A t \in Sessions \ {s} : wpc'[t] = wpc[t] /\ wfence'[t] = wfence[t]
  BY WorkerElsewhere
<1>2. \A f : Told(f) => Told(f)'
  BY <1>1, ToldKept
<1>3. wfence[s] \in Fences
  BY BusyHolds
<1>4. ASSUME NEW f \in Fences, NEW t \in Sessions, InSession(f, t)' PROVE InSession(f, t)
  <2>1. CASE wfence'[t] = f
    <3>1. wfence[t] = f
      BY <1>1, <2>1, InputAssumption
    <3> QED
      BY <3>1 DEF InSession
  <2>2. ASSUME NEW i \in Places(t)', FenceAt(t, i, f)' PROVE InSession(f, t)
    <3>1. CASE UNCHANGED jobs
      BY <2>2, <3>1 DEF InSession, Places, FenceAt
    <3>2. CASE add_job(s, Job("HandleFence", wfence[s]))
      <4>1. Job("HandleFence", wfence[s]) \in Jobs
        BY <1>3 DEF Job, Jobs
      <4>2. \/ \E k \in Places(t) : FenceAt(t, k, f)
            \/ t = s /\ Job("HandleFence", wfence[s]) = Job("HandleFence", f)
        BY <2>2, <3>2, <4>1, AddedFence
      <4> QED
        BY <4>2 DEF InSession, Job
    <3> QED
      BY <3>1, <3>2
  <2> QED
    BY <1>4, <2>1, <2>2 DEF InSession
<1> QED
  BY <1>1, <1>2, <1>4, RingInvMove

\* A worker writes its ring and is about to signal.
LEMMA RingInvWrites ==
  ASSUME IInv, RingInv, NEW s \in Sessions, WorkerStep(s), wpc[s] \in Busy \ Signalling,
         UNCHANGED <<signals, jobs, wfence>>, wpc'[s] \in Signalling,
         \A c \in ChannelRings : c # rings[s].channel => ring'[c] = ring[c]
  PROVE  RingInv'
<1>1. /\ UNCHANGED <<rings, cur, fring, created, read>>
      /\ \A t \in Sessions \ {s} : wpc'[t] = wpc[t] /\ wfence'[t] = wfence[t]
  BY WorkerElsewhere
<1>2. \A f : Told(f) => Told(f)'
  BY <1>1, ToldKept
<1>3. \A f, t : InSession(f, t)' <=> InSession(f, t)
  BY DEF InSession, Places, FenceAt
<1>4. wfence[s] \in Fences /\ Waits(wfence[s]) /\ fring[wfence[s]] = rings[s].channel
  BY HeldWaits
<1>5. Told(wfence[s])'
  BY DEF Told
<1> QED
  BY <1>1, <1>2, <1>3, <1>4, <1>5, RingInvMove

LEMMA RingInvTake == ASSUME IInv, RingInv, NEW s \in Sessions, TakeJob(s) PROVE RingInv'
<1>1. /\ wpc[s] = "idle" /\ jobs[s] # <<>> /\ jobs' = [jobs EXCEPT ![s] = Tail(@)]
      /\ UNCHANGED <<signals, ring>>
  BY DEF TakeJob
<1>2. /\ UNCHANGED <<rings, cur, fring, created, read>>
      /\ \A t \in Sessions \ {s} : wpc'[t] = wpc[t] /\ wfence'[t] = wfence[t]
  BY WorkerElsewhere DEF WorkerStep
<1>3. \A f : Told(f) => Told(f)'
  BY <1>1, <1>2, ToldKept DEF Signalling
<1>4. wfence[s] = NoFence
  BY <1>1 DEF IInv, FenceInv, HeldWhileBusy, Busy
<1>5. wfence'[s] = NoFence \/ (Head(jobs[s]).op = "HandleFence" /\ wfence'[s] = Head(jobs[s]).arg)
  BY <1>4 DEF TakeJob, AddDescriptor, Halt, IInv, TypeOK, WorkerType
<1>6. Len(jobs[s]) \in Nat /\ Head(jobs[s]) \in Jobs /\ 1 \in Places(s) /\ Head(jobs[s]) = jobs[s][1]
  <2>1. PICK q \in Seq(Jobs) : q = jobs[s]
    BY DEF IInv, TypeOK, SharedType
  <2>2. q # <<>> => Len(q) \in Nat /\ Head(q) \in Jobs /\ 1 \in 1 .. Len(q) /\ Head(q) = q[1]
    OBVIOUS
  <2> QED
    BY <1>1, <2>1, <2>2 DEF Places
<1>7. ASSUME NEW f \in Fences, NEW t \in Sessions, InSession(f, t)' PROVE InSession(f, t)
  <2>1. CASE wfence'[t] = f
    <3>1. CASE t # s
      BY <1>2, <2>1, <3>1 DEF InSession
    <3>2. CASE t = s
      <4>1. Head(jobs[s]).op = "HandleFence" /\ Head(jobs[s]).arg = f
        BY <1>5, <2>1, <3>2, InputAssumption
      <4>2. Head(jobs[s]) = Job("HandleFence", f)
        BY <1>6, <4>1 DEF Job, Jobs
      <4> QED
        BY <1>6, <3>2, <4>2 DEF InSession, FenceAt
    <3> QED
      BY <3>1, <3>2
  <2>2. ASSUME NEW i \in Places(t)', FenceAt(t, i, f)' PROVE InSession(f, t)
    <3>1. PICK k \in Places(t) : jobs'[t][i] = jobs[t][k]
      BY <1>1, TailFence
    <3> QED
      BY <2>2, <3>1 DEF InSession, FenceAt
  <2> QED
    BY <1>7, <2>1, <2>2 DEF InSession
<1> QED
  BY <1>1, <1>2, <1>3, <1>7, RingInvMove

LEMMA RingInvSignal == ASSUME IInv, RingInv, NEW s \in Sessions, SignalFence(s) PROVE RingInv'
<1>1. /\ wpc[s] \in Signalling /\ signals' = [signals EXCEPT ![wfence[s]] = @ + 1]
      /\ wfence' = [wfence EXCEPT ![s] = NoFence] /\ UNCHANGED <<jobs, ring>>
  BY DEF SignalFence, Signalling
<1>2. /\ UNCHANGED <<rings, cur, fring, created, read>>
      /\ \A t \in Sessions \ {s} : wpc'[t] = wpc[t] /\ wfence'[t] = wfence[t]
  BY WorkerElsewhere DEF WorkerStep
<1>3. wfence[s] \in Fences
  BY <1>1, BusyHolds DEF Busy, Signalling
<1>4. signals'[wfence[s]] > 0 /\ \A f \in Fences : signals[f] > 0 => signals'[f] > 0
  BY <1>1, <1>3 DEF IInv, TypeOK, GuestType
<1>5. ASSUME NEW f \in Fences, Told(f) PROVE Told(f)'
  <2>1. CASE signals[f] > 0
    BY <1>4, <2>1 DEF Told
  <2>2. ASSUME NEW t \in Sessions, wfence[t] = f, wpc[t] \in Signalling PROVE Told(f)'
    BY <1>2, <1>4, <2>2 DEF Told
  <2> QED
    BY <1>5, <2>1, <2>2 DEF Told
<1>6. wfence'[s] = NoFence
  BY <1>1 DEF IInv, TypeOK, WorkerType
<1>7. ASSUME NEW f \in Fences, NEW t \in Sessions, InSession(f, t)' PROVE InSession(f, t)
  BY <1>1, <1>2, <1>6, <1>7, InputAssumption DEF InSession, Places, FenceAt
<1>8. read \subseteq Fences
  BY DEF IInv, TypeOK, GuestType
<1> QED
  BY <1>1, <1>2, <1>4, <1>5, <1>7, <1>8, RingInvMove

\* The steps in which a worker writes its ring, unless it halts.
RingStep(s) == ReceiveReply(s) \/ HandleSentinel(s) \/ HandlePipe(s) \/ HandleEvent(s)

LEMMA RingStepIs ==
  ASSUME IInv, NEW s \in Sessions, RingStep(s)
  PROVE  /\ wpc[s] \in Busy \ Signalling /\ UNCHANGED <<signals, jobs>>
         /\ \/ UNCHANGED ring /\ wfence'[s] = NoFence /\ wpc'[s] = "halted"
            \/ /\ UNCHANGED wfence /\ wpc'[s] \in Signalling
               /\ \E m : ring' = [ring EXCEPT ![rings[s].channel] = m]
               /\ rings[s].channel \in Resources
<1>1. CASE ReceiveReply(s)
  BY <1>1 DEF ReceiveReply, Goto, Halt, Busy, Signalling, IInv, TypeOK, WorkerType, SessionInv, CtxType
<1>2. CASE HandleSentinel(s)
  BY <1>2 DEF HandleSentinel, Goto, Halt, Busy, Signalling, IInv, TypeOK, WorkerType, SessionInv, CtxType
<1>3. CASE HandlePipe(s)
  BY <1>3 DEF HandlePipe, Goto, Halt, Busy, Signalling, IInv, TypeOK, WorkerType, SessionInv, CtxType
<1>4. CASE HandleEvent(s)
  BY <1>4 DEF HandleEvent, Goto, Halt, Busy, Signalling, IInv, TypeOK, WorkerType, SessionInv, CtxType
<1> QED
  BY <1>1, <1>2, <1>3, <1>4 DEF RingStep

LEMMA RingInvWorker == ASSUME IInv, RingInv, NEW s \in Sessions, WorkerStep(s) PROVE RingInv'
<1>1. CASE RingStep(s)
  <2>1. ring \in [Resources -> Messages]
    BY DEF IInv, TypeOK, SharedType
  <2>2. CASE UNCHANGED ring
    <3>1. \A c \in ChannelRings : c # rings[s].channel => ring'[c] = ring[c]
      BY <2>2
    <3> QED
      BY <1>1, <2>2, <3>1, RingStepIs, RingInvBusy, RingInvWrites
  <2>3. CASE ~UNCHANGED ring
    <3>1. \A c \in ChannelRings : c # rings[s].channel => ring'[c] = ring[c]
      BY <1>1, <2>1, <2>3, RingStepIs, RingNames
    <3> QED
      BY <1>1, <2>3, <3>1, RingStepIs, RingInvWrites
  <2> QED
    BY <2>2, <2>3
<1>2. CASE Poll(s) \/ Receive(s) \/ ReceiveFile(s) \/ HandleKill(s) \/ LookupItem(s)
  <2>1. wpc[s] \in Busy \ Signalling /\ UNCHANGED <<signals, ring, jobs>>
    BY <1>2 DEF Poll, Receive, ReceiveFile, HandleKill, LookupItem, Busy, Signalling
  <2>2. wfence'[s] \in {wfence[s], NoFence}
    BY <1>2 DEF Poll, Receive, ReceiveFile, HandleKill, LookupItem, Halt, IInv, TypeOK, WorkerType
  <2> QED
    BY <2>1, <2>2, RingInvBusy
<1>3. CASE HandleResample(s) \/ HandleSentinelShutdown(s)
  <2>1. /\ wpc[s] \in Busy \ Signalling /\ UNCHANGED <<signals, ring>>
        /\ UNCHANGED jobs \/ add_job(s, Job("HandleFence", wfence[s]))
    BY <1>3 DEF HandleResample, HandleSentinelShutdown, Busy, Signalling
  <2>2. wfence'[s] \in {wfence[s], NoFence}
    BY <1>3 DEF HandleResample, HandleSentinelShutdown, Halt, IInv, TypeOK, WorkerType
  <2> QED
    BY <2>1, <2>2, RingInvBusy
<1> QED
  BY <1>1, <1>2, <1>3, RingInvTake, RingInvSignal DEF WorkerStep, RingStep

LEMMA RingInvNext ==
  ASSUME GuestDiscipline PROVE IInv /\ UncreatedRing /\ RingInv /\ [Next]_vars => RingInv'
<1>1. ASSUME RingInv, UNCHANGED vars PROVE RingInv'
  BY <1>1, RingInvSame DEF vars, ringParts, ctxVars, workVars, guestVars
<1> QED
  BY <1>1, RingInvContext, RingInvWorker, RingInvEnvironment DEF Next

LEMMA UncreatedRingAlways == Spec => []UncreatedRing
<1>1. Init => UncreatedRing
  BY DEF Init, UncreatedRing
<1> QED
  BY <1>1, Invariance, UncreatedRingNext, PTL DEF Spec

LEMMA RingInvInit == Init => RingInv
<1> SUFFICES ASSUME Init PROVE RingInv
  OBVIOUS
<1>1. RingsNamed
  <2>1. \A s \in Sessions : ~(s <= cur)
    BY InputAssumption DEF Init, Sessions
  <2> QED
    BY <2>1 DEF Init, RingsNamed
<1>2. OwnRing
  <2> SUFFICES ASSUME NEW f \in Fences, NEW s \in Sessions PROVE ~InSession(f, s)
    BY DEF OwnRing
  <2>1. Places(s) = {} /\ wfence[s] = NoFence
    BY DEF Init, Places
  <2> QED
    BY <2>1, InputAssumption DEF InSession
<1>3. ReadSignalled /\ IsFiniteSet(created) /\ OneWaits
  BY FS_EmptySet DEF Init, ReadSignalled, OneWaits, Waits
<1>4. MessageTold
  BY RingNames DEF Init, MessageTold
<1> QED
  BY <1>1, <1>2, <1>3, <1>4 DEF RingInv

LEMMA RingInvAlways == ASSUME GuestDiscipline PROVE Spec => []RingInv
<1>1. IInv /\ UncreatedRing /\ RingInv /\ [Next]_vars => RingInv'
  BY RingInvNext
<1> QED
  BY <1>1, RingInvInit, Invariance, UncreatedRingAlways, PTL DEF Spec

\* Who writes a channel ring: the guest, who empties it, and the worker of the
\* fence that the guest waits for, when the ring is empty.
LEMMA RingKept ==
  ASSUME GuestDiscipline, IInv, RingInv, [Next]_vars, NEW c \in ChannelRings, ring[c] # NoMsg
  PROVE  ring'[c] \in {ring[c], NoMsg}
<1>1. c \in Resources /\ ring \in [Resources -> Messages]
  BY RingNames DEF IInv, TypeOK, SharedType
<1>2. CASE get_image_requirements
  BY <1>2, QueryWrite
<1>3. CASE ContextStep /\ ~get_image_requirements
  <2>1. UNCHANGED ring
    BY <1>3 DEF ContextStep, attach, detach, initialize, SendBegin, SendIdentifier,
         SendFinish, WriteBegin, WriteEnd, WriteError, read_event_new, import_virtiofs_handle,
         socket_assign_uuid, context_create_blob, atomic_memory_sentinel_new,
         atomic_memory_sentinel_destroy, QueryFence, ChannelFence, DropBegin, DropJoin
  <2> QED
    BY <2>1
<1>4. ASSUME NEW s \in Sessions, RingStep(s) PROVE ring'[c] \in {ring[c], NoMsg}
  BY <1>4, RingStepIs, EmptyRings
<1>5. ASSUME NEW s \in Sessions, WorkerStep(s), ~RingStep(s) PROVE UNCHANGED ring
  BY <1>5 DEF WorkerStep, RingStep, TakeJob, Poll, Receive, ReceiveFile, HandleResample, HandleKill,
         HandleSentinelShutdown, LookupItem, SignalFence
<1>6. ASSUME NEW f \in Fences, GuestRead(f) PROVE ring'[c] \in {ring[c], NoMsg}
  BY <1>1, <1>6 DEF GuestRead
<1>7. CASE Environment /\ ~\E f \in Fences : GuestRead(f)
  <2>1. UNCHANGED ring
    BY <1>7 DEF Environment, PeerSend, PeerClose, PeerPipe, PeerEvent, WatcherSignal
  <2> QED
    BY <2>1
<1>8. CASE UNCHANGED vars
  BY <1>8 DEF vars
<1> QED
  BY <1>2, <1>3, <1>4, <1>5, <1>6, <1>7, <1>8 DEF Next

\* With a guest that waits for one channel fence at a time and has separate
\* rings, no message of a channel ring is replaced before the guest has read
\* it, whichever worker of whichever session writes next (write_to_ring).
THEOREM RingsNeverOverwritten == ASSUME GuestDiscipline PROVE Spec => RingNotOverwritten
<1> DEFINE Kept == \A s \in Sessions :
              LET c == rings[s].channel
              IN  c # 0 => \/ ring[c] = NoMsg
                           \/ ring'[c] \in {ring[c], NoMsg}
<1>1. IInv /\ RingInv /\ [Next]_vars => [Kept]_vars
  <2> SUFFICES ASSUME IInv, RingInv, [Next]_vars, NEW s \in Sessions, rings[s].channel # 0,
                      ring[rings[s].channel] # NoMsg
               PROVE  ring'[rings[s].channel] \in {ring[rings[s].channel], NoMsg}
    OBVIOUS
  <2>1. rings[s].channel \in ChannelRings
    BY DEF RingInv, RingsNamed
  <2> QED
    BY <2>1, RingKept
<1>2. RingNotOverwritten <=> [][Kept]_vars
  BY DEF RingNotOverwritten
<1> QED
  BY <1>1, <1>2, Invariance, RingInvAlways, PTL DEF Spec

-----------------------------------------------------------------------------
(* Signalled fences                                                        *)

\* The id of the kill event is no id of an event or a sentinel of the guest.
IdsApart == KillId \notin EventIds \cup SentIds

Live == ctx \in {"idle", "send", "write"}

\* Jobs that put a descriptor into the epoll set.
Registers == {"AddReadPipe", "AddReadEvent", "AddAtomicMemorySentinel"}

\* Nothing but the kill event has its id, and the context that is dropped is
\* the only one that sets it.
KillUnused ==
    /\ send.pipe # KillId
    /\ \A s \in Sessions : \A kind \in {"item", "job"} : <<KillId, kind>> \notin reg[s]
    /\ \A s \in Sessions : \A i \in Places(s) : jobs[s][i].op \in Registers => jobs[s][i].arg # KillId
KillInv ==
    /\ KillUnused
    /\ Live => \A s \in Sessions : ~kill[s] /\ (wpc[s] = "event" => wevent[s].id # KillId)

\* A context that is dropped does not come back.
LEMMA LiveBefore == ASSUME [Next]_vars, Live' PROVE Live
<1>1. CASE ContextStep
  <2>1. ctx \in {"idle", "send", "write"} \/ DropJoin
    BY <1>1 DEF ContextStep, attach, detach, initialize, get_image_requirements, SendBegin, SendIdentifier,
         SendFinish, WriteBegin, WriteEnd, WriteError, read_event_new, import_virtiofs_handle,
         socket_assign_uuid, context_create_blob, atomic_memory_sentinel_new,
         atomic_memory_sentinel_destroy, QueryFence, ChannelFence, DropBegin, Idle
  <2> QED
    BY <2>1 DEF DropJoin, Live
<1>2. ASSUME NEW s \in Sessions, WorkerStep(s) PROVE UNCHANGED ctx
  BY <1>2 DEF WorkerStep, TakeJob, Poll, Receive, ReceiveFile, ReceiveReply, HandleResample, HandleKill,
         HandleSentinel, HandleSentinelShutdown, LookupItem, HandlePipe, HandleEvent, SignalFence,
         ctxSide, ctxVars
<1>3. CASE Environment
  BY <1>3 DEF Environment, GuestRead, PeerSend, PeerClose, PeerPipe, PeerEvent, WatcherSignal,
              hostSide, ctxVars, Live
<1>4. CASE UNCHANGED vars
  BY <1>4 DEF vars, ctxVars, Live
<1> QED
  BY <1>1, <1>2, <1>3, <1>4 DEF Next, Live

\* Registrations go, or come from the queue; jobs with the id do not come.
LEMMA KillUnusedMove ==
  ASSUME KillUnused, send'.pipe # KillId,
         \A s \in Sessions : \A p \in reg'[s] : p \in reg[s] \/ p[1] # KillId,
         \A s \in Sessions : \A i \in Places(s)' :
            \/ \E k \in Places(s) : jobs'[s][i] = jobs[s][k]
            \/ jobs'[s][i].op \in Registers => jobs'[s][i].arg # KillId
  PROVE  KillUnused'
<1>1. ASSUME NEW s \in Sessions, NEW kind \in {"item", "job"} PROVE <<KillId, kind>> \notin reg'[s]
  <2>1. <<KillId, kind>>[1] = KillId
    OBVIOUS
  <2> QED
    BY <2>1 DEF KillUnused
<1>2. ASSUME NEW s \in Sessions, NEW i \in Places(s)'
      PROVE  jobs'[s][i].op \in Registers => jobs'[s][i].arg # KillId
  BY DEF KillUnused
<1> QED
  BY <1>1, <1>2 DEF KillUnused

LEMMA KillUnusedSame ==
  ASSUME KillUnused, send'.pipe # KillId, UNCHANGED jobs,
         \A s \in Sessions : reg'[s] \subseteq reg[s]
  PROVE  KillUnused'
  BY KillUnusedMove DEF Places

\* A new pipe has an id above PipeReadStart.
LEMMA PipeId ==
  ASSUME TypeOK, IdInv, add_item("ReadPipe")
  PROVE  /\ NewId("ReadPipe") = read_pipe_id + 1 /\ read_pipe_id' = read_pipe_id + 1
         /\ read_pipe_id \in Nat /\ PipeReadStart <= read_pipe_id /\ NewId("ReadPipe") # KillId
<1>1. /\ {read_pipe_id, IdModulus, PipeReadStart, MaxPipe, SentinelStart, MaxDescriptor} \subseteq Nat
      /\ MaxPipe < IdModulus /\ PipeReadStart <= read_pipe_id /\ read_pipe_id < MaxPipe
      /\ 1 <= MaxDescriptor /\ MaxDescriptor < SentinelStart /\ SentinelStart < PipeReadStart
  BY IdAssumption DEF IdInv, TypeOK, SharedType, Ids, add_item
<1>2. (read_pipe_id + 1) % IdModulus = read_pipe_id + 1
  BY <1>1
<1>3. read_pipe_id' = read_pipe_id + 1 /\ NewId("ReadPipe") = read_pipe_id + 1
  BY <1>1, <1>2 DEF add_item, NewId
<1> QED
  BY <1>1, <1>3 DEF KillId

LEMMA DropUnregisters ==
  ASSUME NEW id, DropItem(id) PROVE \A s \in Sessions : reg'[s] \subseteq reg[s]
  BY DEF DropItem

LEMMA KillUnusedAdd ==
  ASSUME IInv, KillUnused, UNCHANGED reg, send'.pipe # KillId, NEW s \in Sessions, NEW job \in Jobs,
         add_job(s, job), job.op \in Registers => job.arg # KillId
  PROVE  KillUnused'
<1>1. \A t \in Sessions : \A i \in Places(t)' :
            (\E k \in Places(t) : jobs'[t][i] = jobs[t][k]) \/ jobs'[t][i] = job
  BY AddedAt
<1> QED
  BY <1>1, KillUnusedMove

LEMMA KillUnusedContext ==
  ASSUME IdsApart, IInv, IdInv, KillUnused, ContextStep PROVE KillUnused'
<1>0. TypeOK /\ send.pipe # KillId /\ 0 # KillId
  BY DEF IInv, KillUnused, KillId
<1>1. CASE \/ get_image_requirements \/ WriteEnd \/ WriteError \/ DropJoin
           \/ \E r \in Resources : attach(r) \/ detach(r)
           \/ \E c \in InitCmds : initialize(c)
           \/ \E id \in ImportIds : import_virtiofs_handle(id)
           \/ \E id \in SentIds : atomic_memory_sentinel_destroy(id)
           \/ \E f \in Fences : QueryFence(f)
  <2>1. UNCHANGED <<send, jobs, reg>>
    BY <1>1 DEF get_image_requirements, WriteEnd, WriteError, DropJoin, attach, detach, initialize, Spawn,
         import_virtiofs_handle, atomic_memory_sentinel_destroy, QueryFence, ctxVars, workVars
  <2> QED
    BY <1>0, <2>1, KillUnusedSame
<1>2. CASE \/ \E id \in TouchIds, hup \in BOOLEAN : WriteBegin(id, hup)
           \/ \E id \in TouchIds, u \in Uuids : socket_assign_uuid(id, u)
           \/ \E id \in TouchIds : context_create_blob(id)
  <2>1. UNCHANGED <<send, jobs>> /\ \E id \in TouchIds : DropItem(id)
    BY <1>2 DEF WriteBegin, socket_assign_uuid, context_create_blob, ctxVars
  <2> QED
    BY <1>0, <2>1, DropUnregisters, KillUnusedSame
<1>3. ASSUME NEW cmd \in SendCmds, SendBegin(cmd) PROVE KillUnused'
  BY <1>0, <1>3, KillUnusedSame DEF SendBegin, workVars
<1>4. CASE SendIdentifier
  <2>1. UNCHANGED jobs
    BY <1>4 DEF SendIdentifier
  <2>2. \A s \in Sessions : reg'[s] \subseteq reg[s]
    BY <1>4, DropUnregisters DEF SendIdentifier, SendBlob, SendReadPipe, SendFsBlob
  <2>3. send'.pipe # KillId
    BY <1>0, <1>4, PipeId DEF SendIdentifier, SendBlob, SendReadPipe, SendFsBlob, SendNext, SendError
  <2> QED
    BY <2>1, <2>2, <2>3, KillUnusedSame
<1>5. CASE UNCHANGED <<jobs, reg>> /\ send'.pipe # KillId
  BY <1>5, KillUnusedSame
<1>6. ASSUME NEW op \in JobOps \ {"HandleFence"}, NEW id \in Ids, cur # 0, add_job(cur, Job(op, id)),
             op \in Registers => id # KillId, UNCHANGED reg, send'.pipe # KillId
      PROVE  KillUnused'
  <2>1. cur \in Sessions /\ Job(op, id) \in Jobs
    BY <1>6, FixedIds DEF IInv, TypeOK, CtxType, Sessions, Job, Jobs
  <2>2. Job(op, id).op = op /\ Job(op, id).arg = id
    BY DEF Job
  <2> QED
    BY <1>6, <2>1, <2>2, KillUnusedAdd
<1>7. CASE SendFinish
  <2>1. UNCHANGED reg /\ send'.pipe # KillId
    BY <1>0, <1>7 DEF SendFinish, SendError, workVars
  <2>2. UNCHANGED jobs \/ (cur # 0 /\ add_job(cur, Job("AddReadPipe", send.pipe)))
    BY <1>7 DEF SendFinish
  <2>3. send.pipe \in Ids
    BY <1>0 DEF TypeOK, CtxType
  <2> QED
    BY <1>0, <1>5, <1>6, <2>1, <2>2, <2>3 DEF JobOps
<1>8. ASSUME NEW id \in EventIds, read_event_new(id) PROVE KillUnused'
  <2>1. UNCHANGED <<reg, send>> /\ cur # 0 /\ add_job(cur, Job("AddReadEvent", id)) /\ id \in Ids /\ id # KillId
    BY <1>8, IdAssumption DEF read_event_new, workVars, ctxVars, IdsApart
  <2> QED
    BY <1>0, <1>6, <2>1 DEF JobOps
<1>9. ASSUME NEW id \in SentIds, atomic_memory_sentinel_new(id) PROVE KillUnused'
  <2>1. /\ UNCHANGED <<reg, send>> /\ id \in Ids /\ id # KillId
        /\ UNCHANGED jobs \/ (cur # 0 /\ add_job(cur, Job("AddAtomicMemorySentinel", id)))
    BY <1>9, IdAssumption DEF atomic_memory_sentinel_new, workVars, ctxVars, IdsApart
  <2> QED
    BY <1>0, <1>5, <1>6, <2>1 DEF JobOps
<1>10. CASE DropBegin
  <2>1. UNCHANGED <<reg, send>> /\ (UNCHANGED jobs \/ (cur # 0 /\ add_job(cur, Job("Finish", 0))))
    BY <1>10 DEF DropBegin, workVars
  <2> QED
    BY <1>0, <1>5, <1>6, <2>1, FixedIds DEF JobOps, Registers
<1>11. ASSUME NEW f \in Fences, ChannelFence(f) PROVE KillUnused'
  <2>1. UNCHANGED <<reg, send>> /\ (UNCHANGED jobs \/ (cur # 0 /\ add_job(cur, Job("HandleFence", f))))
    BY <1>11 DEF ChannelFence, workVars, ctxVars
  <2>2. Job("HandleFence", f) \in Jobs /\ Job("HandleFence", f).op \notin Registers
    BY DEF Job, Jobs, Registers
  <2>3. cur # 0 => cur \in Sessions
    BY <1>0, FixedIds DEF TypeOK, CtxType, Sessions
  <2> QED
    BY <1>0, <1>5, <2>1, <2>2, <2>3, KillUnusedAdd
<1> QED
  BY <1>1, <1>2, <1>3, <1>4, <1>7, <1>8, <1>9, <1>10, <1>11 DEF ContextStep

LEMMA KillUnusedWorker == ASSUME IInv, KillUnused, NEW s \in Sessions, WorkerStep(s) PROVE KillUnused'
<1>1. UNCHANGED send
  BY DEF WorkerStep, TakeJob, Poll, Receive, ReceiveFile, ReceiveReply, HandleResample, HandleKill,
         HandleSentinel, HandleSentinelShutdown, LookupItem, HandlePipe, HandleEvent, SignalFence,
         ctxSide, ctxVars
<1>2. send'.pipe # KillId
  BY <1>1 DEF KillUnused
<1>3. CASE TakeJob(s)
  <2>1. jobs[s] # <<>> /\ jobs' = [jobs EXCEPT ![s] = Tail(@)]
    BY <1>3 DEF TakeJob
  <2>2. \A t \in Sessions : \A i \in Places(t)' : \E k \in Places(t) : jobs'[t][i] = jobs[t][k]
    BY <2>1, TailFence
  <2>3. 1 \in Places(s) /\ Head(jobs[s]) = jobs[s][1]
    <3>1. PICK q \in Seq(Jobs) : q = jobs[s]
      BY DEF IInv, TypeOK, SharedType
    <3>2. q # <<>> => 1 \in 1 .. Len(q) /\ Head(q) = q[1]
      OBVIOUS
    <3> QED
      BY <2>1, <3>1, <3>2 DEF Places
  <2>4. Head(jobs[s]).op \in Registers => Head(jobs[s]).arg # KillId
    BY <2>3 DEF KillUnused
  <2>5. \/ UNCHANGED reg
        \/ /\ Head(jobs[s]).op \in Registers
           /\ \E kind : reg' = [reg EXCEPT ![s] = @ \cup {<<Head(jobs[s]).arg, kind>>}]
    BY <1>3 DEF TakeJob, AddDescriptor, Registers
  <2>6. \A t \in Sessions : \A p \in reg'[t] : p \in reg[t] \/ p[1] # KillId
    <3>1. DOMAIN reg = Sessions
      BY DEF IInv, TypeOK, WorkerType
    <3>2. ASSUME Head(jobs[s]).op \in Registers, NEW kind,
                 reg' = [reg EXCEPT ![s] = @ \cup {<<Head(jobs[s]).arg, kind>>}],
                 NEW t \in Sessions, NEW p \in reg'[t], p \notin reg[t]
          PROVE  p[1] # KillId
      <4>1. reg'[t] = reg[t] \/ reg'[t] = reg[t] \cup {<<Head(jobs[s]).arg, kind>>}
        BY <3>1, <3>2
      <4>2. p = <<Head(jobs[s]).arg, kind>>
        BY <3>2, <4>1
      <4> QED
        BY <2>4, <3>2, <4>2
    <3> QED
      BY <2>5, <3>2
  <2> QED
    BY <1>2, <2>2, <2>6, KillUnusedMove
<1>4. CASE HandleResample(s) \/ HandleSentinelShutdown(s)
  <2>1. wfence[s] \in Fences
    BY <1>4, BusyHolds DEF HandleResample, HandleSentinelShutdown, Busy
  <2>2. UNCHANGED jobs \/ add_job(s, Job("HandleFence", wfence[s]))
    BY <1>4 DEF HandleResample, HandleSentinelShutdown
  <2>3. \A t \in Sessions : reg'[t] \subseteq reg[t]
    <3>1. UNCHANGED reg \/ \E p : reg' = [reg EXCEPT ![s] = @ \ {p}]
      BY <1>4 DEF HandleResample, HandleSentinelShutdown
    <3>2. DOMAIN reg = Sessions
      BY DEF IInv, TypeOK, WorkerType
    <3> QED
      BY <3>1, <3>2
  <2>4. Job("HandleFence", wfence[s]) \in Jobs /\ Job("HandleFence", wfence[s]).op \notin Registers
    BY <2>1 DEF Job, Jobs, Registers
  <2>5. CASE UNCHANGED jobs
    BY <1>2, <2>3, <2>5, KillUnusedSame
  <2>6. CASE add_job(s, Job("HandleFence", wfence[s]))
    <3>1. \A t \in Sessions : \A i \in Places(t)' :
            (\E k \in Places(t) : jobs'[t][i] = jobs[t][k]) \/ jobs'[t][i] = Job("HandleFence", wfence[s])
      BY <2>4, <2>6, AddedAt
    <3> QED
      BY <1>2, <2>3, <2>4, <3>1, KillUnusedMove
  <2> QED
    BY <2>2, <2>5, <2>6
<1>5. CASE HandlePipe(s)
  <2>1. UNCHANGED jobs /\ \A t \in Sessions : reg'[t] \subseteq reg[t]
    BY <1>5, DropUnregisters DEF HandlePipe
  <2> QED
    BY <1>2, <2>1, KillUnusedSame
<1>6. CASE \/ Poll(s) \/ Receive(s) \/ ReceiveFile(s) \/ ReceiveReply(s) \/ HandleKill(s)
           \/ HandleSentinel(s) \/ LookupItem(s) \/ HandleEvent(s) \/ SignalFence(s)
  <2>1. UNCHANGED <<jobs, reg>>
    BY <1>6 DEF Poll, Receive, ReceiveFile, ReceiveReply, HandleKill, HandleSentinel, LookupItem,
                HandleEvent, SignalFence
  <2> QED
    BY <1>2, <2>1, KillUnusedSame
<1> QED
  BY <1>3, <1>4, <1>5, <1>6 DEF WorkerStep

\* Only the kill event itself is reported with its id.
LEMMA KillReported ==
  ASSUME IInv, KillUnused, NEW s \in Sessions, NEW e \in Ready(s), e.id = KillId
  PROVE  kill[s]
<1>2. <<KillId, "item">> \notin reg[s] /\ <<KillId, "job">> \notin reg[s]
  BY DEF KillUnused
<1>4. CASE e \in {Ev(ChannelId, TRUE, closed[s]) : x \in {y \in {0} : inq[s] # <<>> \/ closed[s]}}
  BY <1>4 DEF Ev, ChannelId, KillId
<1>5. CASE e \in {Ev(ResampleId, TRUE, FALSE) : x \in {y \in {0} : resample[s]}}
  BY <1>5 DEF Ev, ResampleId, KillId
<1>6. CASE e \in {Ev(KillId, TRUE, FALSE) : x \in {y \in {0} : kill[s]}}
  BY <1>6
<1>7. CASE e \in {Ev(id, pwrote[id] > pread[id], pw[id] = "closed") :
             id \in {i \in Ids : /\ <<i, "item">> \in reg[s]
                                 /\ pwrote[i] > pread[i] \/ pw[i] = "closed"}}
  <2>1. PICK id : <<id, "item">> \in reg[s] /\ e = Ev(id, pwrote[id] > pread[id], pw[id] = "closed")
    BY <1>7
  <2>2. e.id = id
    BY <2>1 DEF Ev
  <2> QED
    BY <1>2, <2>1, <2>2
<1>8. CASE e \in {Ev(id, TRUE, FALSE) : id \in {i \in evtOpen : <<i, "item">> \in reg[s] /\ evt[i] > 0}}
  <2>1. PICK id : <<id, "item">> \in reg[s] /\ e = Ev(id, TRUE, FALSE)
    BY <1>8
  <2>2. e.id = id
    BY <2>1 DEF Ev
  <2> QED
    BY <1>2, <2>1, <2>2
<1>9. CASE e \in {Ev(id, TRUE, FALSE) : id \in {i \in SentIds : <<i, "job">> \in reg[s] /\ sevt[i]}}
  <2>1. PICK id : <<id, "job">> \in reg[s] /\ e = Ev(id, TRUE, FALSE)
    BY <1>9
  <2>2. e.id = id
    BY <2>1 DEF Ev
  <2> QED
    BY <1>2, <2>1, <2>2
<1> QED
  BY <1>4, <1>5, <1>6, <1>7, <1>8, <1>9 DEF Ready

LEMMA KillInvNext == ASSUME IdsApart PROVE IInv /\ IdInv /\ KillInv /\ [Next]_vars => KillInv'
<1> SUFFICES ASSUME IInv, IdInv, KillInv, [Next]_vars PROVE KillInv'
  OBVIOUS
<1>1. KillUnused'
  <2>1. CASE Environment
    <3>1. UNCHANGED <<send, jobs, reg>>
      BY <2>1 DEF Environment, GuestRead, PeerSend, PeerClose, PeerPipe, PeerEvent, WatcherSignal,
                hostSide, ctxVars, workVars
    <3> QED
      BY <3>1, KillUnusedSame DEF KillInv, KillUnused
  <2>2. CASE UNCHANGED vars
    <3>1. UNCHANGED <<send, jobs, reg>>
      BY <2>2 DEF vars, ctxVars, workVars
    <3> QED
      BY <3>1, KillUnusedSame DEF KillInv, KillUnused
  <2> QED
    BY <2>1, <2>2, KillUnusedContext, KillUnusedWorker DEF Next, KillInv
<1> SUFFICES ASSUME Live', NEW s \in Sessions
             PROVE  ~kill'[s] /\ (wpc'[s] = "event" => wevent'[s].id # KillId)
  BY <1>1 DEF KillInv
<1>2. Live
  BY LiveBefore
<1>3. ~kill[s] /\ (wpc[s] = "event" => wevent[s].id # KillId)
  BY <1>2 DEF KillInv
<1>4. UNCHANGED kill
  <2>1. ASSUME NEW t \in Sessions, WorkerStep(t) PROVE UNCHANGED kill
    BY <2>1 DEF WorkerStep, TakeJob, Poll, Receive, ReceiveFile, ReceiveReply, HandleResample, HandleKill,
         HandleSentinel, HandleSentinelShutdown, LookupItem, HandlePipe, HandleEvent, SignalFence, ctxSide
  <2>2. CASE Environment \/ UNCHANGED vars
    BY <2>2 DEF Environment, GuestRead, PeerSend, PeerClose, PeerPipe, PeerEvent, WatcherSignal,
                hostSide, wakeVars, vars
  <2>3. CASE ContextStep /\ ~DropBegin
    BY <2>3 DEF ContextStep, attach, detach, initialize, get_image_requirements, SendBegin, SendIdentifier,
         SendFinish, WriteBegin, WriteEnd, WriteError, read_event_new, import_virtiofs_handle,
         socket_assign_uuid, context_create_blob, atomic_memory_sentinel_new,
         atomic_memory_sentinel_destroy, QueryFence, ChannelFence, DropJoin, wakeVars
  <2>4. CASE DropBegin
    BY <2>4 DEF DropBegin, Live
  <2> QED
    BY <2>1, <2>2, <2>3, <2>4 DEF Next
<1>5. wpc'[s] = "event" => wevent'[s].id # KillId
  <2>1. wpc \in [Sessions -> Busy \cup {"none", "idle", "halted", "done"}]
    BY DEF IInv, TypeOK, WorkerType
  <2>2. ASSUME NEW t \in Sessions, Poll(t) PROVE wpc'[s] = "event" => wevent'[s].id # KillId
    <3>1. PICK e \in Ready(t) : wevent' = [wevent EXCEPT ![t] = e]
      BY <2>2 DEF Poll
    <3>2. e.id # KillId
      BY <1>2, KillReported DEF KillInv
    <3>3. CASE s = t
      BY <3>1, <3>2, <3>3 DEF IInv, TypeOK, WorkerType
    <3>4. CASE s # t
      BY <1>3, <2>1, <2>2, <3>1, <3>4 DEF Poll, Goto, IInv, TypeOK, WorkerType
    <3> QED
      BY <3>3, <3>4
  <2>3. ASSUME UNCHANGED wevent, wpc'[s] = "event" => wpc[s] = "event"
        PROVE  wpc'[s] = "event" => wevent'[s].id # KillId
    BY <1>3, <2>3
  <2>4. ASSUME NEW t \in Sessions, WorkerStep(t), ~Poll(t) PROVE UNCHANGED wevent
    BY <2>4 DEF WorkerStep, TakeJob, Receive, ReceiveFile, ReceiveReply, HandleResample, HandleKill,
         HandleSentinel, HandleSentinelShutdown, LookupItem, HandlePipe, HandleEvent, SignalFence
  <2>5. ASSUME NEW t \in Sessions, WorkerStep(t), ~Poll(t)
        PROVE  UNCHANGED wpc \/ \E pc : pc # "event" /\ wpc' = [wpc EXCEPT ![t] = pc]
    BY <2>5 DEF WorkerStep, TakeJob, AddDescriptor, Receive, ReceiveFile, ReceiveReply, HandleResample,
         HandleKill, HandleSentinel, HandleSentinelShutdown, LookupItem, HandlePipe, HandleEvent,
         SignalFence, Goto, Halt
  <2>6. ASSUME NEW t \in Sessions, WorkerStep(t), ~Poll(t) PROVE wpc'[s] = "event" => wpc[s] = "event"
    BY <2>1, <2>5, <2>6
  <2>7. ASSUME NEW c \in InitCmds, initialize(c)
        PROVE  UNCHANGED wevent /\ (wpc'[s] = "event" => wpc[s] = "event")
    BY <2>1, <2>7 DEF initialize, Spawn, workVars
  <2>8. CASE ContextStep /\ ~\E c \in InitCmds : initialize(c)
    <3>1. UNCHANGED <<wpc, wevent>>
      BY <2>8 DEF ContextStep, attach, detach, get_image_requirements, SendBegin, SendIdentifier,
         SendFinish, WriteBegin, WriteEnd, WriteError, read_event_new, import_virtiofs_handle,
         socket_assign_uuid, context_create_blob, atomic_memory_sentinel_new,
         atomic_memory_sentinel_destroy, QueryFence, ChannelFence, DropBegin, DropJoin, workVars
    <3> QED
      BY <2>3, <3>1
  <2>9. CASE Environment \/ UNCHANGED vars
    <3>1. UNCHANGED <<wpc, wevent>>
      BY <2>9 DEF Environment, GuestRead, PeerSend, PeerClose, PeerPipe, PeerEvent, WatcherSignal,
                hostSide, workVars, vars
    <3> QED
      BY <2>3, <3>1
  <2> QED
    BY <2>2, <2>3, <2>4, <2>6, <2>7, <2>8, <2>9 DEF Next
<1> QED
  BY <1>3, <1>4, <1>5

\* A signalled fence finds its message: the reply in hand is one, the ring is
\* written when the worker comes to signal, and stays so until the guest reads.
FreshInv ==
    /\ \A s \in Sessions : wpc[s] = "files" => wreply[s].kind = "receive"
    /\ Live => /\ \A s \in Sessions : wpc[s] \in Signalling => ring[rings[s].channel] # NoMsg
               /\ \A f \in Fences : Waits(f) /\ signals[f] > 0 => ring[fring[f]] # NoMsg

LEMMA FreshMove ==
  ASSUME IInv, RingInv, FreshInv, Live' => Live,
         \A s \in Sessions : wpc'[s] = "files" => wreply'[s].kind = "receive",
         \A s \in Sessions : Live /\ wpc'[s] \in Signalling =>
            \/ wpc[s] \in Signalling /\ rings'[s] = rings[s]
            \/ ring'[rings'[s].channel] # NoMsg,
         \A f \in Fences : Waits(f)' /\ signals'[f] > 0 =>
            Waits(f) /\ signals[f] > 0 /\ fring'[f] = fring[f],
         \A c \in ChannelRings : ring'[c] = ring[c] \/ ring'[c] # NoMsg
  PROVE  FreshInv'
<1>1. ASSUME Live', NEW s \in Sessions, wpc'[s] \in Signalling PROVE ring'[rings'[s].channel] # NoMsg
  <2>1. CASE wpc[s] \in Signalling /\ rings'[s] = rings[s]
    <3>1. ring[rings[s].channel] # NoMsg /\ rings[s].channel \in ChannelRings
      BY <1>1, <2>1, HeldWaits DEF FreshInv, Busy, Signalling
    <3> QED
      BY <2>1, <3>1
  <2> QED
    BY <1>1, <2>1
<1>2. ASSUME Live', NEW f \in Fences, Waits(f)', signals'[f] > 0 PROVE ring'[fring'[f]] # NoMsg
  BY <1>2 DEF FreshInv, Waits
<1> QED
  BY <1>1, <1>2 DEF FreshInv

LEMMA FreshSame ==
  ASSUME IInv, RingInv, FreshInv, Live' => Live, UNCHANGED <<wpc, wreply, rings, ring, signals, created, read, fring>>
  PROVE  FreshInv'
<1>1. \A f : Waits(f)' <=> Waits(f)
  BY DEF Waits
<1>2. \A s \in Sessions : wpc'[s] = "files" => wreply'[s].kind = "receive"
  BY DEF FreshInv
<1> QED
  BY <1>1, <1>2, FreshMove

LEMMA FreshContext ==
  ASSUME GuestDiscipline, IInv, UncreatedRing, RingInv, FreshInv, ContextStep, Live' => Live PROVE FreshInv'
<1>1. CASE /\ ~get_image_requirements /\ ~\E c \in InitCmds : initialize(c)
           /\ ~\E f \in Fences : QueryFence(f) \/ ChannelFence(f)
  <2>1. UNCHANGED <<wpc, wreply, rings, ring, signals, created, read, fring>>
    BY <1>1 DEF ContextStep, attach, detach, SendBegin, SendIdentifier, SendFinish, WriteBegin, WriteEnd,
         WriteError, read_event_new, import_virtiofs_handle, socket_assign_uuid, context_create_blob,
         atomic_memory_sentinel_new, atomic_memory_sentinel_destroy, DropBegin, DropJoin, workVars, guestVars
  <2> QED
    BY <2>1, FreshSame
<1>2. CASE get_image_requirements
  <2>1. UNCHANGED <<wpc, wreply, rings, signals, created, read, fring>>
    BY <1>2 DEF get_image_requirements, workVars, guestVars
  <2>2. \A f : Waits(f)' <=> Waits(f)
    BY <2>1 DEF Waits
  <2>3. \A s \in Sessions : wpc'[s] = "files" => wreply'[s].kind = "receive"
    BY <2>1 DEF FreshInv
  <2> QED
    BY <1>2, <2>1, <2>2, <2>3, QueryWrite, FreshMove
<1>3. ASSUME NEW c \in InitCmds, initialize(c) PROVE FreshInv'
  <2>1. /\ UNCHANGED <<wreply, ring, signals, created, read, fring>>
        /\ UNCHANGED rings \/ rings' = [rings EXCEPT ![cur + 1] = [query |-> c.query, channel |-> c.channel]]
        /\ UNCHANGED wpc \/ wpc' = [wpc EXCEPT ![cur + 1] = "idle"]
    BY <1>3 DEF initialize, Spawn, workVars, guestVars
  <2>2. \A f : Waits(f)' <=> Waits(f)
    BY <2>1 DEF Waits
  <2>3. ASSUME NEW s \in Sessions, wpc'[s] \in Signalling \cup {"files"}
        PROVE  wpc'[s] = wpc[s] /\ s # cur + 1 /\ rings'[s] = rings[s]
    <3>1. wpc'[s] = wpc[s]
      BY <2>1, <2>3 DEF Signalling, IInv, TypeOK, WorkerType
    <3>2. s <= cur /\ cur \in Nat /\ s \in Nat
      BY <2>3, <3>1 DEF IInv, SessionInv, Signalling, TypeOK, CtxType, Sessions
    <3>3. s # cur + 1
      BY <3>2
    <3> QED
      BY <2>1, <3>1, <3>3 DEF IInv, TypeOK, CtxType
  <2>4. \A s \in Sessions : wpc'[s] = "files" => wreply'[s].kind = "receive"
    BY <2>1, <2>3 DEF FreshInv
  <2> QED
    BY <2>1, <2>2, <2>3, <2>4, FreshMove
<1>4. ASSUME NEW f \in Fences, QueryFence(f) \/ ChannelFence(f) PROVE FreshInv'
  <2>1. /\ f \in Fences \ created /\ created' = created \cup {f}
        /\ UNCHANGED <<rings, wpc, wreply, read, ring>>
    BY <1>4 DEF QueryFence, ChannelFence, workVars
  <2>2. \A g \in created : fring'[g] = fring[g] /\ signals'[g] = signals[g]
    BY <1>4, <2>1 DEF QueryFence, ChannelFence, IInv, TypeOK, GuestType
  <2>3. signals[f] = 0
    BY <2>1 DEF IInv, FenceInv, SignalledCreated
  <2>4. fring'[f] \in ChannelRings => signals'[f] = 0
    <3>1. CASE ChannelFence(f)
      BY <2>3, <3>1 DEF ChannelFence
    <3>2. CASE QueryFence(f) /\ cur # 0
      <4>1. cur \in Sessions /\ cur <= cur
        BY <3>2, InputAssumption DEF IInv, TypeOK, CtxType, Sessions
      <4>2. rings[cur].query \in QueryRings
        BY <4>1 DEF RingInv, RingsNamed
      <4>3. fring'[f] = rings[cur].query
        BY <3>2 DEF QueryFence, IInv, TypeOK, GuestType
      <4> QED
        BY <4>2, <4>3 DEF GuestDiscipline
    <3>3. CASE QueryFence(f) /\ cur = 0
      BY <2>1, <3>3, RingNames DEF QueryFence, UncreatedRing
    <3> QED
      BY <1>4, <3>1, <3>2, <3>3
  <2>5. ASSUME NEW g \in Fences, Waits(g)', signals'[g] > 0
        PROVE  Waits(g) /\ signals[g] > 0 /\ fring'[g] = fring[g]
    <3>1. g # f
      BY <2>4, <2>5 DEF Waits
    <3>2. g \in created
      BY <2>1, <2>5, <3>1 DEF Waits
    <3> QED
      BY <2>1, <2>2, <2>5, <3>2 DEF Waits
  <2>6. \A s \in Sessions : wpc'[s] = "files" => wreply'[s].kind = "receive"
    BY <2>1 DEF FreshInv
  <2> QED
    BY <2>1, <2>5, <2>6, FreshMove
<1> QED
  BY <1>1, <1>2, <1>3, <1>4

\* A worker that comes to signal has written a message.
LEMMA WritesMessage ==
  ASSUME IInv, FreshInv, NEW s \in Sessions, RingStep(s), wpc'[s] \in Signalling
  PROVE  ring'[rings[s].channel] # NoMsg
<1>1. rings[s].channel \in Resources
  BY RingStepIs DEF Signalling
<1>2. ring \in [Resources -> Messages] /\ wpc \in [Sessions -> Busy \cup {"none", "idle", "halted", "done"}]
  BY DEF IInv, TypeOK, SharedType, WorkerType
<1>3. NoMsg.kind = "none"
  BY DEF NoMsg, Msg
<1>4. \A id, n : Msg("read", id, n, <<>>).kind = "read" /\ Msg("sentinel", id, n, <<>>).kind = "sentinel"
  BY DEF Msg
<1>5. CASE ReceiveReply(s)
  <2>1. ring'[rings[s].channel] = wreply[s] /\ wpc[s] = "files"
    BY <1>1, <1>2, <1>5 DEF ReceiveReply, Halt, Signalling
  <2> QED
    BY <1>3, <2>1 DEF FreshInv
<1>6. CASE HandleSentinel(s)
  <2>1. ring'[rings[s].channel] = Msg("sentinel", wevent[s].id, 0, <<>>)
    BY <1>1, <1>2, <1>6 DEF HandleSentinel, Halt, Signalling
  <2> QED
    BY <1>3, <1>4, <2>1
<1>7. CASE HandlePipe(s)
  <2>1. ring'[rings[s].channel] = Msg("read", wevent[s].id, ReadNumber(s), <<>>)
    BY <1>1, <1>2, <1>7 DEF HandlePipe, Halt, Signalling
  <2> QED
    BY <1>3, <1>4, <2>1
<1>8. CASE HandleEvent(s)
  <2>1. ring'[rings[s].channel] = Msg("read", wevent[s].id, evt[wevent[s].id], <<>>)
    BY <1>1, <1>2, <1>8 DEF HandleEvent, Halt, Signalling
  <2> QED
    BY <1>3, <1>4, <2>1
<1> QED
  BY <1>5, <1>6, <1>7, <1>8 DEF RingStep

LEMMA FreshWorker ==
  ASSUME IInv, RingInv, KillInv, FreshInv, NEW s \in Sessions, WorkerStep(s) PROVE FreshInv'
<1>1. /\ UNCHANGED <<rings, cur, fring, created, read>>
      /\ \A t \in Sessions \ {s} : wpc'[t] = wpc[t] /\ wfence'[t] = wfence[t]
  BY WorkerElsewhere
<1>2. Live' <=> Live
  <2>1. UNCHANGED ctx
    BY DEF WorkerStep, TakeJob, Poll, Receive, ReceiveFile, ReceiveReply, HandleResample, HandleKill,
         HandleSentinel, HandleSentinelShutdown, LookupItem, HandlePipe, HandleEvent, SignalFence,
         ctxSide, ctxVars
  <2> QED
    BY <2>1 DEF Live
<1>3. \A f : Waits(f)' <=> Waits(f)
  BY <1>1 DEF Waits
<1>4. /\ wpc \in [Sessions -> Busy \cup {"none", "idle", "halted", "done"}]
      /\ wreply \in [Sessions -> Messages] /\ ring \in [Resources -> Messages]
  BY DEF IInv, TypeOK, SharedType, WorkerType
<1>5. \A t \in Sessions : wpc'[t] = "files" => wreply'[t].kind = "receive"
  <2>1. CASE UNCHANGED wreply /\ wpc'[s] # "files"
    BY <1>1, <2>1 DEF FreshInv
  <2>2. CASE Receive(s)
    <3>1. \E n : wreply' = [wreply EXCEPT ![s] = Msg("receive", s, n, <<>>)]
      BY <2>2 DEF Receive
    <3>2. wreply'[s].kind = "receive" /\ \A t \in Sessions \ {s} : wreply'[t] = wreply[t]
      BY <1>4, <3>1 DEF Msg
    <3> QED
      BY <1>1, <3>2 DEF FreshInv
  <2>3. CASE ReceiveFile(s)
    <3>1. wpc[s] = "files" /\ (UNCHANGED wreply \/ \E q : wreply' = [wreply EXCEPT ![s].ids = q])
      BY <2>3 DEF ReceiveFile
    <3>2. ASSUME NEW t \in Sessions PROVE wreply'[t].kind = wreply[t].kind
      <4>1. wreply[t] \in [kind : {"none", "receive", "read", "sentinel", "reqs"}, src : Nat, n : Nat, ids : Seq(Ids)]
        BY <1>4 DEF Messages
      <4> QED
        BY <1>4, <3>1, <4>1
    <3> QED
      BY <1>1, <3>1, <3>2 DEF FreshInv
  <2>4. CASE ~Receive(s) /\ ~ReceiveFile(s)
    <3>1. UNCHANGED wreply /\ wpc'[s] # "files"
      BY <1>4, <2>4 DEF WorkerStep, TakeJob, AddDescriptor, Poll, ReceiveReply, HandleResample, HandleKill,
         HandleSentinel, HandleSentinelShutdown, LookupItem, HandlePipe, HandleEvent, SignalFence, Goto, Halt
    <3> QED
      BY <2>1, <3>1
  <2> QED
    BY <2>2, <2>3, <2>4
<1>6. CASE RingStep(s)
  <2>1. UNCHANGED signals /\ \A c \in ChannelRings : ring'[c] = ring[c] \/ ring'[c] # NoMsg
    <3>1. CASE UNCHANGED ring
      BY <1>6, <3>1, RingStepIs
    <3>2. CASE ~UNCHANGED ring
      <4>1. wpc'[s] \in Signalling /\ UNCHANGED signals
        BY <1>6, <3>2, RingStepIs
      <4>2. PICK m : ring' = [ring EXCEPT ![rings[s].channel] = m]
        BY <1>6, <3>2, RingStepIs
      <4>3. ring'[rings[s].channel] # NoMsg
        BY <1>6, <4>1, WritesMessage
      <4> QED
        BY <1>4, <4>1, <4>2, <4>3, RingNames
    <3> QED
      BY <3>1, <3>2
  <2>2. wpc'[s] \in Signalling => ring'[rings[s].channel] # NoMsg
    BY <1>6, WritesMessage
  <2> QED
    BY <1>1, <1>2, <1>3, <1>5, <2>1, <2>2, FreshMove
<1>7. CASE SignalFence(s)
  <2>1. /\ wpc[s] \in Signalling /\ wpc'[s] = "idle" /\ UNCHANGED ring
        /\ signals' = [signals EXCEPT ![wfence[s]] = @ + 1]
    BY <1>4, <1>7 DEF SignalFence, Signalling, Goto
  <2>2. Waits(wfence[s]) /\ fring[wfence[s]] = rings[s].channel
    BY <2>1, HeldWaits DEF Signalling, Busy
  <2>3. ASSUME Live', NEW f \in Fences, Waits(f)', signals'[f] > 0 PROVE ring'[fring'[f]] # NoMsg
    <3>1. CASE f = wfence[s]
      BY <1>1, <1>2, <2>1, <2>2, <2>3, <3>1 DEF FreshInv
    <3>2. CASE f # wfence[s]
      <4>1. signals[f] > 0
        BY <2>1, <2>3, <3>2 DEF IInv, TypeOK, GuestType
      <4> QED
        BY <1>1, <1>2, <1>3, <2>1, <2>3, <4>1 DEF FreshInv
    <3> QED
      BY <3>1, <3>2
  <2>4. ASSUME Live', NEW t \in Sessions, wpc'[t] \in Signalling PROVE ring'[rings'[t].channel] # NoMsg
    BY <1>1, <1>2, <2>1, <2>4 DEF FreshInv, Signalling
  <2> QED
    BY <1>5, <2>3, <2>4 DEF FreshInv
<1>8. CASE ~RingStep(s) /\ ~SignalFence(s)
  <2>1. UNCHANGED <<ring, signals>>
    BY <1>8 DEF WorkerStep, RingStep, TakeJob, Poll, Receive, ReceiveFile, HandleResample, HandleKill,
         HandleSentinelShutdown, LookupItem
  <2>2. HandleKill(s) => ~Live
    BY DEF HandleKill, KillInv
  <2>3. ~HandleKill(s) => wpc'[s] \notin Signalling
    BY <1>4, <1>8 DEF WorkerStep, RingStep, TakeJob, AddDescriptor, Poll, Receive, ReceiveFile,
         HandleResample, HandleSentinelShutdown, LookupItem, Goto, Halt, Signalling
  <2>4. \A t \in Sessions : Live /\ wpc'[t] \in Signalling =>
            \/ wpc[t] \in Signalling /\ rings'[t] = rings[t]
            \/ ring'[rings'[t].channel] # NoMsg
    BY <1>1, <2>2, <2>3
  <2>5. \A f \in Fences : Waits(f)' /\ signals'[f] > 0 => Waits(f) /\ signals[f] > 0 /\ fring'[f] = fring[f]
    BY <1>1, <1>3, <2>1
  <2>6. \A c \in ChannelRings : ring'[c] = ring[c] \/ ring'[c] # NoMsg
    BY <2>1
  <2> QED
    BY <1>2, <1>5, <2>4, <2>5, <2>6, FreshMove
<1> QED
  BY <1>6, <1>7, <1>8

\* The guest empties the ring of its fence, which no other fence waits for.
LEMMA FreshRead == ASSUME IInv, RingInv, FreshInv, NEW f \in Fences, GuestRead(f) PROVE FreshInv'
<1>1. /\ UNCHANGED <<ctx, rings, wpc, wreply, fring, created, signals>>
      /\ f \in created \ read /\ signals[f] > 0 /\ read' = read \cup {f}
      /\ ring' = IF fring[f] # 0 THEN [ring EXCEPT ![fring[f]] = NoMsg] ELSE ring
  BY DEF GuestRead, hostSide, ctxVars, workVars
<1>2. ring \in [Resources -> Messages]
  BY DEF IInv, TypeOK, SharedType
<1>3. \A g : Waits(g)' <=> Waits(g) /\ g # f
  BY <1>1 DEF Waits
<1>4. fring[f] \in ChannelRings => Waits(f)
  BY <1>1 DEF Waits
<1>5. ASSUME NEW c \in ChannelRings, c # fring[f] PROVE ring'[c] = ring[c]
  BY <1>1, <1>2, <1>5, RingNames
<1>6. ASSUME Live', NEW s \in Sessions, wpc'[s] \in Signalling PROVE ring'[rings'[s].channel] # NoMsg
  <2>1. /\ wfence[s] \in Fences /\ Waits(wfence[s]) /\ signals[wfence[s]] = 0
        /\ fring[wfence[s]] = rings[s].channel /\ rings[s].channel \in ChannelRings
    BY <1>1, <1>6, HeldWaits DEF Signalling, Busy
  <2>2. rings[s].channel # fring[f]
    BY <1>1, <1>4, <2>1 DEF RingInv, OneWaits
  <2> QED
    BY <1>1, <1>5, <1>6, <2>1, <2>2 DEF FreshInv, Live
<1>7. ASSUME Live', NEW g \in Fences, Waits(g)', signals'[g] > 0 PROVE ring'[fring'[g]] # NoMsg
  <2>1. Waits(g) /\ g # f /\ fring[g] \in ChannelRings
    BY <1>3, <1>7 DEF Waits
  <2>2. fring[g] # fring[f]
    BY <1>4, <2>1 DEF RingInv, OneWaits
  <2> QED
    BY <1>1, <1>5, <1>7, <2>1, <2>2 DEF FreshInv, Live
<1> QED
  BY <1>1, <1>6, <1>7 DEF FreshInv

LEMMA FreshNext ==
  ASSUME GuestDiscipline
  PROVE  IInv /\ UncreatedRing /\ RingInv /\ KillInv /\ FreshInv /\ [Next]_vars => FreshInv'
<1> SUFFICES ASSUME IInv, UncreatedRing, RingInv, KillInv, FreshInv, [Next]_vars PROVE FreshInv'
  OBVIOUS
<1>1. Live' => Live
  BY LiveBefore
<1>2. CASE (Environment /\ ~\E f \in Fences : GuestRead(f)) \/ UNCHANGED vars
  <2>1. UNCHANGED <<wpc, wreply, rings, ring, signals, created, read, fring>>
    BY <1>2 DEF Environment, PeerSend, PeerClose, PeerPipe, PeerEvent, WatcherSignal,
                hostSide, vars, workVars, guestVars
  <2> QED
    BY <1>1, <2>1, FreshSame
<1> QED
  BY <1>1, <1>2, FreshContext, FreshWorker, FreshRead DEF Next, Environment

LEMMA FreshInit == Init => KillInv /\ FreshInv
<1> SUFFICES ASSUME Init PROVE KillInv /\ FreshInv
  OBVIOUS
<1>1. \A s \in Sessions : Places(s) = {}
  BY DEF Init, Places
<1>2. KillInv
  BY <1>1 DEF Init, KillInv, KillUnused, KillId
<1>3. FreshInv
  BY DEF Init, FreshInv, Waits, Signalling
<1> QED
  BY <1>2, <1>3

LEMMA FreshAlways == ASSUME GuestDiscipline, IdsApart PROVE Spec => [](KillInv /\ FreshInv)
<1>1. IInv /\ IdInv /\ KillInv /\ [Next]_vars => KillInv'
  BY KillInvNext
<1>2. IInv /\ UncreatedRing /\ RingInv /\ KillInv /\ FreshInv /\ [Next]_vars => FreshInv'
  BY FreshNext
<1>3. Spec => []RingInv
  BY RingInvAlways
<1> QED
  BY <1>1, <1>2, <1>3, FreshInit, Invariance, IdInvAlways, UncreatedRingAlways, PTL DEF Spec

\* "Signaling the fence means it's okay for the guest to access ring data"
\* (worker.rs): while the context lives, the guest of a signalled channel fence
\* finds a message it has not read, if it waits for one fence at a time, has
\* separate rings, and gives no event or sentinel the id of the kill event,
\* which makes the worker signal with nothing written.
THEOREM RingsAlwaysFresh == ASSUME GuestDiscipline, IdsApart PROVE Spec => []RingFresh
<1>1. IInv /\ RingInv /\ FreshInv => RingFresh
  <2> SUFFICES ASSUME IInv, RingInv, FreshInv, ctx \in {"idle", "send", "write"}, NEW f \in created \ read,
                      NEW s \in Sessions, signals[f] > 0, fring[f] # 0, fring[f] = rings[s].channel
               PROVE  ring[fring[f]] # NoMsg
    BY DEF RingFresh
  <2>1. rings[s].channel \in ChannelRings
    BY DEF RingInv, RingsNamed
  <2>2. f \in Fences /\ Waits(f)
    BY <2>1 DEF Waits, IInv, TypeOK, GuestType
  <2> QED
    BY <2>2 DEF FreshInv, Live
<1>2. Spec => []RingInv /\ [](KillInv /\ FreshInv)
  BY RingInvAlways, FreshAlways
<1> QED
  BY <1>1, <1>2, Invariance, PTL

-----------------------------------------------------------------------------
(* Kinds of items                                                          *)

\* Read pipes have ids above PipeReadStart, events below it.
KindOk(id, ty) ==
    /\ ty = "Event" => id < PipeReadStart
    /\ ty = "ReadPipe" => PipeReadStart < id
KindInv ==
    /\ \A id \in Ids : KindOk(id, items[id])
    /\ ctx = "write" => wr.ty # "ReadPipe" /\ KindOk(wr.id, wr.ty)
    /\ \A id \in evtOpen : id < PipeReadStart

\* A new item has an id of its kind.
LEMMA NewKind ==
  ASSUME TypeOK, IdInv, NEW ty \in ItemTypes, add_item(ty)
  PROVE  KindOk(NewId(ty), ty) /\ NewId(ty) \in Nat
<1>1. /\ {descriptor_id, read_pipe_id, IdModulus, PipeReadStart, MaxDescriptor, SentinelStart, MaxPipe} \subseteq Nat
      /\ MaxDescriptor < SentinelStart /\ SentinelStart < PipeReadStart /\ MaxPipe < IdModulus
      /\ PipeReadStart <= MaxPipe /\ PipeReadStart <= read_pipe_id
  BY IdAssumption DEF IdInv, TypeOK, SharedType, Ids
<1>2. CASE ty = "ReadPipe"
  <2>1. NewId(ty) = read_pipe_id + 1
    BY <1>2, PipeId
  <2> QED
    BY <1>1, <1>2, <2>1 DEF KindOk
<1>3. CASE ty # "ReadPipe"
  <2>1. descriptor_id < MaxDescriptor
    BY <1>3 DEF add_item
  <2>2. (descriptor_id + 1) % IdModulus = descriptor_id + 1
    BY <1>1, <2>1
  <2>3. NewId(ty) = descriptor_id + 1
    BY <1>3, <2>2 DEF NewId
  <2> QED
    BY <1>1, <1>3, <2>1, <2>3 DEF KindOk
<1> QED
  BY <1>2, <1>3

LEMMA KindMove ==
  ASSUME TypeOK, KindInv, UNCHANGED evtOpen,
         \A id \in Ids : items'[id] \in {items[id], "none", "File"} \/ KindOk(id, items'[id]),
         ctx' = "write" => wr'.ty # "ReadPipe" /\ KindOk(wr'.id, wr'.ty)
  PROVE  KindInv'
<1>1. \A id \in Ids : KindOk(id, "none") /\ KindOk(id, "File")
  BY DEF KindOk
<1>2. \A id \in Ids : KindOk(id, items'[id])
  BY <1>1 DEF KindInv
<1>3. \A id \in Ids : KindOk(id, items[id])'
  BY <1>2 DEF KindOk
<1>4. (ctx' = "write" => wr'.ty # "ReadPipe" /\ KindOk(wr.id, wr.ty)')
  BY DEF KindOk
<1> QED
  BY <1>3, <1>4 DEF KindInv

LEMMA KindSame ==
  ASSUME TypeOK, KindInv, UNCHANGED <<items, evtOpen>>, UNCHANGED <<ctx, wr>> \/ ctx' # "write"
  PROVE  KindInv'
  BY KindMove DEF KindInv

LEMMA KindAdd ==
  ASSUME TypeOK, IdInv, KindInv, NEW ty \in ItemTypes, add_item(ty), UNCHANGED evtOpen, ctx' # "write"
  PROVE  KindInv'
<1>1. items' = [items EXCEPT ![NewId(ty)] = ty]
  BY DEF add_item
<1>2. KindOk(NewId(ty), ty)
  BY NewKind
<1>3. \A id \in Ids : items'[id] = items[id] \/ KindOk(id, items'[id])
  BY <1>1, <1>2 DEF TypeOK, SharedType
<1> QED
  BY <1>3, KindMove

LEMMA KindDrop ==
  ASSUME TypeOK, KindInv, NEW id, DropItem(id), UNCHANGED evtOpen,
         ctx' = "write" => wr'.ty # "ReadPipe" /\ KindOk(wr'.id, wr'.ty)
  PROVE  KindInv'
<1>1. \A i \in Ids : items'[i] \in {items[i], "none"}
  BY DEF DropItem, TypeOK, SharedType
<1> QED
  BY <1>1, KindMove

LEMMA KindContext == ASSUME TypeOK, IdInv, KindInv, ContextStep PROVE KindInv'
<1>1. UNCHANGED evtOpen
  BY DEF ContextStep, attach, detach, initialize, get_image_requirements, SendBegin, SendIdentifier,
         SendFinish, WriteBegin, WriteEnd, WriteError, read_event_new, import_virtiofs_handle,
         socket_assign_uuid, context_create_blob, atomic_memory_sentinel_new,
         atomic_memory_sentinel_destroy, QueryFence, ChannelFence, DropBegin, DropJoin, peerVars
<1>2. CASE get_image_requirements
  <2>1. add_item("Reqs") /\ ctx' # "write"
    BY <1>2 DEF get_image_requirements, Idle, ctxVars
  <2> QED
    BY <1>1, <2>1, KindAdd DEF ItemTypes
<1>3. CASE SendIdentifier
  <2>1. ctx' # "write"
    BY <1>3 DEF SendIdentifier, SendBlob, SendReadPipe, SendFsBlob, SendNext, SendError
  <2>2. UNCHANGED itemVars \/ add_item("ReadPipe") \/ DropItem(Head(send.todo).id)
    BY <1>3 DEF SendIdentifier, SendBlob, SendReadPipe, SendFsBlob
  <2> QED
    BY <1>1, <2>1, <2>2, KindSame, KindAdd, KindDrop DEF ItemTypes, itemVars
<1>4. ASSUME NEW id \in TouchIds, NEW hup, WriteBegin(id, hup) PROVE KindInv'
  <2>1. id \in Ids /\ DropItem(id) /\ KindOk(id, items[id])
    BY <1>4, IdAssumption DEF WriteBegin, KindInv
  <2>2. ctx' = "write" => wr' = [id |-> id, ty |-> items[id], hup |-> hup] /\ items[id] \in {"WritePipe", "Event"}
    BY <1>4 DEF WriteBegin, Idle
  <2> QED
    BY <1>1, <2>1, <2>2, KindDrop
<1>5. CASE WriteEnd
  <2>1. /\ ctx = "write" /\ ctx' # "write"
        /\ items' = items \/ items' = [items EXCEPT ![wr.id] = wr.ty]
    BY <1>5 DEF WriteEnd
  <2>2. KindOk(wr.id, wr.ty)
    BY <2>1 DEF KindInv
  <2>3. \A id \in Ids : items'[id] = items[id] \/ KindOk(id, items'[id])
    BY <2>1, <2>2 DEF TypeOK, SharedType
  <2> QED
    BY <1>1, <2>1, <2>3, KindMove
<1>6. ASSUME NEW id \in TouchIds, context_create_blob(id) \/ \E u \in Uuids : socket_assign_uuid(id, u)
      PROVE  KindInv'
  <2>1. DropItem(id) /\ ctx' # "write"
    BY <1>6 DEF context_create_blob, socket_assign_uuid, Idle, ctxVars
  <2> QED
    BY <1>1, <2>1, KindDrop
<1>7. ASSUME NEW id \in ImportIds, import_virtiofs_handle(id) PROVE KindInv'
  <2>1. items' = [items EXCEPT ![id] = "File"] /\ ctx' # "write"
    BY <1>7 DEF import_virtiofs_handle, Idle, ctxVars
  <2>2. \A i \in Ids : items'[i] \in {items[i], "File"}
    BY <2>1 DEF TypeOK, SharedType
  <2> QED
    BY <1>1, <2>1, <2>2, KindMove
<1>8. CASE \/ SendFinish \/ WriteError \/ DropBegin \/ DropJoin \/ \E cmd \in SendCmds : SendBegin(cmd)
           \/ \E r \in Resources : attach(r) \/ detach(r)
           \/ \E c \in InitCmds : initialize(c)
           \/ \E id \in EventIds : read_event_new(id)
           \/ \E id \in SentIds : atomic_memory_sentinel_new(id) \/ atomic_memory_sentinel_destroy(id)
           \/ \E f \in Fences : QueryFence(f) \/ ChannelFence(f)
  <2>1. UNCHANGED items /\ (UNCHANGED <<ctx, wr>> \/ ctx' # "write")
    BY <1>8 DEF SendFinish, SendError, WriteError, DropBegin, DropJoin, SendBegin, attach, detach,
         initialize, read_event_new, atomic_memory_sentinel_new, atomic_memory_sentinel_destroy,
         QueryFence, ChannelFence, itemVars, ctxVars
  <2> QED
    BY <1>1, <2>1, KindSame
<1> QED
  BY <1>2, <1>3, <1>4, <1>5, <1>6, <1>7, <1>8 DEF ContextStep

LEMMA KindWorker == ASSUME TypeOK, IdInv, KindInv, NEW s \in Sessions, WorkerStep(s) PROVE KindInv'
<1>1. UNCHANGED <<ctx, wr>>
  BY DEF WorkerStep, TakeJob, Poll, Receive, ReceiveFile, ReceiveReply, HandleResample, HandleKill,
         HandleSentinel, HandleSentinelShutdown, LookupItem, HandlePipe, HandleEvent, SignalFence,
         ctxSide, ctxVars
<1>2. CASE ReceiveFile(s)
  <2>1. CASE UNCHANGED <<items, evtOpen>>
    BY <1>1, <2>1, KindSame
  <2>2. CASE ~UNCHANGED <<items, evtOpen>>
    <3> DEFINE ty == Head(wfiles[s])
    <3>1. wfiles[s] \in Seq(FileTypes) /\ wfiles[s] # <<>>
      BY <1>2 DEF ReceiveFile, TypeOK, WorkerType
    <3>2. ty \in FileTypes
      BY <3>1
    <3>3. add_item(ty) /\ ty \in ItemTypes /\ evtOpen' = IF ty = "Event" THEN evtOpen \cup {NewId(ty)} ELSE evtOpen
      BY <1>2, <2>2, <3>2 DEF ReceiveFile, FileTypes, ItemTypes, itemVars
    <3> HIDE DEF ty
    <3>4. KindOk(NewId(ty), ty) /\ items' = [items EXCEPT ![NewId(ty)] = ty] /\ ctx' # "write"
      BY <1>1, <3>3, NewKind DEF add_item, ItemsFree
    <3>5. ASSUME NEW id \in Ids PROVE KindOk(id, items[id])'
      <4>1. KindOk(id, items'[id])
        BY <3>4 DEF TypeOK, SharedType, KindInv
      <4> QED
        BY <4>1 DEF KindOk
    <3>6. ASSUME NEW id \in evtOpen' PROVE id < PipeReadStart
      BY <3>3, <3>4 DEF KindInv, KindOk
    <3> QED
      BY <3>4, <3>5, <3>6 DEF KindInv
  <2> QED
    BY <2>1, <2>2
<1>3. CASE HandlePipe(s)
  <2>1. UNCHANGED evtOpen /\ (UNCHANGED items \/ DropItem(wevent[s].id))
    BY <1>3 DEF HandlePipe, itemVars
  <2>2. ctx' = "write" => wr'.ty # "ReadPipe" /\ KindOk(wr'.id, wr'.ty)
    BY <1>1 DEF KindInv
  <2> QED
    BY <1>1, <2>1, <2>2, KindSame, KindDrop
<1>4. CASE ~ReceiveFile(s) /\ ~HandlePipe(s)
  <2>1. UNCHANGED <<items, evtOpen>>
    BY <1>4 DEF WorkerStep, TakeJob, Poll, Receive, ReceiveReply, HandleResample, HandleKill,
         HandleSentinel, HandleSentinelShutdown, LookupItem, HandleEvent, SignalFence, itemVars, peerVars
  <2> QED
    BY <1>1, <2>1, KindSame
<1> QED
  BY <1>2, <1>3, <1>4

LEMMA KindNext == TypeOK /\ IdInv /\ KindInv /\ [Next]_vars => KindInv'
<1>1. ASSUME TypeOK, KindInv, Environment \/ UNCHANGED vars PROVE KindInv'
  <2>1. UNCHANGED <<items, evtOpen, ctx, wr>>
    BY <1>1 DEF Environment, GuestRead, PeerSend, PeerClose, PeerPipe, PeerEvent, WatcherSignal,
                hostSide, ctxVars, itemVars, peerVars, vars
  <2> QED
    BY <1>1, <2>1, KindSame
<1> QED
  BY <1>1, KindContext, KindWorker DEF Next

LEMMA KindAlways == Spec => []KindInv
<1>1. Init => KindInv
  BY DEF Init, KindInv, KindOk
<1>2. IInv => TypeOK
  BY DEF IInv
<1> QED
  BY <1>1, <1>2, KindNext, Invariance, IdInvAlways, PTL DEF Spec

-----------------------------------------------------------------------------
(* Numbers in flight                                                       *)

Pipes == PipeReadStart .. MaxPipe

\* Message m is a numbered message of a source: a connection, or a pipe.
Carries(m, kind, src) == m.kind = kind /\ m.src = src /\ m.n # 0
Got(kind, src) == Cardinality(SeenFrom(kind, src))
InFlight(kind, src) == \E c \in ChannelRings : Carries(ring[c], kind, src)

\* Messages the worker of s has taken from the connection, and the one it has
\* in hand.
Taken(s)  == csent[s] - Len(inq[s])
InHand(s) == wpc[s] = "files" /\ wreply[s].n # 0

\* Of the total that has left a source the guest has read all, or all but the
\* last, which is in its ring.
Counted(kind, src, total, settled) ==
    /\ \A c \in ChannelRings :
          Carries(ring[c], kind, src) => ring[c].n = total /\ Got(kind, src) + 1 = total
    /\ settled /\ ~InFlight(kind, src) => Got(kind, src) = total

SessionCounted(s) ==
    /\ Counted("receive", s, Taken(s), wpc[s] # "halted" /\ ~InHand(s))
    /\ wpc[s] = "files" => wreply[s].kind = "receive" /\ wreply[s].src = s
    /\ InHand(s) => wreply[s].n = Taken(s) /\ Got("receive", s) + 1 = Taken(s)
PipeCounted(x) == Counted("read", x, pread[x], TRUE)

CountInv ==
    /\ \A s \in Sessions : SessionCounted(s)
    /\ \A x \in Pipes : PipeCounted(x)
    /\ \A r \in Resources \ ChannelRings : ring[r].kind \in {"none", "reqs"}
    /\ DeliveredInOrder

\* The guest reads one more message.
LEMMA OneMore ==
  ASSUME seen \in Seq(Messages), NEW m \in Messages, seen' = Append(seen, m), NEW kind, NEW src
  PROVE  /\ Got(kind, src) \in Nat
         /\ ~Carries(m, kind, src) => Got(kind, src)' = Got(kind, src)
         /\ Carries(m, kind, src) => Got(kind, src)' = Got(kind, src) + 1
         /\ InOrder(kind, src) /\ (Carries(m, kind, src) => m.n = Got(kind, src) + 1)
               => InOrder(kind, src)'
<1> DEFINE S == SeenFrom(kind, src)
           n == Len(seen)
<1>1. /\ n \in Nat /\ Len(seen') = n + 1 /\ seen'[n + 1] = m
      /\ \A i \in 1 .. n : seen'[i] = seen[i]
  OBVIOUS
<1>2. S \subseteq 1 .. n /\ IsFiniteSet(S) /\ Cardinality(S) \in Nat
  <2>1. S \subseteq 1 .. n
    BY DEF SeenFrom
  <2>2. IsFiniteSet(1 .. n)
    <3>1. 1 \in Int /\ n \in Int
      BY <1>1
    <3> HIDE DEF n
    <3> QED
      BY <3>1, FS_Interval
  <2> QED
    BY <2>1, <2>2, FS_Subset, FS_CardinalityType
<1>3. S' = IF Carries(m, kind, src) THEN S \cup {n + 1} ELSE S
  <2>1. \A i : i \in 1 .. n + 1 <=> i \in 1 .. n \/ i = n + 1
    BY <1>1
  <2>2. ASSUME NEW i PROVE i \in S' <=> i \in S \/ (i = n + 1 /\ Carries(m, kind, src))
    BY <1>1, <2>1 DEF SeenFrom, Carries
  <2> QED
    BY <2>2
<1>4. n + 1 \notin S
  BY <1>1, <1>2
<1>5. Carries(m, kind, src) => Cardinality(S') = Cardinality(S) + 1
  BY <1>2, <1>3, <1>4, FS_AddElement
<1>6. ASSUME InOrder(kind, src), Carries(m, kind, src) => m.n = Got(kind, src) + 1
      PROVE  InOrder(kind, src)'
  <2> SUFFICES ASSUME NEW i \in S' PROVE seen'[i].n = Cardinality({j \in S' : j <= i})
    BY DEF InOrder
  <2>1. CASE i \in S
    <3>1. seen'[i] = seen[i] /\ i \in 1 .. n
      BY <1>1, <1>2, <2>1
    <3>2. ~(n + 1 <= i)
      BY <1>1, <3>1
    <3>3. {j \in S' : j <= i} = {j \in S : j <= i}
      BY <1>3, <3>2
    <3>4. seen[i].n = Cardinality({j \in S : j <= i})
      BY <1>6, <2>1 DEF InOrder
    <3> QED
      BY <3>1, <3>3, <3>4
  <2>2. CASE i \notin S
    <3>1. i = n + 1 /\ Carries(m, kind, src)
      BY <1>3, <2>2
    <3>2. \A j \in S' : j <= i
      BY <1>1, <1>2, <1>3, <3>1
    <3>3. {j \in S' : j <= i} = S'
      BY <3>2
    <3> QED
      BY <1>1, <1>5, <1>6, <3>1, <3>3 DEF Got
  <2> QED
    BY <2>1, <2>2
<1> QED
  BY <1>2, <1>3, <1>5, <1>6 DEF Got

\* A message that is counted for no source.
Quiet(m) == m.n = 0 \/ (m.kind # "receive" /\ ~(m.kind = "read" /\ m.src \in Pipes))

\* The guest reads nothing, no source gives anything, and the rings hold what
\* they held, or messages that are not counted.
LEMMA CountMove ==
  ASSUME CountInv, UNCHANGED seen,
         \A s \in Sessions : Taken(s)' = Taken(s),
         \A x \in Pipes : pread'[x] = pread[x],
         \A c \in ChannelRings : ring'[c] = ring[c] \/ (Quiet(ring[c]) /\ Quiet(ring'[c])),
         \A r \in Resources \ ChannelRings : ring'[r] = ring[r] \/ ring'[r].kind \in {"none", "reqs"},
         \A s \in Sessions :
            /\ wpc'[s] # "halted" => wpc[s] # "halted" /\ (InHand(s)' <=> InHand(s))
            /\ InHand(s)' => InHand(s) /\ wreply'[s].n = wreply[s].n
            /\ wpc'[s] = "files" => wreply'[s].kind = "receive" /\ wreply'[s].src = s
  PROVE  CountInv'
<1>1. \A k, x : SeenFrom(k, x)' = SeenFrom(k, x) /\ Got(k, x)' = Got(k, x)
  BY DEF SeenFrom, Got
<1>2. DeliveredInOrder'
  <2>1. DeliveredInOrder
    BY DEF CountInv
  <2>2. ASSUME NEW k, NEW x, InOrder(k, x) PROVE InOrder(k, x)'
    BY <1>1, <2>2 DEF InOrder
  <2> QED
    BY <2>1, <2>2 DEF DeliveredInOrder
<1>3. ASSUME NEW s \in Sessions, NEW c \in ChannelRings
      PROVE  /\ Carries(ring[c], "receive", s)' <=> Carries(ring[c], "receive", s)
             /\ Carries(ring[c], "receive", s) => ring'[c].n = ring[c].n
  BY DEF Carries, Quiet
<1>4. ASSUME NEW x \in Pipes, NEW c \in ChannelRings
      PROVE  /\ Carries(ring[c], "read", x)' <=> Carries(ring[c], "read", x)
             /\ Carries(ring[c], "read", x) => ring'[c].n = ring[c].n
  BY DEF Carries, Quiet
<1>5. ASSUME NEW x \in Pipes PROVE PipeCounted(x)'
  <2>1. PipeCounted(x)
    BY DEF CountInv
  <2>2. InFlight("read", x)' <=> InFlight("read", x)
    BY <1>4 DEF InFlight
  <2> QED
    BY <1>1, <1>4, <2>1, <2>2 DEF PipeCounted, Counted
<1>6. ASSUME NEW s \in Sessions PROVE SessionCounted(s)'
  <2>1. SessionCounted(s)
    BY DEF CountInv
  <2>2. InFlight("receive", s)' <=> InFlight("receive", s)
    BY <1>3 DEF InFlight
  <2>3. Counted("receive", s, Taken(s), wpc[s] # "halted" /\ ~InHand(s))'
    BY <1>1, <1>3, <2>1, <2>2 DEF SessionCounted, Counted
  <2> QED
    BY <1>1, <2>1, <2>3 DEF SessionCounted
<1>7. \A r \in Resources \ ChannelRings : ring'[r].kind \in {"none", "reqs"}
  BY DEF CountInv
<1> QED
  BY <1>2, <1>5, <1>6, <1>7 DEF CountInv

LEMMA CountContext ==
  ASSUME GuestDiscipline, IInv, RingInv, CountInv, ContextStep PROVE CountInv'
<1>1. UNCHANGED <<seen, inq, csent, pread, wreply>>
  BY DEF ContextStep, attach, detach, initialize, Spawn, get_image_requirements, SendBegin, SendIdentifier,
         SendFinish, WriteBegin, WriteEnd, WriteError, read_event_new, import_virtiofs_handle,
         socket_assign_uuid, context_create_blob, atomic_memory_sentinel_new,
         atomic_memory_sentinel_destroy, QueryFence, ChannelFence, DropBegin, DropJoin, peerVars,
         guestVars, workVars
<1>2. \A s \in Sessions : Taken(s)' = Taken(s)
  BY <1>1 DEF Taken
<1>3. /\ \A c \in ChannelRings : ring'[c] = ring[c]
      /\ \A r \in Resources \ ChannelRings : ring'[r] = ring[r] \/ ring'[r].kind \in {"none", "reqs"}
  <2>1. CASE get_image_requirements
    <3>1. UNCHANGED ring \/ ring' = [ring EXCEPT ![rings[cur].query] = Msg("reqs", NewId("Reqs"), 0, <<>>)]
      BY <2>1 DEF get_image_requirements
    <3>2. Msg("reqs", NewId("Reqs"), 0, <<>>).kind = "reqs"
      BY DEF Msg
    <3>3. ring \in [Resources -> Messages]
      BY DEF IInv, TypeOK, SharedType
    <3> QED
      BY <2>1, <3>1, <3>2, <3>3, QueryWrite
  <2>2. CASE ~get_image_requirements
    <3>1. UNCHANGED ring
      BY <2>2 DEF ContextStep, attach, detach, initialize, SendBegin, SendIdentifier,
         SendFinish, WriteBegin, WriteEnd, WriteError, read_event_new, import_virtiofs_handle,
         socket_assign_uuid, context_create_blob, atomic_memory_sentinel_new,
         atomic_memory_sentinel_destroy, QueryFence, ChannelFence, DropBegin, DropJoin
    <3> QED
      BY <3>1
  <2> QED
    BY <2>1, <2>2
<1>4. ASSUME NEW s \in Sessions PROVE wpc'[s] = wpc[s] \/ (wpc'[s] = "idle" /\ wpc[s] = "none")
  <2>1. ASSUME NEW c \in InitCmds, initialize(c)
        PROVE  wpc'[s] = wpc[s] \/ (wpc'[s] = "idle" /\ wpc[s] = "none")
    <3>1. UNCHANGED wpc \/ wpc' = [wpc EXCEPT ![cur + 1] = "idle"]
      BY <2>1 DEF initialize, Spawn, workVars
    <3>2. cur \in Nat /\ ~(cur + 1 <= cur)
      BY FixedIds DEF IInv, TypeOK, CtxType
    <3>3. s = cur + 1 => wpc[s] = "none"
      BY <3>2 DEF IInv, SessionInv
    <3> QED
      BY <3>1, <3>3 DEF IInv, TypeOK, WorkerType
  <2>2. CASE ~\E c \in InitCmds : initialize(c)
    BY <2>2 DEF ContextStep, attach, detach, get_image_requirements, SendBegin, SendIdentifier,
         SendFinish, WriteBegin, WriteEnd, WriteError, read_event_new, import_virtiofs_handle,
         socket_assign_uuid, context_create_blob, atomic_memory_sentinel_new,
         atomic_memory_sentinel_destroy, QueryFence, ChannelFence, DropBegin, DropJoin, workVars
  <2> QED
    BY <2>1, <2>2
<1>5. ASSUME NEW s \in Sessions
      PROVE  /\ wpc'[s] # "halted" => wpc[s] # "halted" /\ (InHand(s)' <=> InHand(s))
             /\ InHand(s)' => InHand(s) /\ wreply'[s].n = wreply[s].n
             /\ wpc'[s] = "files" => wreply'[s].kind = "receive" /\ wreply'[s].src = s
  BY <1>1, <1>4 DEF InHand, CountInv, SessionCounted
<1> QED
  BY <1>1, <1>2, <1>3, <1>5, CountMove

\* One channel ring at most holds a message.
LEMMA OneFull ==
  ASSUME RingInv, NEW c \in ChannelRings, NEW d \in ChannelRings, ring[c] # NoMsg, ring[d] # NoMsg
  PROVE  c = d
<1>1. PICK f \in Fences : Waits(f) /\ fring[f] = c
  BY DEF RingInv, MessageTold
<1>2. PICK g \in Fences : Waits(g) /\ fring[g] = d
  BY DEF RingInv, MessageTold
<1> QED
  BY <1>1, <1>2 DEF RingInv, OneWaits

LEMMA NothingInNoMsg == \A k, x : ~Carries(NoMsg, k, x) /\ Quiet(NoMsg)
  BY DEF NoMsg, Msg, Carries, Quiet

\* What the guest reads of a source is the next of the source.
LEMMA CountReadSource ==
  ASSUME seen \in Seq(Messages), RingInv, NEW m \in Messages, seen' = Append(seen, m),
         NEW r, NEW k, NEW x, NEW total, NEW settled \in BOOLEAN, Counted(k, x, total, settled),
         r \in ChannelRings => m = ring[r],
         r \notin ChannelRings => ~Carries(m, k, x),
         \A c \in ChannelRings : ring'[c] = IF c = r THEN NoMsg ELSE ring[c]
  PROVE  /\ Carries(m, k, x) => m.n = Got(k, x) + 1 /\ Got(k, x)' = total
         /\ Carries(m, k, x) => Got(k, x) + 1 = total
         /\ ~Carries(m, k, x) => Got(k, x)' = Got(k, x)
         /\ \A c \in ChannelRings :
              Carries(ring'[c], k, x) => ring'[c].n = total /\ Got(k, x)' + 1 = total
         /\ settled /\ (\A c \in ChannelRings : ~Carries(ring'[c], k, x)) => Got(k, x)' = total
<1>1. /\ Got(k, x) \in Nat
      /\ ~Carries(m, k, x) => Got(k, x)' = Got(k, x)
      /\ Carries(m, k, x) => Got(k, x)' = Got(k, x) + 1
  BY OneMore
<1>2. Carries(m, k, x) => r \in ChannelRings /\ m.n = total /\ Got(k, x) + 1 = total
  BY DEF Counted
<1>3. ASSUME NEW c \in ChannelRings, Carries(ring'[c], k, x)
      PROVE  c # r /\ Carries(ring[c], k, x) /\ ring'[c] = ring[c] /\ ~Carries(m, k, x)
  <2>1. c # r /\ ring'[c] = ring[c] /\ Carries(ring[c], k, x)
    BY <1>3, NothingInNoMsg
  <2>2. ring[c] # NoMsg
    BY <2>1, NothingInNoMsg
  <2>3. r \in ChannelRings => ring[r] = NoMsg
    BY <2>1, <2>2, OneFull
  <2> QED
    BY <2>1, <2>3, NothingInNoMsg
<1>4. ASSUME NEW c \in ChannelRings, Carries(ring'[c], k, x)
      PROVE  ring'[c].n = total /\ Got(k, x)' + 1 = total
  <2>1. ring[c].n = total /\ Got(k, x) + 1 = total
    BY <1>3, <1>4 DEF Counted
  <2> QED
    BY <1>1, <1>3, <1>4, <2>1
<1>5. ASSUME settled, \A c \in ChannelRings : ~Carries(ring'[c], k, x) PROVE Got(k, x)' = total
  <2>1. CASE Carries(m, k, x)
    BY <1>1, <1>2, <2>1
  <2>2. CASE ~Carries(m, k, x)
    <3>1. ~InFlight(k, x)
      BY <1>5, <2>2 DEF InFlight
    <3> QED
      BY <1>1, <1>5, <2>2, <3>1 DEF Counted
  <2> QED
    BY <2>1, <2>2
<1> QED
  BY <1>1, <1>2, <1>4, <1>5

LEMMA CountRead == ASSUME IInv, RingInv, CountInv, NEW f \in Fences, GuestRead(f) PROVE CountInv'
<1>1. /\ UNCHANGED <<inq, csent, pread, wpc, wreply>>
      /\ IF fring[f] # 0 THEN /\ seen' = Append(seen, ring[fring[f]])
                              /\ ring' = [ring EXCEPT ![fring[f]] = NoMsg]
                         ELSE UNCHANGED <<seen, ring>>
  BY DEF GuestRead, hostSide, workVars, peerVars
<1>2. \A s \in Sessions : (Taken(s)' = Taken(s)) /\ (InHand(s)' <=> InHand(s))
  BY <1>1 DEF Taken, InHand
<1>3. CASE fring[f] = 0
  <2>1. UNCHANGED <<seen, ring>>
    BY <1>1, <1>3
  <2>2. \A s \in Sessions : wpc'[s] = "files" => wreply'[s].kind = "receive" /\ wreply'[s].src = s
    BY <1>1 DEF CountInv, SessionCounted
  <2> QED
    BY <1>1, <1>2, <2>1, <2>2, CountMove
<1>4. CASE fring[f] # 0
  <2> DEFINE r == fring[f]
             m == ring[r]
  <2>1. r \in Resources /\ ring \in [Resources -> Messages] /\ seen \in Seq(Messages)
    BY <1>4 DEF IInv, TypeOK, SharedType, GuestType
  <2>2. m \in Messages /\ seen' = Append(seen, m)
    BY <1>1, <1>4, <2>1
  <2>3. \A c \in Resources : ring'[c] = IF c = r THEN NoMsg ELSE ring[c]
    BY <1>1, <1>4, <2>1
  <2>4. \A c \in ChannelRings : ring'[c] = IF c = r THEN NoMsg ELSE ring[c]
    BY <2>3, RingNames
  <2>5. r \notin ChannelRings => \A x : ~Carries(m, "receive", x) /\ ~Carries(m, "read", x)
    BY <2>1 DEF CountInv, Carries
  <2>6. m = ring[r]
    OBVIOUS
  <2> HIDE DEF m, r
  <2>7. ASSUME NEW s \in Sessions
        PROVE  SessionCounted(s)' /\ (InOrder("receive", s) => InOrder("receive", s)')
    <3> DEFINE settled == wpc[s] # "halted" /\ ~InHand(s)
               total == Taken(s)
    <3>1. SessionCounted(s)
      BY DEF CountInv
    <3>2. settled \in BOOLEAN /\ Counted("receive", s, total, settled)
      BY <3>1 DEF SessionCounted
    <3> HIDE DEF settled, total
    <3>3. /\ Carries(m, "receive", s) => m.n = Got("receive", s) + 1 /\ Got("receive", s)' = total
          /\ ~Carries(m, "receive", s) => Got("receive", s)' = Got("receive", s)
          /\ \A c \in ChannelRings :
               Carries(ring'[c], "receive", s) => ring'[c].n = total /\ Got("receive", s)' + 1 = total
          /\ settled /\ (\A c \in ChannelRings : ~Carries(ring'[c], "receive", s)) => Got("receive", s)' = total
      BY <2>1, <2>2, <2>4, <2>5, <2>6, <3>2, CountReadSource
    <3>4. total' = total /\ (settled' <=> settled)
      BY <1>1, <1>2 DEF total, settled
    <3>5. \A c : Carries(ring[c], "receive", s)' <=> Carries(ring'[c], "receive", s)
      BY DEF Carries
    <3>6. Counted("receive", s, total, settled)'
      BY <3>3, <3>4, <3>5 DEF Counted, InFlight
    <3>7. InHand(s) => ~Carries(m, "receive", s)
      <4>1. ASSUME InHand(s), r \in ChannelRings PROVE m = NoMsg
        <5>1. wpc[s] \in Busy /\ wpc[s] \notin Signalling
          BY <4>1 DEF InHand, Busy, Signalling
        <5> QED
          BY <2>6, <4>1, <5>1, EmptyRings
      <4> QED
        BY <2>5, <4>1, NothingInNoMsg
    <3>8. SessionCounted(s)'
      BY <1>1, <1>2, <3>1, <3>3, <3>6, <3>7 DEF SessionCounted, total, settled
    <3>9. InOrder("receive", s) => InOrder("receive", s)'
      BY <2>1, <2>2, <3>3, OneMore
    <3> QED
      BY <3>8, <3>9
  <2>8. ASSUME NEW x \in Pipes PROVE PipeCounted(x)' /\ (InOrder("read", x) => InOrder("read", x)')
    <3> DEFINE settled == TRUE
               total == pread[x]
    <3>1. settled \in BOOLEAN /\ Counted("read", x, total, settled)
      BY DEF CountInv, PipeCounted
    <3> HIDE DEF settled, total
    <3>2. /\ Carries(m, "read", x) => m.n = Got("read", x) + 1 /\ Got("read", x)' = total
          /\ \A c \in ChannelRings :
               Carries(ring'[c], "read", x) => ring'[c].n = total /\ Got("read", x)' + 1 = total
          /\ settled /\ (\A c \in ChannelRings : ~Carries(ring'[c], "read", x)) => Got("read", x)' = total
      BY <2>1, <2>2, <2>4, <2>5, <2>6, <3>1, CountReadSource
    <3>3. \A c : Carries(ring[c], "read", x)' <=> Carries(ring'[c], "read", x)
      BY DEF Carries
    <3>4. PipeCounted(x)'
      BY <1>1, <3>2, <3>3 DEF PipeCounted, Counted, InFlight, settled, total
    <3>5. InOrder("read", x) => InOrder("read", x)'
      BY <2>1, <2>2, <3>2, OneMore
    <3> QED
      BY <3>4, <3>5
  <2>9. DeliveredInOrder'
    BY <2>7, <2>8 DEF CountInv, DeliveredInOrder, Pipes
  <2>10. \A c \in Resources \ ChannelRings : ring'[c].kind \in {"none", "reqs"}
    BY <2>3 DEF CountInv, NoMsg, Msg
  <2> QED
    BY <2>7, <2>8, <2>9, <2>10 DEF CountInv
<1> QED
  BY <1>3, <1>4

LEMMA CountEnvironment == ASSUME IInv, RingInv, CountInv, Environment PROVE CountInv'
<1>1. CASE ~\E f \in Fences : GuestRead(f)
  <2>1. UNCHANGED <<seen, pread, ring, wpc, wreply>>
    BY <1>1 DEF Environment, PeerSend, PeerClose, PeerPipe, PeerEvent, WatcherSignal,
                hostSide, workVars, guestVars, peerVars
  <2>2. ASSUME NEW s \in Sessions PROVE Taken(s)' = Taken(s)
    <3>1. CASE UNCHANGED <<inq, csent>>
      BY <3>1 DEF Taken
    <3>2. ASSUME NEW t \in Sessions, NEW files \in PeerFiles, PeerSend(t, files) PROVE Taken(s)' = Taken(s)
      <4>1. /\ inq' = [inq EXCEPT ![t] = Append(@, files)]
            /\ csent' = [csent EXCEPT ![t] = @ + 1]
        BY <3>2 DEF PeerSend
      <4>2. inq \in [Sessions -> Seq(Seq(FileTypes))] /\ csent \in [Sessions -> Nat] /\ files \in Seq(FileTypes)
        BY InputAssumption DEF IInv, TypeOK, PeerType
      <4>3. CASE s # t
        BY <4>1, <4>2, <4>3 DEF Taken
      <4>4. CASE s = t
        <5>1. PICK q \in Seq(Seq(FileTypes)) : q = inq[s]
          BY <4>2
        <5>2. Len(Append(q, files)) = Len(q) + 1 /\ Len(q) \in Nat
          BY <4>2
        <5>3. inq'[s] = Append(q, files) /\ csent'[s] = csent[s] + 1 /\ csent[s] \in Nat
          BY <4>1, <4>2, <4>4, <5>1
        <5> QED
          BY <5>1, <5>2, <5>3 DEF Taken
      <4> QED
        BY <4>3, <4>4
    <3>3. (\E t \in Sessions, files \in PeerFiles : PeerSend(t, files)) \/ UNCHANGED <<inq, csent>>
      BY <1>1 DEF Environment, PeerClose, PeerPipe, PeerEvent, WatcherSignal, peerVars
    <3> QED
      BY <3>1, <3>2, <3>3
  <2>3. ASSUME NEW s \in Sessions
        PROVE  /\ InHand(s)' <=> InHand(s)
               /\ wpc'[s] = "files" => wreply'[s].kind = "receive" /\ wreply'[s].src = s
    BY <2>1 DEF InHand, CountInv, SessionCounted
  <2> QED
    BY <2>1, <2>2, <2>3, CountMove
<1> QED
  BY <1>1, CountRead

\* What a step of one worker leaves alone.
LEMMA WorkerCountFrame ==
  ASSUME IInv, NEW s \in Sessions, WorkerStep(s)
  PROVE  /\ UNCHANGED <<seen, csent, rings>>
         /\ \A t \in Sessions \ {s} : wpc'[t] = wpc[t] /\ wreply'[t] = wreply[t] /\ inq'[t] = inq[t]
<1>1. UNCHANGED <<seen, csent, rings>>
  BY DEF WorkerStep, TakeJob, Poll, Receive, ReceiveFile, ReceiveReply, HandleResample, HandleKill,
         HandleSentinel, HandleSentinelShutdown, LookupItem, HandlePipe, HandleEvent, SignalFence,
         ctxSide, guestVars, peerVars
<1>2. /\ wreply' = wreply \/ (\E v : wreply' = [wreply EXCEPT ![s] = v])
                          \/ (\E v : wreply' = [wreply EXCEPT ![s].ids = v])
      /\ inq' = inq \/ \E q : inq' = [inq EXCEPT ![s] = q]
  BY DEF WorkerStep, TakeJob, Poll, Receive, ReceiveFile, ReceiveReply, HandleResample, HandleKill,
         HandleSentinel, HandleSentinelShutdown, LookupItem, HandlePipe, HandleEvent, SignalFence,
         peerVars
<1>3. \A t \in Sessions \ {s} : wreply'[t] = wreply[t] /\ inq'[t] = inq[t]
  BY <1>2 DEF IInv, TypeOK, WorkerType, PeerType
<1> QED
  BY <1>1, <1>3, WorkerElsewhere

\* The steps of a worker that give nothing of a source to a ring.
LEMMA CountQuiet ==
  ASSUME IInv, CountInv, NEW s \in Sessions, WorkerStep(s), UNCHANGED inq,
         \A x \in Pipes : pread'[x] = pread[x],
         \A c \in ChannelRings : ring'[c] = ring[c] \/ (Quiet(ring[c]) /\ Quiet(ring'[c])),
         \A r \in Resources \ ChannelRings : ring'[r] = ring[r],
         /\ wpc'[s] # "halted" => wpc[s] # "halted" /\ (InHand(s)' <=> InHand(s))
         /\ InHand(s)' => InHand(s) /\ wreply'[s].n = wreply[s].n
         /\ wpc'[s] = "files" => wreply'[s].kind = "receive" /\ wreply'[s].src = s
  PROVE  CountInv'
<1>1. /\ UNCHANGED <<seen, csent>>
      /\ \A t \in Sessions \ {s} : wpc'[t] = wpc[t] /\ wreply'[t] = wreply[t]
  BY WorkerCountFrame
<1>2. \A t \in Sessions : Taken(t)' = Taken(t)
  BY <1>1 DEF Taken
<1>3. ASSUME NEW t \in Sessions
      PROVE  /\ wpc'[t] # "halted" => wpc[t] # "halted" /\ (InHand(t)' <=> InHand(t))
             /\ InHand(t)' => InHand(t) /\ wreply'[t].n = wreply[t].n
             /\ wpc'[t] = "files" => wreply'[t].kind = "receive" /\ wreply'[t].src = t
  <2>1. CASE t # s
    BY <1>1, <2>1 DEF InHand, CountInv, SessionCounted
  <2> QED
    BY <2>1
<1> QED
  BY <1>1, <1>2, <1>3, CountMove

\* A worker with an event at hand has empty rings before it and nothing of its
\* own in flight.
LEMMA CountEmpty ==
  ASSUME IInv, RingInv, CountInv, NEW s \in Sessions, wpc[s] \in Busy, wpc[s] \notin Signalling
  PROVE  /\ \A c \in ChannelRings : ring[c] = NoMsg /\ Quiet(ring[c])
         /\ \A k, x : ~InFlight(k, x)
         /\ \A x \in Pipes : Got("read", x) = pread[x]
         /\ ~InHand(s) => Got("receive", s) = Taken(s)
<1>1. \A c \in ChannelRings : ring[c] = NoMsg
  BY EmptyRings
<1>2. \A k, x : ~InFlight(k, x)
  BY <1>1, NothingInNoMsg DEF InFlight
<1>3. \A x \in Pipes : Got("read", x) = pread[x]
  BY <1>2 DEF CountInv, PipeCounted, Counted
<1>4. ~InHand(s) => Got("receive", s) = Taken(s)
  BY <1>2 DEF CountInv, SessionCounted, Counted, Busy
<1> QED
  BY <1>1, <1>2, <1>3, <1>4, NothingInNoMsg

\* A worker puts message m, and nothing else, into its ring.
LEMMA CountPut ==
  ASSUME IInv, RingInv, CountInv, NEW s \in Sessions, WorkerStep(s), wpc[s] \in Busy, wpc[s] \notin Signalling,
         wpc'[s] \in Signalling, NEW m, UNCHANGED inq,
         ring' = [ring EXCEPT ![rings[s].channel] = m],
         \A x \in Pipes : IF Carries(m, "read", x) THEN pread'[x] = pread[x] + 1 /\ m.n = pread[x] + 1
                                                   ELSE pread'[x] = pread[x],
         \A t \in Sessions : Carries(m, "receive", t) => t = s,
         InHand(s) => Carries(m, "receive", s),
         Carries(m, "receive", s) => InHand(s) /\ m.n = wreply[s].n
  PROVE  CountInv'
<1>1. /\ UNCHANGED <<seen, csent>>
      /\ \A t \in Sessions \ {s} : wpc'[t] = wpc[t] /\ wreply'[t] = wreply[t]
  BY WorkerCountFrame
<1>2. \A k, x : SeenFrom(k, x)' = SeenFrom(k, x) /\ Got(k, x)' = Got(k, x)
  BY <1>1 DEF SeenFrom, Got
<1>3. DeliveredInOrder'
  <2>1. DeliveredInOrder
    BY DEF CountInv
  <2>2. ASSUME NEW k, NEW x, InOrder(k, x) PROVE InOrder(k, x)'
    BY <1>1, <1>2, <2>2 DEF InOrder
  <2> QED
    BY <2>1, <2>2 DEF DeliveredInOrder
<1>4. /\ rings[s].channel \in ChannelRings /\ ring \in [Resources -> Messages]
      /\ ChannelRings \subseteq Resources
  BY HeldWaits, RingNames DEF IInv, TypeOK, SharedType
<1>5. \A c \in ChannelRings : ring'[c] = IF c = rings[s].channel THEN m ELSE NoMsg
  BY <1>4, CountEmpty
<1>6. \A r \in Resources \ ChannelRings : ring'[r] = ring[r]
  BY <1>4
<1>7. ASSUME NEW k, NEW x
      PROVE  /\ \A c \in ChannelRings : Carries(ring[c], k, x)' => ring'[c] = m /\ Carries(m, k, x)
             /\ Carries(m, k, x) => InFlight(k, x)'
  <2>1. ASSUME NEW c \in ChannelRings, Carries(ring[c], k, x)' PROVE ring'[c] = m /\ Carries(m, k, x)
    BY <1>5, <2>1, NothingInNoMsg DEF Carries
  <2>2. ASSUME Carries(m, k, x) PROVE InFlight(k, x)'
    BY <1>4, <1>5, <2>2 DEF InFlight, Carries
  <2> QED
    BY <2>1, <2>2
<1>8. ASSUME NEW x \in Pipes PROVE PipeCounted(x)'
  <2>1. Got("read", x) = pread[x]
    BY CountEmpty
  <2> QED
    BY <1>2, <1>7, <2>1 DEF PipeCounted, Counted
<1>9. ASSUME NEW t \in Sessions PROVE SessionCounted(t)'
  <2>1. Taken(t)' = Taken(t) /\ SessionCounted(t) /\ ~InFlight("receive", t)
    BY <1>1, CountEmpty DEF Taken, CountInv
  <2>2. CASE t # s
    <3>1. wpc'[t] = wpc[t] /\ wreply'[t] = wreply[t] /\ (InHand(t)' <=> InHand(t)) /\ ~Carries(m, "receive", t)
      BY <1>1, <2>2 DEF InHand
    <3> QED
      BY <1>2, <1>7, <2>1, <3>1 DEF SessionCounted, Counted
  <2>3. CASE t = s
    <3>1. ~InHand(s)' /\ wpc'[s] # "files"
      BY DEF InHand, Signalling
    <3>2. CASE Carries(m, "receive", s)
      BY <1>2, <1>7, <2>1, <2>3, <3>1, <3>2 DEF SessionCounted, Counted
    <3>3. CASE ~Carries(m, "receive", s)
      BY <1>2, <1>7, <2>1, <2>3, <3>1, <3>3, CountEmpty DEF SessionCounted, Counted
    <3> QED
      BY <3>2, <3>3
  <2> QED
    BY <2>2, <2>3
<1> QED
  BY <1>3, <1>6, <1>8, <1>9 DEF CountInv

\* The worker takes the next message of its connection into its hand.
LEMMA CountReceive == ASSUME IInv, RingInv, CountInv, NEW s \in Sessions, Receive(s) PROVE CountInv'
<1>1. /\ wpc[s] = "event" /\ wpc' = [wpc EXCEPT ![s] = "files"] /\ UNCHANGED <<ring, pread>>
      /\ wpc \in [Sessions -> Busy \cup {"none", "idle", "halted", "done"}]
      /\ wreply \in [Sessions -> Messages] /\ inq \in [Sessions -> Seq(Seq(FileTypes))] /\ csent \in [Sessions -> Nat]
  BY DEF Receive, Goto, IInv, TypeOK, WorkerType, PeerType
<1>2. wpc[s] \in Busy /\ wpc[s] \notin Signalling /\ ~InHand(s) /\ wpc'[s] = "files"
  BY <1>1 DEF Busy, Signalling, InHand
<1>3. CASE inq[s] = <<>>
  <2>1. UNCHANGED inq /\ wreply'[s] = Msg("receive", s, 0, <<>>)
    BY <1>1, <1>3 DEF Receive
  <2>2. ~InHand(s)' /\ wreply'[s].kind = "receive" /\ wreply'[s].src = s
    BY <2>1 DEF InHand, Msg
  <2> QED
    BY <1>1, <1>2, <2>1, <2>2, CountQuiet DEF WorkerStep
<1>4. CASE inq[s] # <<>>
  <2>1. /\ wreply'[s] = Msg("receive", s, csent[s] - Len(inq[s]) + 1, <<>>)
        /\ inq' = [inq EXCEPT ![s] = Tail(@)]
    BY <1>1, <1>4 DEF Receive
  <2>2. /\ UNCHANGED <<seen, csent>>
        /\ \A t \in Sessions \ {s} : wpc'[t] = wpc[t] /\ wreply'[t] = wreply[t] /\ inq'[t] = inq[t]
    BY WorkerCountFrame DEF WorkerStep
  <2>3. wreply'[s].kind = "receive" /\ wreply'[s].src = s /\ wreply'[s].n = Taken(s) + 1
    BY <2>1 DEF Msg, Taken
  <2>4. Taken(s)' = Taken(s) + 1 /\ Taken(s) \in Nat
    <3>1. PICK q \in Seq(Seq(FileTypes)) : q = inq[s]
      BY <1>1
    <3>2. q # <<>> => Len(Tail(q)) = Len(q) - 1 /\ Len(q) \in Nat
      OBVIOUS
    <3>3. inq'[s] = Tail(q) /\ csent[s] \in Nat /\ Len(q) <= csent[s]
      BY <1>1, <2>1, <3>1 DEF IInv, PeerInv
    <3> QED
      BY <1>4, <2>2, <3>1, <3>2, <3>3 DEF Taken
  <2>5. \A k, x : SeenFrom(k, x)' = SeenFrom(k, x) /\ Got(k, x)' = Got(k, x)
    BY <2>2 DEF SeenFrom, Got
  <2>6. DeliveredInOrder'
    <3>1. DeliveredInOrder
      BY DEF CountInv
    <3>2. ASSUME NEW k, NEW x, InOrder(k, x) PROVE InOrder(k, x)'
      BY <2>2, <2>5, <3>2 DEF InOrder
    <3> QED
      BY <3>1, <3>2 DEF DeliveredInOrder
  <2>7. \A k, x : (InFlight(k, x)' <=> InFlight(k, x)) /\ \A c : Carries(ring[c], k, x)' <=> Carries(ring[c], k, x)
    BY <1>1 DEF InFlight, Carries
  <2>8. ASSUME NEW x \in Pipes PROVE PipeCounted(x)'
    BY <1>1, <2>5, <2>7 DEF CountInv, PipeCounted, Counted
  <2>9. ASSUME NEW t \in Sessions PROVE SessionCounted(t)'
    <3>1. CASE t # s
      <4>1. Taken(t)' = Taken(t) /\ wpc'[t] = wpc[t] /\ wreply'[t] = wreply[t] /\ (InHand(t)' <=> InHand(t))
        BY <2>2, <3>1 DEF Taken, InHand
      <4>2. SessionCounted(t)
        BY DEF CountInv
      <4> QED
        BY <1>1, <2>5, <2>7, <4>1, <4>2 DEF SessionCounted, Counted
    <3>2. CASE t = s
      <4>1. ~InFlight("receive", s) /\ Got("receive", s) = Taken(s)
        BY <1>2, CountEmpty
      <4>2. InHand(s)'
        BY <1>2, <2>3, <2>4 DEF InHand
      <4>3. \A c \in ChannelRings : ~Carries(ring[c], "receive", s)'
        BY <2>7, <4>1 DEF InFlight
      <4> QED
        BY <2>3, <2>4, <2>5, <3>2, <4>1, <4>2, <4>3 DEF SessionCounted, Counted
    <3> QED
      BY <3>1, <3>2
  <2> QED
    BY <1>1, <2>6, <2>8, <2>9 DEF CountInv
<1> QED
  BY <1>3, <1>4

LEMMA CountFile == ASSUME IInv, CountInv, NEW s \in Sessions, ReceiveFile(s) PROVE CountInv'
<1>1. /\ wpc[s] = "files" /\ UNCHANGED <<ring, pread, inq>>
      /\ UNCHANGED wpc \/ wpc' = [wpc EXCEPT ![s] = "halted"]
      /\ UNCHANGED wreply \/ \E q : wreply' = [wreply EXCEPT ![s].ids = q]
  BY DEF ReceiveFile, Halt
<1>2. /\ wpc \in [Sessions -> Busy \cup {"none", "idle", "halted", "done"}]
      /\ wreply \in [Sessions -> [kind : {"none", "receive", "read", "sentinel", "reqs"}, src : Nat, n : Nat, ids : Seq(Ids)]]
  BY DEF IInv, TypeOK, WorkerType, Messages
<1>3. wreply'[s].kind = wreply[s].kind /\ wreply'[s].src = wreply[s].src /\ wreply'[s].n = wreply[s].n
  BY <1>1, <1>2
<1>4. wreply[s].kind = "receive" /\ wreply[s].src = s
  BY <1>1 DEF CountInv, SessionCounted
<1>5. wpc'[s] \in {"files", "halted"}
  BY <1>1, <1>2
<1> QED
  BY <1>1, <1>3, <1>4, <1>5, CountQuiet DEF WorkerStep, InHand

LEMMA CountRingStep == ASSUME IInv, RingInv, KindInv, CountInv, NEW s \in Sessions, RingStep(s) PROVE CountInv'
<1>1. WorkerStep(s) /\ wpc[s] \in Busy /\ wpc[s] \notin Signalling /\ UNCHANGED inq
  BY RingStepIs DEF WorkerStep, RingStep, ReceiveReply, HandleSentinel, HandlePipe, HandleEvent, peerVars
<1>2. /\ wpc \in [Sessions -> Busy \cup {"none", "idle", "halted", "done"}] /\ ring \in [Resources -> Messages]
      /\ pread \in [Ids -> Nat] /\ wevent[s].id \in Ids
  BY DEF IInv, TypeOK, WorkerType, SharedType, PeerType
<1>3. CASE UNCHANGED <<ring, pread>> /\ wpc'[s] = "halted"
  BY <1>1, <1>3, CountQuiet DEF InHand
<1>4. CASE ReceiveReply(s) /\ ~(UNCHANGED <<ring, pread>> /\ wpc'[s] = "halted")
  <2>1. /\ ring' = [ring EXCEPT ![rings[s].channel] = wreply[s]] /\ UNCHANGED pread
        /\ wpc[s] = "files" /\ wpc'[s] \in Signalling
    BY <1>2, <1>4 DEF ReceiveReply, Goto, Halt, Signalling, peerVars
  <2>2. wreply[s].kind = "receive" /\ wreply[s].src = s
    BY <2>1 DEF CountInv, SessionCounted
  <2>3. /\ \A x \in Pipes : ~Carries(wreply[s], "read", x)
        /\ \A t \in Sessions : Carries(wreply[s], "receive", t) => t = s
        /\ InHand(s) <=> Carries(wreply[s], "receive", s)
    BY <2>1, <2>2 DEF Carries, InHand
  <2> QED
    BY <1>1, <2>1, <2>3, CountPut
<1>5. ASSUME wpc[s] # "files" PROVE ~InHand(s)
  BY <1>5 DEF InHand
<1>6. CASE HandleSentinel(s) /\ ~(UNCHANGED <<ring, pread>> /\ wpc'[s] = "halted")
  <2> DEFINE m == Msg("sentinel", wevent[s].id, 0, <<>>)
  <2>1. /\ ring' = [ring EXCEPT ![rings[s].channel] = m] /\ UNCHANGED pread
        /\ wpc[s] # "files" /\ wpc'[s] \in Signalling
    BY <1>2, <1>6 DEF HandleSentinel, Goto, Halt, Signalling, peerVars
  <2>2. \A k, x : ~Carries(m, k, x)
    BY DEF Carries, Msg
  <2> HIDE DEF m
  <2> QED
    BY <1>1, <1>5, <2>1, <2>2, CountPut
<1>7. CASE HandleEvent(s) /\ ~(UNCHANGED <<ring, pread>> /\ wpc'[s] = "halted")
  <2> DEFINE m == Msg("read", wevent[s].id, evt[wevent[s].id], <<>>)
  <2>1. /\ ring' = [ring EXCEPT ![rings[s].channel] = m] /\ UNCHANGED pread
        /\ wpc[s] # "files" /\ wpc'[s] \in Signalling /\ items[wevent[s].id] = "Event"
    BY <1>2, <1>7 DEF HandleEvent, Goto, Halt, Signalling
  <2>2. wevent[s].id < PipeReadStart
    BY <1>2, <2>1 DEF KindInv, KindOk
  <2>3. wevent[s].id \notin Pipes
    BY <1>2, <2>2, IdAssumption DEF Pipes, Ids
  <2>4. m.kind = "read" /\ m.src = wevent[s].id
    BY DEF Msg
  <2>5. (\A x \in Pipes : ~Carries(m, "read", x)) /\ (\A t : ~Carries(m, "receive", t))
    BY <2>3, <2>4 DEF Carries
  <2> HIDE DEF m
  <2> QED
    BY <1>1, <1>5, <2>1, <2>5, CountPut
<1>8. CASE HandlePipe(s) /\ ~(UNCHANGED <<ring, pread>> /\ wpc'[s] = "halted")
  <2> DEFINE n == ReadNumber(s)
             m == Msg("read", wevent[s].id, n, <<>>)
  <2>1. /\ ring' = [ring EXCEPT ![rings[s].channel] = m]
        /\ pread' = IF n = 0 THEN pread ELSE [pread EXCEPT ![wevent[s].id] = n]
        /\ wpc[s] # "files" /\ wpc'[s] \in Signalling
    BY <1>2, <1>8 DEF HandlePipe, Goto, Halt, Signalling
  <2>2. m.kind = "read" /\ m.src = wevent[s].id /\ m.n = n
    BY DEF Msg
  <2>3. n = 0 \/ n = pread[wevent[s].id] + 1
    BY DEF ReadNumber
  <2> HIDE DEF m, n
  <2>4. ASSUME NEW x \in Pipes
        PROVE  IF Carries(m, "read", x) THEN pread'[x] = pread[x] + 1 /\ m.n = pread[x] + 1
                                        ELSE pread'[x] = pread[x]
    <3>1. x \in Ids
      BY IdAssumption DEF Pipes, Ids
    <3> QED
      BY <1>2, <2>1, <2>2, <2>3, <3>1 DEF Carries
  <2>5. \A t : ~Carries(m, "receive", t)
    BY <2>2 DEF Carries
  <2> QED
    BY <1>1, <1>5, <2>1, <2>4, <2>5, CountPut
<1> QED
  BY <1>3, <1>4, <1>6, <1>7, <1>8 DEF RingStep

LEMMA CountWorker ==
  ASSUME IInv, RingInv, KindInv, CountInv, NEW s \in Sessions, WorkerStep(s) PROVE CountInv'
<1>1. CASE ~Receive(s) /\ ~ReceiveFile(s) /\ ~RingStep(s)
  <2>1. UNCHANGED <<ring, pread, inq, wreply>>
    BY <1>1 DEF WorkerStep, RingStep, TakeJob, Poll, HandleResample, HandleKill,
         HandleSentinelShutdown, LookupItem, SignalFence, peerVars
  <2>2. wpc[s] \notin {"files", "halted"} /\ wpc'[s] # "files"
    BY <1>1 DEF WorkerStep, RingStep, TakeJob, AddDescriptor, Poll, HandleResample, HandleKill,
         HandleSentinelShutdown, LookupItem, SignalFence, Goto, Halt, IInv, TypeOK, WorkerType
  <2> QED
    BY <2>1, <2>2, CountQuiet DEF InHand
<1> QED
  BY <1>1, CountReceive, CountFile, CountRingStep

LEMMA CountNext ==
  ASSUME GuestDiscipline PROVE IInv /\ RingInv /\ KindInv /\ CountInv /\ [Next]_vars => CountInv'
<1>1. ASSUME CountInv, UNCHANGED vars PROVE CountInv'
  <2>1. UNCHANGED <<seen, inq, csent, pread, wreply, wpc, ring>>
    BY <1>1 DEF vars, peerVars, guestVars, workVars
  <2>2. \A s \in Sessions : Taken(s)' = Taken(s) /\ (InHand(s)' <=> InHand(s))
    BY <2>1 DEF Taken, InHand
  <2>3. \A s \in Sessions : wpc'[s] = "files" => wreply'[s].kind = "receive" /\ wreply'[s].src = s
    BY <1>1, <2>1 DEF CountInv, SessionCounted
  <2> QED
    BY <1>1, <2>1, <2>2, <2>3, CountMove
<1> QED
  BY <1>1, CountContext, CountWorker, CountEnvironment DEF Next

LEMMA CountInit == Init => CountInv
<1> SUFFICES ASSUME Init PROVE CountInv
  OBVIOUS
<1>1. \A c \in Resources : ring[c] = NoMsg
  BY DEF Init
<1>2. \A k, x : SeenFrom(k, x) = {}
  BY DEF Init, SeenFrom
<1>3. \A k, x : Got(k, x) = 0
  BY <1>2, FS_EmptySet DEF Got
<1>4. \A k, x : InOrder(k, x)
  BY <1>2 DEF InOrder
<1>5. \A k, x : \A c \in ChannelRings : ~Carries(ring[c], k, x)
  BY <1>1, RingNames, NothingInNoMsg
<1>6. ASSUME NEW s \in Sessions PROVE SessionCounted(s)
  <2>1. Taken(s) = 0 /\ ~InHand(s) /\ wpc[s] = "none"
    BY DEF Init, Taken, InHand
  <2> QED
    BY <1>3, <1>5, <2>1 DEF SessionCounted, Counted
<1>7. ASSUME NEW x \in Pipes PROVE PipeCounted(x)
  <2>1. pread[x] = 0
    BY IdAssumption DEF Init, Pipes, Ids
  <2> QED
    BY <1>3, <1>5, <2>1 DEF PipeCounted, Counted
<1> QED
  BY <1>1, <1>4, <1>6, <1>7 DEF CountInv, DeliveredInOrder, NoMsg, Msg

LEMMA CountAlways == ASSUME GuestDiscipline PROVE Spec => []CountInv
<1>1. IInv /\ RingInv /\ KindInv /\ CountInv /\ [Next]_vars => CountInv'
  BY CountNext
<1>2. Spec => []RingInv
  BY RingInvAlways
<1> QED
  BY <1>1, <1>2, CountInit, Invariance, KindAlways, PTL DEF Spec

\* The guest reads the messages of every connection, and the data of every
\* pipe, in the order they were sent, with nothing left out and nothing twice,
\* whatever the workers, requeued fences and errors between (process_receive,
\* WriteFromPipe in worker.rs), if it waits for one channel fence at a time and
\* has separate rings.
THEOREM AlwaysInOrder == ASSUME GuestDiscipline PROVE Spec => []DeliveredInOrder
<1>1. CountInv => DeliveredInOrder
  BY DEF CountInv
<1>2. Spec => []CountInv
  BY CountAlways
<1> QED
  BY <1>1, <1>2, PTL

-----------------------------------------------------------------------------
(* Hang-ups                                                                *)

\* No sentinel of the guest has an id of the range of the read pipes.
SentinelsApart == \A id \in SentIds : id < PipeReadStart

NewPipes == {x \in Ids : PipeReadStart < x}

\* What epoll has reported of a pipe holds until it is handled: there is data,
\* or the writers are gone and everything was read.
EventOk(e) ==
    IF e.readable THEN pread[e.id] < pwrote[e.id]
                  ELSE pw[e.id] = "closed" /\ pread[e.id] = pwrote[e.id]
Reported(s) == wpc[s] \in {"event", "item"} /\ wevent[s].id \in NewPipes
PipeInv ==
    /\ \A x \in Ids : pread[x] <= pwrote[x]
    /\ \A x \in Ids : read_pipe_id < x => pw[x] = "none" /\ pwrote[x] = 0
    /\ send.pipe # 0 => pw[send.pipe] = "host"
    /\ \A s \in Sessions : Reported(s) => EventOk(wevent[s])

LEMMA PipeReported ==
  ASSUME SentinelsApart, IInv, KindInv, PipeInv, NEW s \in Sessions, NEW e \in Ready(s), e.id \in NewPipes
  PROVE  EventOk(e)
<1>1. /\ {SentinelStart, PipeReadStart} \subseteq Nat /\ 2 <= SentinelStart /\ SentinelStart < PipeReadStart
      /\ e.id \in Nat /\ PipeReadStart < e.id
  BY IdAssumption DEF NewPipes, Ids
<1>2. CASE e \in {Ev(ChannelId, TRUE, closed[s]) : x \in {y \in {0} : inq[s] # <<>> \/ closed[s]}}
  BY <1>1, <1>2 DEF Ev, ChannelId
<1>3. CASE e \in {Ev(ResampleId, TRUE, FALSE) : x \in {y \in {0} : resample[s]}}
  BY <1>1, <1>3 DEF Ev, ResampleId
<1>4. CASE e \in {Ev(KillId, TRUE, FALSE) : x \in {y \in {0} : kill[s]}}
  BY <1>1, <1>4 DEF Ev, KillId
<1>5. CASE e \in {Ev(id, pwrote[id] > pread[id], pw[id] = "closed") :
             id \in {i \in Ids : /\ <<i, "item">> \in reg[s]
                                 /\ pwrote[i] > pread[i] \/ pw[i] = "closed"}}
  <2>1. PICK id \in Ids : /\ pwrote[id] > pread[id] \/ pw[id] = "closed"
                          /\ e = Ev(id, pwrote[id] > pread[id], pw[id] = "closed")
    BY <1>5
  <2>2. e.id = id /\ (e.readable <=> pwrote[id] > pread[id])
    BY <2>1 DEF Ev
  <2>3. pread[id] \in Nat /\ pwrote[id] \in Nat /\ pread[id] <= pwrote[id]
    BY DEF IInv, TypeOK, PeerType, PipeInv
  <2> QED
    BY <2>1, <2>2, <2>3 DEF EventOk
<1>6. CASE e \in {Ev(id, TRUE, FALSE) : id \in {i \in evtOpen : <<i, "item">> \in reg[s] /\ evt[i] > 0}}
  <2>1. PICK id \in evtOpen : e = Ev(id, TRUE, FALSE)
    BY <1>6
  <2>2. e.id = id
    BY <2>1 DEF Ev
  <2> QED
    BY <1>1, <2>2 DEF KindInv
<1>7. CASE e \in {Ev(id, TRUE, FALSE) : id \in {i \in SentIds : <<i, "job">> \in reg[s] /\ sevt[i]}}
  <2>1. PICK id \in SentIds : e = Ev(id, TRUE, FALSE)
    BY <1>7
  <2>2. e.id = id
    BY <2>1 DEF Ev
  <2> QED
    BY <1>1, <2>2 DEF SentinelsApart
<1> QED
  BY <1>2, <1>3, <1>4, <1>5, <1>6, <1>7 DEF Ready

\* A step that reads and writes no pipe, reopens none, and makes at most new ones.
LEMMA PipeMove ==
  ASSUME IInv, PipeInv, UNCHANGED <<pread, pwrote>>,
         read_pipe_id' \in Nat, read_pipe_id <= read_pipe_id',
         \A x \in Ids : /\ pw[x] = "closed" => pw'[x] = "closed"
                        /\ read_pipe_id' < x => pw'[x] = pw[x],
         send'.pipe # 0 => pw'[send'.pipe] = "host",
         \A s \in Sessions : wpc'[s] \in {"event", "item"} =>
            wpc[s] \in {"event", "item"} /\ wevent'[s] = wevent[s]
  PROVE  PipeInv'
<1>1. \A x \in Ids : x \in Nat /\ read_pipe_id \in Nat /\ (read_pipe_id' < x => read_pipe_id < x)
  BY IdAssumption DEF IInv, TypeOK, SharedType, Ids
<1>2. \A x \in Ids : read_pipe_id' < x => pw'[x] = "none" /\ pwrote'[x] = 0
  BY <1>1 DEF PipeInv
<1>3. ASSUME NEW s \in Sessions, Reported(s)' PROVE EventOk(wevent[s])'
  <2>1. Reported(s) /\ EventOk(wevent[s]) /\ wevent'[s] = wevent[s] /\ wevent[s].id \in Ids
    BY <1>3 DEF Reported, PipeInv, NewPipes
  <2> QED
    BY <2>1 DEF EventOk
<1> QED
  BY <1>2, <1>3 DEF PipeInv

LEMMA PipeSame ==
  ASSUME IInv, PipeInv, UNCHANGED <<pread, pwrote, pw, read_pipe_id, send>>,
         \A s \in Sessions : wpc'[s] \in {"event", "item"} =>
            wpc[s] \in {"event", "item"} /\ wevent'[s] = wevent[s]
  PROVE  PipeInv'
<1>1. read_pipe_id \in Nat /\ read_pipe_id <= read_pipe_id /\ (send.pipe # 0 => pw[send.pipe] = "host")
  BY IdAssumption DEF IInv, TypeOK, SharedType, Ids, PipeInv
<1> QED
  BY <1>1, PipeMove

\* send(): a new pipe is the host's, then the peer's; an error closes it.
LEMMA PipeSend ==
  ASSUME IInv, IdInv, PipeInv, SendIdentifier \/ SendFinish
  PROVE  PipeInv' /\ \A x \in Ids : pw[x] = "closed" => pw'[x] = "closed"
<1>1. /\ UNCHANGED <<pread, pwrote, wpc, wevent>>
  BY DEF SendIdentifier, SendFinish, workVars
<1>2. /\ read_pipe_id \in Nat /\ TypeOK /\ pw \in [Ids -> {"none", "host", "peer", "closed"}]
      /\ send.pipe \in Ids /\ \A x \in Ids : x \in Nat
  <2>1. TypeOK
    BY DEF IInv
  <2>2. \A x \in Ids : x \in Nat
    BY IdAssumption DEF Ids
  <2> QED
    BY <2>1, <2>2 DEF TypeOK, SharedType, CtxType, PeerType
<1>3. CASE UNCHANGED read_pipe_id
  <2>1. \/ send'.pipe = send.pipe /\ UNCHANGED pw
        \/ send'.pipe = 0 /\ pw' = [id \in Ids |-> IF id \in {send.pipe} \ {0} THEN "closed" ELSE pw[id]]
        \/ send'.pipe = 0 /\ send.pipe # 0 /\ pw' = [pw EXCEPT ![send.pipe] = "peer"]
        \/ send'.pipe = 0 /\ UNCHANGED pw
    <3>1. CASE SendFinish
      BY <3>1 DEF SendFinish, SendError
    <3>2. CASE SendIdentifier
      <4>1. ~add_item("ReadPipe")
        <5>1. ASSUME add_item("ReadPipe") PROVE FALSE
          <6>1. read_pipe_id' = read_pipe_id + 1
            BY <1>2, <5>1, PipeId
          <6> QED
            BY <1>2, <1>3, <6>1
        <5> QED
          BY <5>1
      <4> QED
        BY <3>2, <4>1 DEF SendIdentifier, SendBlob, SendReadPipe, SendFsBlob, SendNext, SendError
    <3> QED
      BY <3>1, <3>2
  <2>2. send.pipe # 0 => pw[send.pipe] = "host" /\ ~(read_pipe_id < send.pipe)
    BY <1>2 DEF PipeInv
  <2>3. \A x \in Ids : /\ pw[x] = "closed" => pw'[x] = "closed"
                       /\ read_pipe_id < x => pw'[x] = pw[x]
    BY <1>2, <2>1, <2>2
  <2>4. send'.pipe # 0 => pw'[send'.pipe] = "host"
    BY <2>1, <2>2
  <2>5. read_pipe_id <= read_pipe_id
    BY <1>2
  <2> QED
    BY <1>1, <1>2, <1>3, <2>3, <2>4, <2>5, PipeMove
<1>4. CASE ~UNCHANGED read_pipe_id
  <2>1. add_item("ReadPipe") /\ send.pipe = 0 /\
        \/ pw' = [pw EXCEPT ![NewId("ReadPipe")] = "host"] /\ send'.pipe = NewId("ReadPipe")
        \/ /\ pw' = [id \in Ids |-> IF id \in {NewId("ReadPipe")} \ {0} THEN "closed" ELSE pw[id]]
           /\ send'.pipe = 0
    BY <1>4 DEF SendIdentifier, SendFinish, SendBlob, SendReadPipe, SendFsBlob, SendNext, SendError,
                DropItem, itemVars
  <2>2. NewId("ReadPipe") = read_pipe_id + 1 /\ read_pipe_id' = read_pipe_id + 1
    BY <1>2, <2>1, PipeId
  <2>3. NewId("ReadPipe") \in Ids
    BY <1>2, NewIdIsId DEF TypeOK, SharedType
  <2>4. pw[NewId("ReadPipe")] = "none"
    BY <1>2, <2>2, <2>3 DEF PipeInv
  <2>5. \A x \in Ids : /\ pw[x] = "closed" => pw'[x] = "closed"
                       /\ read_pipe_id' < x => pw'[x] = pw[x]
    BY <1>2, <2>1, <2>2, <2>3, <2>4
  <2>6. send'.pipe # 0 => pw'[send'.pipe] = "host"
    BY <1>2, <2>1, <2>3
  <2>7. read_pipe_id' \in Nat /\ read_pipe_id <= read_pipe_id'
    BY <1>2, <2>2
  <2> QED
    BY <1>1, <2>5, <2>6, <2>7, PipeMove
<1> QED
  BY <1>3, <1>4

LEMMA PipeContext ==
  ASSUME IInv, IdInv, PipeInv, ContextStep
  PROVE  PipeInv' /\ UNCHANGED <<pread, pwrote>> /\ \A x \in Ids : pw[x] = "closed" => pw'[x] = "closed"
<1>1. UNCHANGED <<pread, pwrote, wevent>>
  BY DEF ContextStep, attach, detach, initialize, Spawn, get_image_requirements, SendBegin, SendIdentifier,
         SendFinish, WriteBegin, WriteEnd, WriteError, read_event_new, import_virtiofs_handle,
         socket_assign_uuid, context_create_blob, atomic_memory_sentinel_new,
         atomic_memory_sentinel_destroy, QueryFence, ChannelFence, DropBegin, DropJoin, peerVars, workVars
<1>2. CASE ~SendIdentifier /\ ~SendFinish
  <2>1. UNCHANGED <<pw, read_pipe_id>>
    BY <1>2 DEF ContextStep, attach, detach, initialize, get_image_requirements, SendBegin, WriteBegin,
         WriteEnd, WriteError, read_event_new, import_virtiofs_handle, socket_assign_uuid,
         context_create_blob, atomic_memory_sentinel_new, atomic_memory_sentinel_destroy, QueryFence,
         ChannelFence, DropBegin, DropJoin, DropItem, add_item, peerVars, itemVars
  <2>2. send'.pipe = 0 \/ UNCHANGED send
    <3>1. ASSUME NEW cmd, SendBegin(cmd) PROVE send'.pipe = 0
      BY <3>1 DEF SendBegin
    <3>2. CASE ~\E cmd \in SendCmds : SendBegin(cmd)
      BY <1>2, <3>2 DEF ContextStep, attach, detach, initialize, get_image_requirements, WriteBegin,
           WriteEnd, WriteError, read_event_new, import_virtiofs_handle, socket_assign_uuid,
           context_create_blob, atomic_memory_sentinel_new, atomic_memory_sentinel_destroy, QueryFence,
           ChannelFence, DropBegin, DropJoin, ctxVars
    <3> QED
      BY <3>1, <3>2
  <2>3. UNCHANGED wpc \/ \E c \in InitCmds : initialize(c)
    BY <1>2 DEF ContextStep, attach, detach, get_image_requirements, SendBegin, WriteBegin,
         WriteEnd, WriteError, read_event_new, import_virtiofs_handle, socket_assign_uuid,
         context_create_blob, atomic_memory_sentinel_new, atomic_memory_sentinel_destroy, QueryFence,
         ChannelFence, DropBegin, DropJoin, workVars
  <2>4. UNCHANGED wpc \/ wpc' = [wpc EXCEPT ![cur + 1] = "idle"]
    BY <2>3 DEF initialize, Spawn, workVars
  <2>5. \A s \in Sessions : wpc'[s] \in {"event", "item"} => wpc[s] \in {"event", "item"}
    BY <2>4 DEF IInv, TypeOK, WorkerType
  <2>6. read_pipe_id \in Nat /\ read_pipe_id <= read_pipe_id
    BY IdAssumption DEF IInv, TypeOK, SharedType, Ids
  <2>7. send'.pipe # 0 => pw'[send'.pipe] = "host"
    BY <2>1, <2>2 DEF PipeInv
  <2> QED
    BY <1>1, <2>1, <2>5, <2>6, <2>7, PipeMove
<1> QED
  BY <1>1, <1>2, PipeSend

\* Everything of a pipe that nobody writes to was read.
Ended(x) == x \in Pipes /\ pw[x] = "closed" /\ pread[x] = pwrote[x]
EndedKept == \A x : Ended(x) => Ended(x)' /\ pwrote'[x] = pwrote[x]

LEMMA EndedSame ==
  ASSUME UNCHANGED <<pread, pwrote>>, \A x \in Ids : pw[x] = "closed" => pw'[x] = "closed"
  PROVE  EndedKept
<1>1. Pipes \subseteq Ids
  BY IdAssumption DEF Pipes, Ids
<1> QED
  BY <1>1 DEF EndedKept, Ended

LEMMA PipePeer == ASSUME IInv, PipeInv, NEW id \in Ids, PeerPipe(id) PROVE PipeInv' /\ EndedKept
<1>1. /\ pw[id] = "peer" /\ UNCHANGED <<pread, read_pipe_id, send, wpc, wevent>>
      /\ \/ pwrote' = [pwrote EXCEPT ![id] = @ + 1] /\ UNCHANGED pw
         \/ pw' = [pw EXCEPT ![id] = "closed"] /\ UNCHANGED pwrote
  BY DEF PeerPipe, hostSide, ctxVars, itemVars, workVars
<1>2. /\ pw \in [Ids -> {"none", "host", "peer", "closed"}] /\ pwrote \in [Ids -> Nat] /\ pread \in [Ids -> Nat]
      /\ send.pipe \in Ids /\ \A s \in Sessions : wevent[s].id \in Ids
  BY DEF IInv, TypeOK, PeerType, CtxType, WorkerType
<1>3. ASSUME NEW x \in Ids
      PROVE  /\ pwrote[x] <= pwrote'[x] /\ (x # id => pwrote'[x] = pwrote[x] /\ pw'[x] = pw[x])
             /\ pw[x] = "closed" => pw'[x] = "closed" /\ pwrote'[x] = pwrote[x]
  BY <1>1, <1>2
<1>4. ASSUME NEW x \in Ids PROVE pread'[x] <= pwrote'[x]
  <2>1. pread[x] <= pwrote[x] /\ pread'[x] = pread[x] /\ pwrote[x] <= pwrote'[x]
    BY <1>1, <1>3 DEF PipeInv
  <2>2. pread[x] \in Nat /\ pwrote[x] \in Nat /\ pwrote'[x] \in Nat
    BY <1>1, <1>2
  <2> QED
    BY <2>1, <2>2
<1>5. ASSUME NEW x \in Ids, read_pipe_id' < x PROVE pw'[x] = "none" /\ pwrote'[x] = 0
  <2>1. pw[x] = "none" /\ pwrote[x] = 0
    BY <1>1, <1>5 DEF PipeInv
  <2> QED
    BY <1>1, <1>3, <2>1
<1>6. send'.pipe # 0 => pw'[send'.pipe] = "host"
  BY <1>1, <1>2, <1>3 DEF PipeInv
<1>7. ASSUME NEW s \in Sessions, Reported(s)' PROVE EventOk(wevent[s])'
  <2>1. EventOk(wevent[s]) /\ wevent'[s] = wevent[s] /\ wevent[s].id \in Ids
    BY <1>1, <1>2, <1>7 DEF Reported, PipeInv
  <2>2. /\ pread[wevent[s].id] \in Nat /\ pwrote[wevent[s].id] \in Nat /\ pwrote'[wevent[s].id] \in Nat
        /\ pwrote[wevent[s].id] <= pwrote'[wevent[s].id]
    BY <1>1, <1>2, <1>3
  <2>3. CASE wevent[s].readable
    <3>1. pread[wevent[s].id] < pwrote'[wevent[s].id]
      BY <2>1, <2>2, <2>3 DEF EventOk
    <3> QED
      BY <1>1, <2>1, <2>3, <3>1 DEF EventOk
  <2>4. CASE ~wevent[s].readable
    BY <1>1, <1>3, <2>1, <2>4 DEF EventOk
  <2> QED
    BY <2>3, <2>4
<1>8. EndedKept
  <2>1. Pipes \subseteq Ids
    BY IdAssumption DEF Pipes, Ids
  <2> QED
    BY <1>1, <1>3, <2>1 DEF EndedKept, Ended
<1> QED
  BY <1>4, <1>5, <1>6, <1>7, <1>8 DEF PipeInv

\* One worker reads a pipe at a time, when there is something to read.
LEMMA PipeRead ==
  ASSUME IInv, RingInv, KindInv, PipeInv, NEW s \in Sessions, HandlePipe(s) PROVE PipeInv' /\ EndedKept
<1> DEFINE id == wevent[s].id
<1>1. /\ wpc[s] = "item" /\ items[id] = "ReadPipe" /\ UNCHANGED <<pwrote, pw, send, wevent>>
      /\ pread' = pread \/ (wevent[s].readable /\ pread' = [pread EXCEPT ![id] = pread[id] + 1])
      /\ \E pc : pc \notin {"event", "item"} /\ wpc' = [wpc EXCEPT ![s] = pc]
      /\ UNCHANGED read_pipe_id
  BY DEF HandlePipe, ReadNumber, Goto, Halt, DropItem, itemVars, ctxSide, ctxVars
<1>2. /\ pwrote \in [Ids -> Nat] /\ pread \in [Ids -> Nat] /\ id \in Ids /\ read_pipe_id \in Nat
      /\ wpc \in [Sessions -> Busy \cup {"none", "idle", "halted", "done"}]
  <2>1. \A x \in Ids : x \in Nat
    BY IdAssumption DEF Ids
  <2> QED
    BY <2>1 DEF IInv, TypeOK, PeerType, WorkerType, SharedType
<1>3. id \in NewPipes /\ EventOk(wevent[s])
  BY <1>1, <1>2 DEF KindInv, KindOk, NewPipes, PipeInv, Reported
<1>4. ASSUME NEW t \in Sessions PROVE wpc'[t] \notin {"event", "item"}
  <2>1. CASE t = s
    BY <1>1, <1>2, <2>1
  <2>2. CASE t # s
    <3>1. wpc'[t] = wpc[t]
      BY <1>1, <1>2, <2>2
    <3>2. wpc[t] \notin Busy
      BY <1>1, <2>2, OneBusy DEF Busy
    <3> QED
      BY <3>1, <3>2 DEF Busy
  <2> QED
    BY <2>1, <2>2
<1>5. CASE UNCHANGED pread
  BY <1>1, <1>4, <1>5, PipeSame, EndedSame
<1>6. CASE wevent[s].readable /\ pread' = [pread EXCEPT ![id] = pread[id] + 1]
  <2>1. pread[id] < pwrote[id]
    BY <1>3, <1>6 DEF EventOk
  <2>2. ASSUME NEW x \in Ids PROVE pread'[x] <= pwrote'[x]
    <3>1. pread[x] <= pwrote[x] /\ pread[x] \in Nat /\ pwrote[x] \in Nat
      BY <1>2 DEF PipeInv
    <3>2. CASE x = id
      BY <1>1, <1>2, <1>6, <2>1, <3>1, <3>2
    <3>3. CASE x # id
      BY <1>1, <1>2, <1>6, <3>1, <3>3
    <3> QED
      BY <3>2, <3>3
  <2>3. \A t \in Sessions : ~Reported(t)'
    BY <1>4 DEF Reported
  <2>4. PipeInv'
    BY <1>1, <2>2, <2>3 DEF PipeInv
  <2>5. EndedKept
    <3> SUFFICES ASSUME NEW x, Ended(x) PROVE Ended(x)' /\ pwrote'[x] = pwrote[x]
      BY DEF EndedKept
    <3>1. pread[id] # pwrote[id]
      BY <1>2, <2>1
    <3>2. x # id
      BY <3>1 DEF Ended
    <3>3. pread'[x] = pread[x]
      BY <1>2, <1>6, <3>2, IdAssumption DEF Ended, Pipes, Ids
    <3> QED
      BY <1>1, <3>3 DEF Ended
  <2> QED
    BY <2>4, <2>5
<1> QED
  BY <1>1, <1>5, <1>6

LEMMA PipeWorker ==
  ASSUME SentinelsApart, IInv, RingInv, KindInv, PipeInv, IdInv, NEW s \in Sessions, WorkerStep(s)
  PROVE  PipeInv' /\ EndedKept
<1>1. CASE ~HandlePipe(s)
  <2>1. UNCHANGED <<pread, pwrote, pw, send>>
    BY <1>1 DEF WorkerStep, TakeJob, Poll, Receive, ReceiveFile, ReceiveReply, HandleResample, HandleKill,
         HandleSentinel, HandleSentinelShutdown, LookupItem, HandleEvent, SignalFence, peerVars,
         ctxSide, ctxVars
  <2>2. UNCHANGED read_pipe_id
    <3>1. CASE ReceiveFile(s)
      <4>1. wfiles[s] \in Seq(FileTypes) /\ wfiles[s] # <<>>
        BY <3>1 DEF ReceiveFile, IInv, TypeOK, WorkerType
      <4>2. Head(wfiles[s]) \in FileTypes
        BY <4>1
      <4>3. Head(wfiles[s]) # "ReadPipe"
        BY <4>2 DEF FileTypes
      <4> QED
        BY <3>1, <4>3 DEF ReceiveFile, add_item, itemVars
    <3>2. CASE ~ReceiveFile(s)
      BY <1>1, <3>2 DEF WorkerStep, TakeJob, Poll, Receive, ReceiveReply, HandleResample, HandleKill,
         HandleSentinel, HandleSentinelShutdown, LookupItem, HandleEvent, SignalFence, itemVars
    <3> QED
      BY <3>1, <3>2
  <2>3. EndedKept
    BY <2>1, EndedSame
  <2>4. /\ wpc \in [Sessions -> Busy \cup {"none", "idle", "halted", "done"}]
        /\ wevent \in [Sessions -> [id : Ids, readable : BOOLEAN, hung_up : BOOLEAN]]
    BY DEF IInv, TypeOK, WorkerType
  <2>5. CASE Poll(s)
    <3>1. PICK e \in Ready(s) : wevent' = [wevent EXCEPT ![s] = e]
      BY <2>5 DEF Poll
    <3>2. wpc' = [wpc EXCEPT ![s] = "event"]
      BY <2>5 DEF Poll, Goto
    <3>3. ASSUME NEW t \in Sessions, Reported(t)' PROVE EventOk(wevent[t])'
      <4>1. CASE t = s
        <5>1. wevent'[t] = e /\ e.id \in NewPipes
          BY <2>4, <3>1, <3>3, <4>1 DEF Reported, NewPipes
        <5>2. EventOk(e)
          BY <5>1, PipeReported
        <5> QED
          BY <2>1, <5>1, <5>2 DEF EventOk
      <4>2. CASE t # s
        <5>1. wevent'[t] = wevent[t] /\ wpc'[t] = wpc[t]
          BY <2>4, <3>1, <3>2, <4>2
        <5>2. EventOk(wevent[t])
          BY <3>3, <5>1 DEF Reported, NewPipes, PipeInv
        <5> QED
          BY <2>1, <5>1, <5>2 DEF EventOk
      <4> QED
        BY <4>1, <4>2
    <3>4. PipeInv'
      BY <2>1, <2>2, <3>3 DEF PipeInv
    <3> QED
      BY <2>3, <3>4
  <2>6. CASE ~Poll(s)
    <3>1. UNCHANGED wevent
      BY <1>1, <2>6 DEF WorkerStep, TakeJob, Receive, ReceiveFile, ReceiveReply, HandleResample, HandleKill,
         HandleSentinel, HandleSentinelShutdown, LookupItem, HandleEvent, SignalFence
    <3>2. \/ UNCHANGED wpc
          \/ \E pc : pc \notin {"event", "item"} /\ wpc' = [wpc EXCEPT ![s] = pc]
          \/ wpc[s] = "event" /\ wpc' = [wpc EXCEPT ![s] = "item"]
      BY <1>1, <2>6 DEF WorkerStep, TakeJob, AddDescriptor, Receive, ReceiveFile, ReceiveReply, HandleResample,
         HandleKill, HandleSentinel, HandleSentinelShutdown, LookupItem, HandleEvent,
         SignalFence, Goto, Halt
    <3>3. \A t \in Sessions : wpc'[t] \in {"event", "item"} => wpc[t] \in {"event", "item"}
      BY <2>4, <3>2
    <3> QED
      BY <2>1, <2>2, <2>3, <3>1, <3>3, PipeSame
  <2> QED
    BY <2>5, <2>6
<1> QED
  BY <1>1, PipeRead

LEMMA PipeNext ==
  ASSUME SentinelsApart, IInv, RingInv, KindInv, PipeInv, IdInv, [Next]_vars PROVE PipeInv' /\ EndedKept
<1>1. CASE ContextStep
  BY <1>1, PipeContext, EndedSame
<1>2. CASE (Environment /\ ~\E id \in Ids : PeerPipe(id)) \/ UNCHANGED vars
  <2>1. UNCHANGED <<pread, pwrote, pw, read_pipe_id, send, wpc, wevent>>
    BY <1>2 DEF Environment, GuestRead, PeerSend, PeerClose, PeerEvent, WatcherSignal,
                hostSide, vars, workVars, peerVars, ctxVars, itemVars
  <2> QED
    BY <2>1, PipeSame, EndedSame
<1> QED
  BY <1>1, <1>2, PipeWorker, PipePeer DEF Next, Environment

\* A hang-up that is in a ring, or that the guest has read, is of a pipe that
\* has ended; once the guest has read it, it has read all of the pipe.
HangUp(m) == m.kind = "read" /\ m.n = 0
HangInv ==
    /\ \A c \in ChannelRings : HangUp(ring[c]) => Ended(ring[c].src)
    /\ \A i \in 1 .. Len(seen) : HangUp(seen[i]) =>
          Ended(seen[i].src) /\ Got("read", seen[i].src) = pwrote[seen[i].src]

LEMMA HangMove ==
  ASSUME HangInv, EndedKept, UNCHANGED seen,
         \A c \in ChannelRings : ring'[c] = ring[c] \/ (HangUp(ring[c])' => Ended(ring[c].src)')
  PROVE  HangInv'
<1>1. \A x : Got("read", x)' = Got("read", x)
  BY DEF Got, SeenFrom
<1>2. ASSUME NEW c \in ChannelRings, HangUp(ring[c])' PROVE Ended(ring[c].src)'
  <2>1. CASE ring'[c] = ring[c]
    <3>1. Ended(ring[c].src)
      BY <1>2, <2>1 DEF HangInv, HangUp
    <3>2. \A x : Ended(x) => Ended(x)'
      BY DEF EndedKept
    <3> QED
      BY <2>1, <3>1, <3>2 DEF Ended
  <2> QED
    BY <1>2, <2>1
<1>3. ASSUME NEW i \in 1 .. Len(seen), HangUp(seen[i])
      PROVE  Ended(seen[i].src)' /\ Got("read", seen[i].src)' = pwrote'[seen[i].src]
  <2>1. PICK x : x = seen[i].src
    OBVIOUS
  <2>2. Ended(x) /\ Got("read", x) = pwrote[x]
    BY <1>3, <2>1 DEF HangInv
  <2>3. Ended(x)' /\ pwrote'[x] = pwrote[x]
    BY <2>2 DEF EndedKept
  <2>4. Got("read", x)' = pwrote'[x]
    BY <1>1, <2>2, <2>3
  <2>5. seen'[i].src = x
    BY <2>1
  <2> QED
    BY <2>1, <2>3, <2>4, <2>5 DEF Ended, Got, SeenFrom
<1>4. \A i : HangUp(seen[i])' <=> HangUp(seen[i])
  BY DEF HangUp
<1> QED
  BY <1>2, <1>3, <1>4 DEF HangInv

\* The worker says that a pipe has hung up when there is nothing to read.
LEMMA HangWrite ==
  ASSUME IInv, IdInv, RingInv, KindInv, CountInv, PipeInv, HangInv, EndedKept,
         NEW s \in Sessions, RingStep(s)
  PROVE  HangInv'
<1>1. UNCHANGED seen
  BY DEF RingStep, ReceiveReply, HandleSentinel, HandlePipe, HandleEvent, ctxSide, guestVars
<1>2. rings[s].channel \in ChannelRings /\ ring \in [Resources -> Messages] /\ ChannelRings \subseteq Resources
  <2>1. wpc[s] \in Busy
    BY RingStepIs
  <2> QED
    BY <2>1, HeldWaits, RingNames DEF IInv, TypeOK, SharedType
<1>3. ASSUME NEW m, ring' = [ring EXCEPT ![rings[s].channel] = m], HangUp(m) => \E x : x = m.src /\ Ended(x)' PROVE HangInv'
  <2>1. \A c \in ChannelRings : ring'[c] = ring[c] \/ ring'[c] = m
    BY <1>2, <1>3
  <2>2. ASSUME NEW c \in ChannelRings, ring'[c] = m, HangUp(ring[c])' PROVE Ended(ring[c].src)'
    <3>1. PICK x : x = m.src /\ Ended(x)'
      BY <1>3, <2>2 DEF HangUp
    <3> QED
      BY <2>2, <3>1 DEF Ended
  <2> QED
    BY <1>1, <2>1, <2>2, HangMove
<1>4. CASE UNCHANGED ring
  BY <1>1, <1>4, HangMove
<1>5. CASE ReceiveReply(s)
  <2>1. wpc[s] = "files" /\ (UNCHANGED ring \/ ring' = [ring EXCEPT ![rings[s].channel] = wreply[s]])
    BY <1>5 DEF ReceiveReply
  <2>2. ~HangUp(wreply[s])
    BY <2>1 DEF CountInv, SessionCounted, HangUp
  <2> QED
    BY <1>3, <1>4, <2>1, <2>2
<1>6. CASE HandleSentinel(s)
  <2> DEFINE m == Msg("sentinel", wevent[s].id, 0, <<>>)
  <2>1. UNCHANGED ring \/ ring' = [ring EXCEPT ![rings[s].channel] = m]
    BY <1>6 DEF HandleSentinel
  <2>2. ~HangUp(m)
    BY DEF Msg, HangUp
  <2> HIDE DEF m
  <2> QED
    BY <1>3, <1>4, <2>1, <2>2
<1>7. CASE HandleEvent(s)
  <2> DEFINE m == Msg("read", wevent[s].id, evt[wevent[s].id], <<>>)
  <2>1. UNCHANGED ring \/ (evt[wevent[s].id] > 0 /\ ring' = [ring EXCEPT ![rings[s].channel] = m])
    BY <1>7 DEF HandleEvent
  <2>2. m.n = evt[wevent[s].id] /\ evt[wevent[s].id] \in Nat
    BY DEF Msg, IInv, TypeOK, PeerType, WorkerType
  <2> HIDE DEF m
  <2>3. evt[wevent[s].id] > 0 => ~HangUp(m)
    BY <2>2 DEF HangUp
  <2> QED
    BY <1>3, <1>4, <2>1, <2>3
<1>8. CASE HandlePipe(s)
  <2> DEFINE id == wevent[s].id
             m == Msg("read", id, ReadNumber(s), <<>>)
  <2>1. /\ wpc[s] = "item" /\ items[id] = "ReadPipe" /\ UNCHANGED <<pw, pwrote>>
        /\ UNCHANGED ring \/ (ring' = [ring EXCEPT ![rings[s].channel] = m] /\ (ReadNumber(s) = 0 => UNCHANGED pread))
    BY <1>8 DEF HandlePipe, Halt
  <2>2. m.src = id /\ m.n = ReadNumber(s) /\ id \in Ids
    BY DEF Msg, IInv, TypeOK, WorkerType
  <2> HIDE DEF m
  <2>3. id \in NewPipes /\ EventOk(wevent[s])
    BY <2>1, <2>2 DEF KindInv, KindOk, NewPipes, PipeInv, Reported
  <2>4. ASSUME ReadNumber(s) = 0 PROVE Ended(id)
    <3>1. pread[id] \in Nat
      BY <2>2 DEF IInv, TypeOK, PeerType
    <3>2. ~wevent[s].readable
      BY <2>4, <3>1 DEF ReadNumber
    <3>3. pw[id] = "closed" /\ pread[id] = pwrote[id]
      BY <2>3, <3>2 DEF EventOk
    <3>4. ~(read_pipe_id < id)
      BY <2>2, <3>3 DEF PipeInv
    <3>5. /\ read_pipe_id \in Nat /\ id \in Nat /\ PipeReadStart \in Nat /\ MaxPipe \in Nat
          /\ PipeReadStart < id /\ read_pipe_id <= MaxPipe
      <4>1. \A x \in Ids : x \in Nat
        BY IdAssumption DEF Ids
      <4>2. read_pipe_id \in Ids
        BY DEF IInv, TypeOK, SharedType
      <4> QED
        BY <2>2, <2>3, <4>1, <4>2, IdAssumption DEF IdInv, NewPipes
    <3>6. id \in Pipes
      BY <3>4, <3>5 DEF Pipes
    <3> QED
      BY <3>3, <3>6 DEF Ended
  <2>5. \A x : Ended(x) => Ended(x)'
    BY DEF EndedKept
  <2>6. HangUp(m) => \E x : x = m.src /\ Ended(x)'
    BY <2>2, <2>4, <2>5 DEF HangUp
  <2> QED
    BY <1>3, <1>4, <2>1, <2>6
<1> QED
  BY <1>5, <1>6, <1>7, <1>8 DEF RingStep

\* A hang-up that the guest reads comes after all of the pipe's data, and
\* nothing comes after it.
LEMMA HangRead ==
  ASSUME IInv, RingInv, CountInv, HangInv, NEW f \in Fences, GuestRead(f) PROVE HangInv'
<1>1. /\ UNCHANGED <<pw, pread, pwrote>>
      /\ IF fring[f] # 0 THEN /\ seen' = Append(seen, ring[fring[f]])
                              /\ ring' = [ring EXCEPT ![fring[f]] = NoMsg]
                         ELSE UNCHANGED <<seen, ring>>
  BY DEF GuestRead, peerVars
<1>2. EndedKept
  BY <1>1 DEF EndedKept, Ended
<1>3. CASE fring[f] = 0
  BY <1>1, <1>2, <1>3, HangMove
<1>4. CASE fring[f] # 0
  <2> DEFINE r == fring[f]
             m == ring[r]
             n == Len(seen)
  <2>1. r \in Resources /\ ring \in [Resources -> Messages] /\ seen \in Seq(Messages)
    BY <1>4 DEF IInv, TypeOK, SharedType, GuestType
  <2>2. m \in Messages /\ seen' = Append(seen, m) /\ m = ring[r]
    BY <1>1, <1>4, <2>1
  <2>3. \A c \in Resources : ring'[c] = IF c = r THEN NoMsg ELSE ring[c]
    BY <1>1, <1>4, <2>1
  <2>4. r \notin ChannelRings => m.kind # "read"
    BY <2>1 DEF CountInv
  <2> HIDE DEF m, r
  <2>5. /\ n \in Nat /\ Len(seen') = n + 1 /\ seen'[n + 1] = m
        /\ \A i \in 1 .. n : seen'[i] = seen[i]
        /\ \A i : i \in 1 .. n + 1 <=> i \in 1 .. n \/ i = n + 1
    BY <2>1, <2>2
  <2>6. ASSUME NEW x
        PROVE  /\ Got("read", x) \in Nat /\ (~Carries(m, "read", x) => Got("read", x)' = Got("read", x))
    BY <2>1, <2>2, OneMore
  <2>7. ASSUME NEW x, Ended(x), Got("read", x) = pwrote[x] PROVE Got("read", x)' = pwrote[x]
    <3>1. ASSUME Carries(m, "read", x) PROVE FALSE
      <4>1. r \in ChannelRings /\ Carries(ring[r], "read", x)
        BY <2>2, <2>4, <3>1 DEF Carries
      <4>2. Got("read", x) + 1 = pread[x]
        BY <2>7, <4>1 DEF Ended, CountInv, PipeCounted, Counted
      <4> QED
        BY <2>6, <2>7, <4>2 DEF Ended
    <3> QED
      BY <2>6, <2>7, <3>1
  <2>8. ASSUME HangUp(m) PROVE \E x : x = m.src /\ Ended(x) /\ Got("read", x)' = pwrote[x]
    <3>0. PICK x : x = m.src
      OBVIOUS
    <3>1. r \in ChannelRings
      BY <2>4, <2>8 DEF HangUp
    <3>2. Ended(x)
      BY <2>2, <2>8, <3>0, <3>1 DEF HangInv
    <3>3. m # NoMsg /\ \A k, y : ~Carries(m, k, y)
      BY <2>8 DEF HangUp, NoMsg, Msg, Carries
    <3>4. ~InFlight("read", x)
      <4>1. ASSUME NEW c \in ChannelRings, Carries(ring[c], "read", x) PROVE FALSE
        <5>1. ring[c] # NoMsg
          BY <4>1, NothingInNoMsg
        <5>2. c = r
          BY <2>2, <3>1, <3>3, <5>1, OneFull
        <5> QED
          BY <2>2, <3>3, <4>1, <5>2
      <4> QED
        BY <4>1 DEF InFlight
    <3>5. Got("read", x) = pread[x]
      BY <3>2, <3>4 DEF CountInv, PipeCounted, Counted, Ended
    <3> QED
      BY <2>6, <3>0, <3>2, <3>3, <3>5 DEF Ended
  <2>9. \A x : Ended(x) => Ended(x)'
    BY <1>2 DEF EndedKept
  <2>10. ASSUME NEW c \in ChannelRings, HangUp(ring[c])' PROVE Ended(ring[c].src)'
    <3>1. ring'[c] = ring[c]
      BY <2>3, <2>10, RingNames DEF HangUp, NoMsg, Msg
    <3>2. Ended(ring[c].src)
      BY <2>10, <3>1 DEF HangInv, HangUp
    <3> QED
      BY <1>1, <3>1, <3>2 DEF Ended
  <2>11. ASSUME NEW i \in 1 .. n + 1, HangUp(seen'[i])
         PROVE  \E x : x = seen'[i].src /\ Ended(x) /\ Got("read", x)' = pwrote[x]
    <3>1. CASE i = n + 1
      BY <2>5, <2>8, <2>11, <3>1
    <3>2. CASE i \in 1 .. n
      <4>1. seen'[i] = seen[i] /\ HangUp(seen[i])
        BY <2>5, <2>11, <3>2
      <4>2. Ended(seen[i].src) /\ Got("read", seen[i].src) = pwrote[seen[i].src]
        BY <3>2, <4>1 DEF HangInv
      <4> QED
        BY <2>7, <4>1, <4>2
    <3> QED
      BY <2>5, <3>1, <3>2
  <2>12. ASSUME NEW i \in 1 .. Len(seen'), HangUp(seen[i])'
         PROVE  Ended(seen[i].src)' /\ (Got("read", seen[i].src) = pwrote[seen[i].src])'
    <3>1. HangUp(seen'[i]) /\ i \in 1 .. n + 1
      BY <2>5, <2>12 DEF HangUp
    <3>2. PICK x : x = seen'[i].src /\ Ended(x) /\ Got("read", x)' = pwrote[x]
      BY <2>11, <3>1
    <3>3. Ended(x)' /\ Got("read", x)' = pwrote'[x]
      BY <1>1, <2>9, <3>2
    <3> QED
      BY <3>2, <3>3 DEF Ended, Got, SeenFrom
  <2> QED
    BY <2>10, <2>12 DEF HangInv
<1> QED
  BY <1>3, <1>4

LEMMA HangNext ==
  ASSUME GuestDiscipline, SentinelsApart, IInv, IdInv, RingInv, KindInv, CountInv, PipeInv, HangInv, [Next]_vars
  PROVE  HangInv'
<1>1. EndedKept
  BY PipeNext
<1>2. CASE ContextStep
  <2>1. UNCHANGED seen
    BY <1>2 DEF ContextStep, attach, detach, initialize, get_image_requirements, SendBegin, SendIdentifier,
         SendFinish, WriteBegin, WriteEnd, WriteError, read_event_new, import_virtiofs_handle,
         socket_assign_uuid, context_create_blob, atomic_memory_sentinel_new,
         atomic_memory_sentinel_destroy, QueryFence, ChannelFence, DropBegin, DropJoin, guestVars
  <2>2. CASE get_image_requirements
    BY <1>1, <2>1, <2>2, QueryWrite, HangMove
  <2>3. CASE ~get_image_requirements
    <3>1. UNCHANGED ring
      BY <1>2, <2>3 DEF ContextStep, attach, detach, initialize, SendBegin, SendIdentifier,
         SendFinish, WriteBegin, WriteEnd, WriteError, read_event_new, import_virtiofs_handle,
         socket_assign_uuid, context_create_blob, atomic_memory_sentinel_new,
         atomic_memory_sentinel_destroy, QueryFence, ChannelFence, DropBegin, DropJoin
    <3> QED
      BY <1>1, <2>1, <3>1, HangMove
  <2> QED
    BY <2>2, <2>3
<1>3. ASSUME NEW s \in Sessions, WorkerStep(s), ~RingStep(s) PROVE HangInv'
  <2>1. UNCHANGED <<ring, seen>>
    BY <1>3 DEF WorkerStep, RingStep, TakeJob, Poll, Receive, ReceiveFile, HandleResample, HandleKill,
         HandleSentinelShutdown, LookupItem, SignalFence, ctxSide, guestVars
  <2> QED
    BY <1>1, <2>1, HangMove
<1>4. CASE (Environment /\ ~\E f \in Fences : GuestRead(f)) \/ UNCHANGED vars
  <2>1. UNCHANGED <<ring, seen>>
    BY <1>4 DEF Environment, PeerSend, PeerClose, PeerPipe, PeerEvent, WatcherSignal, guestVars, vars
  <2> QED
    BY <1>1, <2>1, HangMove
<1>5. ASSUME NEW s \in Sessions, RingStep(s) PROVE HangInv'
  BY <1>1, <1>5, HangWrite
<1>6. ASSUME NEW f \in Fences, GuestRead(f) PROVE HangInv'
  BY <1>6, HangRead
<1> QED
  BY <1>2, <1>3, <1>4, <1>5, <1>6 DEF Next

LEMMA HangInit == Init => PipeInv /\ HangInv
<1> SUFFICES ASSUME Init PROVE PipeInv /\ HangInv
  OBVIOUS
<1>1. (\A x \in Ids : pread[x] = 0 /\ pwrote[x] = 0 /\ pw[x] = "none") /\ send.pipe = 0
  BY DEF Init
<1>2. \A s \in Sessions : ~Reported(s)
  BY DEF Init, Reported
<1>3. \A c \in ChannelRings : ~HangUp(ring[c])
  BY RingNames DEF Init, HangUp, NoMsg, Msg
<1>4. 1 .. Len(seen) = {}
  BY DEF Init
<1> QED
  BY <1>1, <1>2, <1>3, <1>4 DEF PipeInv, HangInv

\* A guest that is told of the hang-up of a pipe has read all that the peer
\* wrote to it (WriteFromPipe and PipeFinished in worker.rs): epoll's report is
\* still right when the worker gets to the item, no chunk is left in a ring, and
\* nothing is written to the pipe afterwards.  The guest waits for one channel
\* fence at a time, has separate rings, and takes no sentinel id from the range
\* of the pipes.
THEOREM HangUpsAfterData ==
  ASSUME GuestDiscipline, SentinelsApart PROVE Spec => []HangUpAfterData
<1>1. IInv /\ RingInv /\ KindInv /\ PipeInv /\ IdInv /\ [Next]_vars => PipeInv'
  BY PipeNext
<1>2. /\ IInv /\ IdInv /\ RingInv /\ KindInv /\ CountInv /\ PipeInv /\ HangInv /\ [Next]_vars
      => HangInv'
  BY HangNext
<1>3. HangInv => HangUpAfterData
  BY DEF HangInv, HangUpAfterData, HangUp, Got
<1>4. Spec => []RingInv
  BY RingInvAlways
<1>5. Spec => []CountInv
  BY CountAlways
<1> QED
  BY <1>1, <1>2, <1>3, <1>4, <1>5, HangInit, Invariance, IdInvAlways, KindAlways, PTL DEF Spec
=============================================================================
