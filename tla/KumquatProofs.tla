---------------------------- MODULE KumquatProofs ----------------------------
(***************************************************************************)
(* Proofs about the Kumquat server, for any number of clients, requests,   *)
(* ids and restarts.                                                       *)
(***************************************************************************)
EXTENDS Kumquat, FiniteSetTheorems, SequenceTheorems, TLAPS

-----------------------------------------------------------------------------
(* Types                                                                   *)

\* SetToSeq lists the elements of a finite set.
LEMMA SetToSeqLists ==
  ASSUME NEW S, IsFiniteSet(S)
  PROVE  /\ Cardinality(S) \in Nat
         /\ SetToSeq(S) \in [1..Cardinality(S) -> S]
         /\ IsInjective(SetToSeq(S))
<1>1. Cardinality(S) \in Nat /\ ExistsBijection(1..Cardinality(S), S)
  BY FS_CardinalityType
<1>2. \E f \in [1..Cardinality(S) -> S] : IsInjective(f)
  BY <1>1 DEF ExistsBijection, Bijection, Injection
<1> QED
  BY <1>1, <1>2 DEF SetToSeq

\* What a client holds is listed in full when it is dropped, each resource
\* once, and its context comes last.
LEMMA DropPackets ==
  ASSUME TypeOK, NEW c \in Clients
  PROVE  /\ DropCmds(c) \in Seq(CmdType)
         /\ Cardinality(bos[c]) \in Nat /\ Len(DropCmds(c)) = Cardinality(bos[c]) + 1
         /\ DropCmds(c)[Cardinality(bos[c]) + 1] = Cmd("CtxDestroy", ctx[c], 0)
         /\ \A i \in 1..Cardinality(bos[c]) :
               \E r \in bos[c] : DropCmds(c)[i] = Cmd("Detach", ctx[c], r)
         /\ \A i, j \in 1..Cardinality(bos[c]) : i # j => DropCmds(c)[i] # DropCmds(c)[j]
<1> DEFINE n == Cardinality(bos[c])
           q == SetToSeq(bos[c])
           F == [i \in 1..n |-> Cmd("Detach", ctx[c], q[i])]
           x == Cmd("CtxDestroy", ctx[c], 0)
<1>1. IsFiniteSet(bos[c])
  <2>1. bos[c] \subseteq 0..MaxIds
    BY KumquatAssumption DEF TypeOK, ClientType, Ids
  <2> QED
    BY <2>1, KumquatAssumption, FS_BoundedSetOfNaturals
<1>2. n \in Nat /\ q \in [1..n -> bos[c]] /\ IsInjective(q)
  BY <1>1, SetToSeqLists
<1>3. DropCmds(c) = F \o <<x>>
  BY DEF DropCmds
<1> HIDE DEF n, q
<1>4. \A i \in 1..n : q[i] \in bos[c] /\ F[i] = Cmd("Detach", ctx[c], q[i]) /\ F[i] \in CmdType
  BY <1>2 DEF TypeOK, ClientType, CmdType, Cmd, RequestOps
<1>5. F \in Seq(CmdType) /\ Len(F) = n
  BY <1>2, <1>4
<1>6. x \in CmdType
  BY DEF TypeOK, ClientType, CmdType, Cmd
<1>7. \A i, j \in 1..n : i # j => F[i] # F[j]
  <2> SUFFICES ASSUME NEW i \in 1..n, NEW j \in 1..n, i # j PROVE F[i] # F[j]
    OBVIOUS
  <2>1. q[i] # q[j]
    BY <1>2 DEF IsInjective
  <2> QED
    BY <1>4, <2>1 DEF Cmd
<1> HIDE DEF F, x
<1>8. /\ F \o <<x>> \in Seq(CmdType) /\ Len(F \o <<x>>) = n + 1
      /\ (F \o <<x>>)[n + 1] = x /\ \A i \in 1..n : (F \o <<x>>)[i] = F[i]
  BY <1>2, <1>5, <1>6
<1> QED
  BY <1>2, <1>3, <1>4, <1>7, <1>8 DEF n, x

-----------------------------------------------------------------------------
\* Rutabaga's tables, as the server sees them.
TablesType == [ctx : SUBSET Ids, res : SUBSET Ids, backed : SUBSET Ids, fences : SUBSET Ids,
               shareable : SUBSET Ids]

\* The updates of Rutabaga's tables keep their type.
LEMMA TablesUpdate ==
  ASSUME TypeOK, NEW A \in SUBSET Ids, NEW B \in SUBSET Ids, NEW C \in SUBSET Ids
  PROVE  /\ rutabaga \in TablesType
         /\ [rutabaga EXCEPT !.ctx = A] \in TablesType
         /\ [rutabaga EXCEPT !.res = B] \in TablesType
         /\ [rutabaga EXCEPT !.res = B, !.backed = C] \in TablesType
         /\ [rutabaga EXCEPT !.ctx = A, !.res = B, !.backed = C] \in TablesType
<1>1. rutabaga \in TablesType
  BY DEF TypeOK, GpuType, TablesType
<1>2. [rutabaga EXCEPT !.ctx = A] \in TablesType
  BY <1>1 DEF TablesType
<1>3. [rutabaga EXCEPT !.res = B] \in TablesType
  BY <1>1 DEF TablesType
<1>4. [rutabaga EXCEPT !.res = B, !.backed = C] \in TablesType
  BY <1>1 DEF TablesType
<1>5. [rutabaga EXCEPT !.ctx = A, !.res = B, !.backed = C] \in TablesType
  BY <1>1 DEF TablesType
<1> QED
  BY <1>1, <1>2, <1>3, <1>4, <1>5

LEMMA InitType == Init => TypeOK
  BY KumquatAssumption
     DEF Init, TypeOK, ServerType, GpuType, SocketType, ClientType, FenceType, NoResources,
         NoTables, EmptySnap, Boots, Ids

LEMMA RestartType == ASSUME TypeOK, Restart PROVE TypeOK'
<1> USE DEF Restart, Started
<1>1. ServerType'
  BY KumquatAssumption DEF TypeOK, ServerType, Boots
<1>2. GpuType'
  BY DEF TypeOK, GpuType, NoResources, NoTables
<1>3. SocketType'
  BY DEF SocketType
<1>4. ClientType' /\ FenceType'
  BY DEF TypeOK, ClientType, FenceType
<1> QED
  BY <1>1, <1>2, <1>3, <1>4 DEF TypeOK

\* A client connects, closes its socket or dies.
LEMMA ConnectType ==
  ASSUME TypeOK, NEW c \in Clients, Connect(c) \/ Close(c) \/ Crash(c) PROVE TypeOK'
<1> USE DEF Connect, Close, Crash, connVars, gpuVars, fenceVars, libVars, sockVars
<1>1. ServerType' /\ GpuType' /\ FenceType'
  BY DEF TypeOK, ServerType, GpuType, FenceType
<1>2. SocketType'
  <2>1. peer' \in [Clients -> {"off", "open", "closed"}]
    BY DEF TypeOK, SocketType
  <2>2. broken' \in [Clients -> BOOLEAN]
    BY DEF TypeOK, SocketType
  <2>3. backlog' \subseteq Clients /\ conn' = conn /\ connection_id' = connection_id /\ inbox' = inbox
    BY DEF TypeOK, SocketType
  <2>4. outbox' \in [Clients -> Seq(CmdType)]
    <3>1. <<>> \in Seq(CmdType)
      OBVIOUS
    <3>2. outbox' = outbox \/ outbox' = [outbox EXCEPT ![c] = <<>>]
      OBVIOUS
    <3> QED
      BY <3>1, <3>2 DEF TypeOK, SocketType
  <2> QED
    BY <2>1, <2>2, <2>3, <2>4 DEF TypeOK, SocketType
<1>3. ClientType'
  BY DEF TypeOK, ClientType
<1> QED
  BY <1>1, <1>2, <1>3 DEF TypeOK

\* What the library sends is a command.
LEMMA AskableType ==
  ASSUME TypeOK, NEW c \in Clients, NEW m \in Askable(c) PROVE m \in CmdType
<1>1. Shared(c) \subseteq Ids \cup {0}
  BY DEF TypeOK, ClientType, Shared
<1> QED
  BY <1>1, KumquatAssumption DEF TypeOK, ClientType, Askable, CmdType, Cmd, RequestOps, FencedOps

LEMMA RequestType == ASSUME TypeOK, NEW c \in Clients, Request(c) PROVE TypeOK'
<1>1. PICK m \in Askable(c) : Request(c)!2!(m)
  BY DEF Request
<1>2. m \in CmdType
  BY <1>1, AskableType
<1>3. ServerType' /\ GpuType' /\ FenceType'
  BY DEF Request, TypeOK, ServerType, GpuType, FenceType, connVars, gpuVars, fenceVars
<1>4. SocketType'
  BY <1>1, <1>2 DEF Request, TypeOK, SocketType, connVars, sockVars
<1>5. ClientType'
  BY <1>1, <1>2, KumquatAssumption DEF Request, TypeOK, ClientType, CmdType
<1> QED
  BY <1>3, <1>4, <1>5 DEF TypeOK

LEMMA ReadReplyType == ASSUME TypeOK, NEW c \in Clients, ReadReply(c) PROVE TypeOK'
<1>1. Head(outbox[c]) \in CmdType /\ Tail(outbox[c]) \in Seq(CmdType)
  BY DEF ReadReply, TypeOK, SocketType
<1>2. ServerType' /\ GpuType' /\ FenceType'
  BY DEF ReadReply, TypeOK, ServerType, GpuType, FenceType, connVars, gpuVars, fenceVars
<1>3. SocketType'
  BY <1>1 DEF ReadReply, TypeOK, SocketType, connVars, sockVars
<1>4. ClientType'
  BY <1>1 DEF ReadReply, TypeOK, ClientType, CmdType
<1> QED
  BY <1>2, <1>3, <1>4 DEF TypeOK

LEMMA DropType == ASSUME TypeOK, NEW c \in Clients, Drop(c) PROVE TypeOK'
<1>1. ServerType' /\ GpuType' /\ FenceType' /\ ClientType'
  BY DEF Drop, TypeOK, ServerType, GpuType, FenceType, ClientType, connVars, gpuVars, fenceVars
<1>2. SocketType'
  <2>1. inbox[c] \in Seq(CmdType)
    BY DEF TypeOK, SocketType
  <2>2. inbox'[c] \in Seq(CmdType)
    <3>1. CASE ctx[c] = 0
      BY <2>1, <3>1 DEF Drop, TypeOK, SocketType
    <3>2. CASE ctx[c] # 0
      BY <2>1, <3>2, DropPackets DEF Drop, TypeOK, SocketType
    <3> QED
      BY <3>1, <3>2
  <2> QED
    BY <2>2 DEF Drop, TypeOK, SocketType, connVars, sockVars
<1> QED
  BY <1>1, <1>2 DEF TypeOK

-----------------------------------------------------------------------------
\* The packet that is read, and what is left.
LEMMA ReadsType ==
  ASSUME TypeOK, NEW c \in Clients, NEW e, NEW op, Reads(c, e, op)
  PROVE  /\ HeadOf(c) \in CmdType /\ HeadOf(c).op = op
         /\ inbox' \in [Clients -> Seq(CmdType)]
         /\ e \in EventType /\ e.id \in connections
  BY DEF Reads, HeadOf, TypeOK, SocketType, ServerType

\* The connections after a command.
LEMMA ProcessedType ==
  ASSUME TypeOK, NEW e, Processed(e)
  PROVE  /\ connection_id' = connection_id /\ connections' \subseteq connections
         /\ wait_ctx' \subseteq connections' /\ events' \subseteq EventType
  BY DEF Processed, TypeOK, ServerType

LEMMA ReplyType ==
  ASSUME TypeOK, NEW c \in Clients, NEW m \in CmdType, Reply(c, m)
  PROVE  server' \in {"run", "ended", "failed"} /\ outbox' \in [Clients -> Seq(CmdType)]
<1>1. Append(outbox[c], m) \in Seq(CmdType)
  BY DEF TypeOK, SocketType
<1> QED
  BY <1>1 DEF Reply, TypeOK, ServerType, SocketType

\* The types of what most commands touch, whether they are refused or not.
LEMMA CommandType ==
  ASSUME TypeOK, NEW c \in Clients, NEW e, NEW op, Reads(c, e, op),
         UNCHANGED <<boot, submit, sockVars>>,
         \/ Refused \/ ComponentFails
         \/ Processed(e) /\ UNCHANGED <<server, outbox>>
         \/ Processed(e) /\ \E m \in CmdType : Reply(c, m)
  PROVE  ServerType' /\ SocketType'
<1>1. /\ connection_id' = connection_id /\ connections' \subseteq connections
      /\ wait_ctx' \subseteq connections' /\ events' \subseteq EventType
  BY ProcessedType DEF Refused, ComponentFails, connVars, TypeOK, ServerType
<1>2. server' \in {"run", "ended", "failed"} /\ outbox' \in [Clients -> Seq(CmdType)]
  BY ReplyType DEF Refused, ComponentFails, TypeOK, ServerType, SocketType
<1>3. inbox' \in [Clients -> Seq(CmdType)]
  BY ReadsType
<1> QED
  BY <1>1, <1>2, <1>3 DEF TypeOK, ServerType, SocketType, sockVars

\* Commands that leave Rutabaga and the table of resources alone.
LEMMA PlainType ==
  ASSUME TypeOK, NEW c \in Clients, NEW e,
         Query(c, e) \/ CtxAttachResource(c, e) \/ CmdSubmit3d(c, e) \/ CmdSubmitInFences(c, e)
           \/ SnapshotSave(c, e) \/ TransferHost3d(c, e)
  PROVE  TypeOK'
<1>1. Cmd("Query", 0, 0) \in CmdType /\ Cmd("Save", 0, 0) \in CmdType
  BY DEF Cmd, CmdType, RequestOps
<1>2. ServerType' /\ SocketType'
  BY <1>1, CommandType DEF Query, CtxAttachResource, CmdSubmit3d, CmdSubmitInFences, SnapshotSave,
         TransferHost3d
<1>3. GpuType' /\ FenceType'
  <2>1. UNCHANGED <<gpuVars, fenceVars>>
    BY DEF Query, CtxAttachResource, CmdSubmit3d, CmdSubmitInFences, SnapshotSave,
         TransferHost3d
  <2>2. \/ snap' = snap \/ snap' = [snap EXCEPT !.dir = TRUE]
        \/ snap' = [dir |-> TRUE, taken |-> TRUE, ctx |-> rutabaga.ctx, res |-> rutabaga.res]
    BY DEF Query, CtxAttachResource, CmdSubmit3d, CmdSubmitInFences, SnapshotSave,
         TransferHost3d
  <2>3. snap' \in [dir : BOOLEAN, taken : BOOLEAN, ctx : SUBSET Ids, res : SUBSET Ids]
    <3>1. rutabaga.ctx \in SUBSET Ids /\ rutabaga.res \in SUBSET Ids
      BY DEF TypeOK, GpuType
    <3>2. [dir |-> TRUE, taken |-> TRUE, ctx |-> rutabaga.ctx, res |-> rutabaga.res]
             \in [dir : BOOLEAN, taken : BOOLEAN, ctx : SUBSET Ids, res : SUBSET Ids]
      BY <3>1
    <3>3. snap \in [dir : BOOLEAN, taken : BOOLEAN, ctx : SUBSET Ids, res : SUBSET Ids]
      BY DEF TypeOK, GpuType
    <3>4. [snap EXCEPT !.dir = TRUE] \in [dir : BOOLEAN, taken : BOOLEAN, ctx : SUBSET Ids, res : SUBSET Ids]
      BY <3>3
    <3> QED
      BY <2>2, <3>2, <3>3, <3>4, Zenon
  <2> QED
    BY <2>1, <2>3 DEF TypeOK, GpuType, FenceType, gpuVars, fenceVars
<1>4. ClientType'
  BY DEF TypeOK, ClientType, libVars, Query,
         CtxAttachResource, CmdSubmit3d, CmdSubmitInFences, SnapshotSave,
         TransferHost3d
<1> QED
  BY <1>2, <1>3, <1>4 DEF TypeOK

\* An id within the bound is an id.
LEMMA AllocatedId ==
  ASSUME TypeOK, allocate_id <= MaxIds PROVE allocate_id \in Ids
  BY KumquatAssumption DEF allocate_id, Ids, TypeOK, GpuType

\* Contexts and restores.
LEMMA CtxType ==
  ASSUME TypeOK, NEW c \in Clients, NEW e,
         CtxCreate(c, e) \/ CtxDestroy(c, e) \/ SnapshotRestore(c, e)
  PROVE  TypeOK'
<1>1. /\ allocate_id \in Ids => Cmd("CtxCreate", allocate_id, 0) \in CmdType
      /\ Cmd("Restore", 0, 0) \in CmdType
  BY DEF Cmd, CmdType, RequestOps
<1>2. ServerType' /\ SocketType'
  BY <1>1, AllocatedId, CommandType DEF CtxCreate, CtxDestroy, SnapshotRestore
<1>3. GpuType'
  <2>1. id_allocator' \in Ids \cup {0} /\ UNCHANGED <<resources, snap>>
    BY AllocatedId DEF TypeOK, GpuType, CtxCreate, CtxDestroy, SnapshotRestore
  <2>2. \/ rutabaga' = rutabaga
        \/ allocate_id \in Ids /\ rutabaga' = [rutabaga EXCEPT !.ctx = @ \cup {allocate_id}]
        \/ rutabaga' = [rutabaga EXCEPT !.ctx = @ \ {HeadOf(c).ctx}]
        \/ rutabaga' = [rutabaga EXCEPT !.ctx = snap.ctx, !.res = snap.res, !.backed = {}]
    BY AllocatedId DEF CtxCreate, CtxDestroy, SnapshotRestore
  <2>3. rutabaga' \in TablesType
    <3>1. /\ rutabaga.ctx \ {HeadOf(c).ctx} \in SUBSET Ids
          /\ allocate_id \in Ids => rutabaga.ctx \cup {allocate_id} \in SUBSET Ids
          /\ snap.ctx \in SUBSET Ids /\ snap.res \in SUBSET Ids /\ {} \in SUBSET Ids
      BY DEF TypeOK, GpuType
    <3>2. [rutabaga EXCEPT !.ctx = rutabaga.ctx \ {HeadOf(c).ctx}] \in TablesType
      BY <3>1, TablesUpdate, Zenon
    <3>3. allocate_id \in Ids => [rutabaga EXCEPT !.ctx = rutabaga.ctx \cup {allocate_id}] \in TablesType
      BY <3>1, TablesUpdate, Zenon
    <3>4. [rutabaga EXCEPT !.ctx = snap.ctx, !.res = snap.res, !.backed = {}] \in TablesType
      BY <3>1, TablesUpdate, Zenon
    <3> QED
      BY <2>2, <3>1, <3>2, <3>3, <3>4, TablesUpdate, Zenon
  <2> QED
    BY <2>1, <2>3 DEF TypeOK, GpuType, TablesType
<1>4. ClientType' /\ FenceType'
  BY DEF TypeOK, ClientType, FenceType, libVars, fenceVars,
         CtxCreate, CtxDestroy, SnapshotRestore
<1> QED
  BY <1>2, <1>3, <1>4 DEF TypeOK

\* New resources.
LEMMA CreateType ==
  ASSUME TypeOK, NEW c \in Clients, NEW e, ResourceCreate3d(c, e) \/ ResourceCreateBlob(c, e)
  PROVE  TypeOK'
<1> USE DEF ResourceCreate3d, ResourceCreateBlob
<1>1. /\ allocate_id \in Ids
      /\ Cmd("Create3d", 0, allocate_id) \in CmdType /\ Cmd("CreateBlob", 0, allocate_id) \in CmdType
  BY AllocatedId DEF Cmd, CmdType, RequestOps
<1>2. ServerType' /\ SocketType'
  BY <1>1, CommandType
<1>3. GpuType'
  <2>1. rutabaga' \in TablesType
    <3>1. \/ rutabaga' = rutabaga
          \/ rutabaga' = [rutabaga EXCEPT !.res = @ \cup {allocate_id}]
          \/ rutabaga' = [rutabaga EXCEPT !.res = @ \cup {allocate_id},
                                          !.backed = @ \cup {allocate_id}]
      OBVIOUS
    <3>2. rutabaga.res \cup {allocate_id} \in SUBSET Ids /\ rutabaga.backed \cup {allocate_id} \in SUBSET Ids
      BY <1>1 DEF TypeOK, GpuType
    <3> QED
      BY <3>1, <3>2, TablesUpdate
  <2>2. resources' = resources \/ \E x \in SUBSET Ids, b \in BOOLEAN :
                                     resources' = NewResource(allocate_id, x, b)
    <3>1. HeadOf(c).ctx \in rutabaga.ctx => {HeadOf(c).ctx} \in SUBSET Ids
      BY DEF TypeOK, GpuType
    <3> QED
      BY <3>1
  <2>3. /\ DOMAIN resources' \subseteq Ids
        /\ resources' \in [DOMAIN resources' -> [ctxs : SUBSET Ids, mapping : BOOLEAN]]
    BY <1>1, <2>2 DEF TypeOK, GpuType, NewResource
  <2> QED
    BY <1>1, <2>1, <2>3 DEF TypeOK, GpuType, TablesType
<1>4. ClientType' /\ FenceType'
  BY DEF TypeOK, ClientType, FenceType, libVars, fenceVars
<1> QED
  BY <1>2, <1>3, <1>4 DEF TypeOK

\* A resource is detached, and released with its last context.
LEMMA DetachType ==
  ASSUME TypeOK, NEW c \in Clients, NEW e, CtxDetachResource(c, e) PROVE TypeOK'
<1>1. ServerType' /\ SocketType'
  BY CommandType DEF CtxDetachResource
<1>2. GpuType'
  <2>1. CASE UNCHANGED <<resources, rutabaga>>
    BY <2>1 DEF TypeOK, GpuType, CtxDetachResource
  <2>2. CASE /\ HeadOf(c).res \in DOMAIN resources
             /\ Release(HeadOf(c).res, resources[HeadOf(c).res].ctxs \ {HeadOf(c).ctx})
    <3> DEFINE r == HeadOf(c).res
    <3>1. resources[r].ctxs \ {HeadOf(c).ctx} \in SUBSET Ids
      BY <2>2 DEF TypeOK, GpuType
    <3>2. rutabaga' \in TablesType
      <4>1. \/ rutabaga' = rutabaga
            \/ rutabaga' = [rutabaga EXCEPT !.res = @ \ {r},
                                            !.backed = IF resources[r].mapping THEN @ \ {r} ELSE @]
        BY <2>2 DEF Release
      <4> HIDE DEF r
      <4>2. /\ rutabaga.res \ {r} \in SUBSET Ids
            /\ (IF resources[r].mapping THEN rutabaga.backed \ {r} ELSE rutabaga.backed) \in SUBSET Ids
        BY DEF TypeOK, GpuType
      <4>3. [rutabaga EXCEPT !.res = rutabaga.res \ {r},
                             !.backed = IF resources[r].mapping THEN rutabaga.backed \ {r}
                                        ELSE rutabaga.backed] \in TablesType
        BY <4>2, TablesUpdate, Zenon
      <4> QED
        BY <4>1, <4>2, <4>3, TablesUpdate, Zenon
    <3>3. /\ DOMAIN resources' \subseteq Ids
          /\ resources' \in [DOMAIN resources' -> [ctxs : SUBSET Ids, mapping : BOOLEAN]]
      BY <2>2, <3>1 DEF Release, TypeOK, GpuType, Restrict
    <3> QED
      BY <3>2, <3>3 DEF TypeOK, GpuType, TablesType, CtxDetachResource
  <2> QED
    BY <2>1, <2>2 DEF CtxDetachResource
<1>3. ClientType' /\ FenceType'
  BY DEF TypeOK, ClientType, FenceType, libVars, fenceVars,
         CtxDetachResource
<1> QED
  BY <1>1, <1>2, <1>3 DEF TypeOK

\* CmdSubmit3d with a fence, its three steps.
LEMMA SubmitFenceType ==
  ASSUME TypeOK, NEW c \in Clients, NEW e, NEW op \in FencedOps, CmdSubmit3dFence(c, e, op)
  PROVE  TypeOK'
<1> USE DEF CmdSubmit3dFence
<1>1. ServerType' /\ SocketType'
  <2>1. e \in EventType /\ inbox' \in [Clients -> Seq(CmdType)]
    BY ReadsType
  <2>2. submit' = submit \/ submit' \in SubmitType
    BY <2>1, AllocatedId DEF SubmitType
  <2>3. UNCHANGED <<boot, connVars, sockVars, outbox>> /\ server' \in {server, "ended", "failed"}
    BY DEF Refused, ComponentFails
  <2> QED
    BY <2>1, <2>2, <2>3 DEF connVars, sockVars, TypeOK, ServerType, SocketType
<1>2. GpuType' /\ FenceType'
  BY AllocatedId DEF TypeOK, ServerType, GpuType, FenceType, FenceIds
<1>3. ClientType'
  BY DEF TypeOK, ClientType, libVars
<1> QED
  BY <1>1, <1>2, <1>3 DEF TypeOK

\* create_fence: refused, or the fence is the renderer's.
LEMMA CreateFenceCases ==
  ASSUME TypeOK, CreateFence
  PROVE  /\ server = "run" /\ submit \in SubmitType /\ submit.step = "create"
         /\ \/ UNCHANGED <<submit, rutabaga>> /\ server' = "failed"
            \/ /\ submit' = [submit EXCEPT !.step = "reply"] /\ UNCHANGED server
               /\ rutabaga'.ctx = rutabaga.ctx /\ rutabaga'.res = rutabaga.res
               /\ rutabaga'.backed = rutabaga.backed
               /\ rutabaga'.fences = rutabaga.fences \cup {submit.id}
               /\ submit.op = "SubmitShareRing" => submit.id \in rutabaga'.shareable
         /\ rutabaga' \in TablesType
<1>1. submit \in SubmitType /\ server = "run" /\ submit.step = "create"
  BY DEF CreateFence, TypeOK, ServerType, NoSubmit
<1>2. submit.id \in Ids /\ rutabaga \in TablesType
  BY <1>1 DEF SubmitType, TypeOK, GpuType, TablesType
<1>3. CASE ComponentFails /\ UNCHANGED <<submit, rutabaga>>
  BY <1>1, <1>2, <1>3 DEF ComponentFails
<1> DEFINE new == IF submit.op = "SubmitShareRing" THEN rutabaga.shareable \cup {submit.id}
                  ELSE rutabaga.shareable
<1>4. CASE /\ submit' = [submit EXCEPT !.step = "reply"] /\ UNCHANGED server
           /\ rutabaga' = [rutabaga EXCEPT !.fences = rutabaga.fences \cup {submit.id},
                                           !.shareable = new]
  <2>1. new \in SUBSET Ids /\ rutabaga.fences \cup {submit.id} \in SUBSET Ids
    BY <1>2 DEF TablesType
  <2>2. submit.op = "SubmitShareRing" => submit.id \in new
    OBVIOUS
  <2> HIDE DEF new
  <2>3. /\ rutabaga' \in TablesType /\ rutabaga'.shareable = new
        /\ rutabaga'.ctx = rutabaga.ctx /\ rutabaga'.res = rutabaga.res
        /\ rutabaga'.backed = rutabaga.backed
        /\ rutabaga'.fences = rutabaga.fences \cup {submit.id}
    BY <1>2, <1>4, <2>1 DEF TablesType
  <2> QED
    BY <1>1, <1>4, <2>2, <2>3
<1> QED
  BY <1>3, <1>4 DEF CreateFence

LEMMA CreateFenceType == ASSUME TypeOK, CreateFence PROVE TypeOK'
<1> USE DEF CreateFence
<1>1. submit \in SubmitType
  BY DEF TypeOK, ServerType, NoSubmit
<1>2. ServerType' /\ SocketType'
  BY <1>1 DEF ComponentFails, connVars, sockVars, TypeOK, ServerType, SocketType, SubmitType
<1>3. GpuType' /\ FenceType'
  BY CreateFenceCases DEF TypeOK, GpuType, FenceType, fenceVars, TablesType
<1>4. ClientType'
  BY DEF TypeOK, ClientType, libVars
<1> QED
  BY <1>2, <1>3, <1>4 DEF TypeOK

LEMMA FinishSubmitType == ASSUME TypeOK, FinishSubmit PROVE TypeOK'
<1> USE DEF FinishSubmit
<1>1. submit \in SubmitType
  BY DEF TypeOK, ServerType, NoSubmit
<1>2. submit.c \in Clients /\ Cmd(submit.op, 0, 0) \in CmdType
  BY <1>1 DEF SubmitType, Cmd, CmdType, FencedOps, RequestOps
<1>3. server' \in {"run", "ended", "failed"} /\ outbox' \in [Clients -> Seq(CmdType)]
  BY <1>2, ReplyType DEF Refused, TypeOK, SocketType
<1>4. /\ connection_id' = connection_id /\ connections' \subseteq connections
      /\ wait_ctx' \subseteq connections' /\ events' \subseteq EventType
  BY ProcessedType DEF Refused, connVars, TypeOK, ServerType
<1>5. ServerType' /\ SocketType'
  BY <1>3, <1>4 DEF sockVars, TypeOK, ServerType, SocketType
<1>6. GpuType' /\ FenceType'
  BY DEF TypeOK, GpuType, FenceType, fenceVars
<1>7. ClientType'
  BY DEF TypeOK, ClientType, libVars
<1> QED
  BY <1>5, <1>6, <1>7 DEF TypeOK

LEMMA FenceHandlerType == ASSUME TypeOK, NEW f \in Ids, FenceHandler(f) PROVE TypeOK'
<1> USE DEF FenceHandler
<1>1. ServerType' /\ SocketType'
  BY DEF connVars, sockVars, TypeOK, ServerType, SocketType
<1>2. GpuType' /\ ClientType'
  BY DEF TypeOK, GpuType, ClientType, libVars
<1>3. FenceType'
  <2>1. <<boot, f>> \in FenceIds
    BY DEF TypeOK, ServerType, FenceIds
  <2> QED
    BY <2>1 DEF TypeOK, FenceType
<1> QED
  BY <1>1, <1>2, <1>3 DEF TypeOK

\* The server's waits, accepts and empty reads.
LEMMA WaitType == ASSUME TypeOK, Wait PROVE TypeOK'
<1> USE DEF Wait
<1>1. Ready \subseteq EventType
  <2>1. \A c \in Clients : conn[c] \in Nat
    BY DEF TypeOK, SocketType, ServerType
  <2>2. ASSUME NEW x \in Ready PROVE x \in EventType
    <3>1. \E n \in Nat, h \in BOOLEAN : x = [id |-> n, readable |-> TRUE, hung_up |-> h]
      BY <2>1, Zenon DEF Ready
    <3> QED
      BY <3>1 DEF EventType
  <2> QED
    BY <2>2
<1> QED
  BY <1>1 DEF TypeOK, ServerType, GpuType, SocketType, ClientType, FenceType,
         gpuVars, fenceVars, sockVars, libVars

LEMMA AcceptType == ASSUME TypeOK, NEW e, Accept(e) PROVE TypeOK'
<1> USE DEF Accept
<1>1. ServerType'
  BY DEF TypeOK, ServerType
<1>2. SocketType'
  BY DEF TypeOK, ServerType, SocketType
<1>3. GpuType' /\ ClientType' /\ FenceType'
  BY DEF TypeOK, GpuType, ClientType, FenceType, gpuVars, fenceVars, libVars
<1> QED
  BY <1>1, <1>2, <1>3 DEF TypeOK

LEMMA NoDataType == ASSUME TypeOK, NEW c \in Clients, NEW e, NoData(c, e) PROVE TypeOK'
<1>1. /\ UNCHANGED <<boot, connection_id, connections, wait_ctx, submit, gpuVars, fenceVars, snap,
                     sockVars, inbox, outbox, libVars>>
      /\ server' \in {server, "ended"} /\ events' \subseteq events
  BY DEF NoData, Fail, connVars
<1>2. ServerType' /\ GpuType' /\ SocketType'
  BY <1>1 DEF TypeOK, ServerType, GpuType, SocketType, gpuVars, sockVars
<1>3. ClientType' /\ FenceType'
  BY <1>1 DEF TypeOK, ClientType, FenceType, libVars, fenceVars
<1> QED
  BY <1>2, <1>3 DEF TypeOK

LEMMA StutterType == ASSUME TypeOK, UNCHANGED vars PROVE TypeOK'
  BY DEF vars, TypeOK, ServerType, GpuType, SocketType, ClientType, FenceType,
         connVars, gpuVars, fenceVars, sockVars, libVars

LEMMA NextType == TypeOK /\ [Next]_vars => TypeOK'
<1> SUFFICES ASSUME TypeOK, [Next]_vars PROVE TypeOK'
  OBVIOUS
<1>1. CASE Run
  <2>1. ASSUME NEW e \in events, NEW c \in Clients, Process(c, e) PROVE TypeOK'
    BY <2>1, NoDataType, PlainType, CtxType, CreateType, DetachType DEF Process
  <2> QED
    BY <1>1, <2>1, WaitType, AcceptType, SubmitFenceType, CreateFenceType, FinishSubmitType DEF Run
<1>2. CASE \E c \in Clients : Connect(c) \/ Request(c) \/ ReadReply(c) \/ Drop(c) \/ Close(c) \/ Crash(c)
  BY <1>2, ConnectType, RequestType, ReadReplyType, DropType
<1> QED
  BY <1>1, <1>2, FenceHandlerType, RestartType, StutterType DEF Next

\* Every variable keeps its type.
THEOREM TypeCorrect == Spec => []TypeOK
  BY InitType, NextType, PTL DEF Spec

-----------------------------------------------------------------------------
(* Fences                                                                  *)

\* Ids are not given out twice, not even across restarts.
CreatedPast == \A f \in created : f[1] < boot \/ (f[1] = boot /\ f[2] <= id_allocator)

\* An event in pending_fences was handed out and is not signalled.
PendingNew == \A f \in pending_fences : <<boot, f>> \in created /\ signals[<<boot, f>>] = 0

\* Nobody signals a fence that was not handed out.
SignalsKnown == \A f \in FenceIds \ created : signals[f] = 0

FenceInv == PendingOwed /\ CreatedPast /\ PendingNew /\ SignalsKnown

\* A step that does not deal with fences.
FenceIdle ==
    /\ UNCHANGED <<boot, created, signals, pending_fences>>
    /\ id_allocator' \in {id_allocator, id_allocator + 1}
    /\ rutabaga'.fences = rutabaga.fences
    /\ server' = "run" => server = "run"
    /\ submit' = submit \/ (submit.step # "create" /\ submit'.step # "create")

FenceStep ==
    \/ Restart \/ CreateFence \/ (\E f \in Ids : FenceHandler(f))
    \/ \E e \in events, c \in Clients, op \in FencedOps : CmdSubmit3dFence(c, e, op)

LEMMA ClientsFenceIdle ==
  ASSUME TypeOK, NEW c \in Clients,
         Connect(c) \/ Request(c) \/ ReadReply(c) \/ Drop(c) \/ Close(c) \/ Crash(c)
  PROVE  FenceIdle
  BY DEF Connect, Request, ReadReply, Drop, Close, Crash, FenceIdle, fenceVars, gpuVars

LEMMA ProcessFenceIdle ==
  ASSUME TypeOK, NEW c \in Clients, NEW e \in events, Process(c, e)
  PROVE  FenceIdle
<1>1. server = "run" /\ UNCHANGED <<boot, created, signals, pending_fences, submit>>
  BY DEF Process, NoData, Query, CtxCreate, CtxDestroy, CtxAttachResource, CtxDetachResource,
         ResourceCreate3d, ResourceCreateBlob, TransferHost3d, CmdSubmit3d, CmdSubmitInFences, SnapshotSave,
         SnapshotRestore, Reads, Idle, Fail, fenceVars
<1>2. id_allocator' \in {id_allocator, id_allocator + 1}
  BY DEF Process, NoData, Query, CtxCreate, CtxDestroy, CtxAttachResource, CtxDetachResource,
         ResourceCreate3d, ResourceCreateBlob, TransferHost3d, CmdSubmit3d, CmdSubmitInFences, SnapshotSave,
         SnapshotRestore, Fail, gpuVars, allocate_id
<1>3. rutabaga'.fences = rutabaga.fences
  <2>1. CASE CtxCreate(c, e) \/ CtxDestroy(c, e) \/ SnapshotRestore(c, e)
    BY <2>1 DEF CtxCreate, CtxDestroy, SnapshotRestore, TypeOK, GpuType
  <2>2. CASE ResourceCreate3d(c, e) \/ ResourceCreateBlob(c, e)
    BY <2>2 DEF ResourceCreate3d, ResourceCreateBlob, TypeOK, GpuType
  <2>3. CASE CtxDetachResource(c, e)
    BY <2>3 DEF CtxDetachResource, Release, TypeOK, GpuType
  <2> QED
    BY <2>1, <2>2, <2>3
       DEF Process, NoData, Query, CtxAttachResource, TransferHost3d, CmdSubmit3d, CmdSubmitInFences, SnapshotSave,
           Fail, gpuVars
<1> QED
  BY <1>1, <1>2, <1>3 DEF FenceIdle

LEMMA FenceIdleOrStep ==
  ASSUME TypeOK, [Next]_vars PROVE FenceIdle \/ FenceStep
<1>1. ASSUME Wait PROVE FenceIdle
  BY <1>1 DEF Wait, FenceIdle, fenceVars, gpuVars
<1>2. ASSUME FinishSubmit PROVE FenceIdle
  BY <1>2 DEF FinishSubmit, FenceIdle, fenceVars, NoSubmit, TypeOK, GpuType
<1>3. ASSUME NEW e \in events, Accept(e) PROVE FenceIdle
  BY <1>3 DEF Accept, FenceIdle, fenceVars, gpuVars
<1>4. ASSUME UNCHANGED vars PROVE FenceIdle
  BY <1>4 DEF vars, FenceIdle, fenceVars, gpuVars
<1> QED
  BY <1>1, <1>2, <1>3, <1>4, ClientsFenceIdle, ProcessFenceIdle DEF Next, Run, FenceStep

LEMMA FenceIdleInv == ASSUME TypeOK, FenceInv, FenceIdle PROVE FenceInv'
<1>1. PendingOwed'
  BY DEF FenceInv, PendingOwed, FenceIdle
<1>2. CreatedPast'
  BY DEF TypeOK, ServerType, GpuType, FenceType, FenceIds, Boots, Ids, FenceInv, CreatedPast, FenceIdle
<1>3. PendingNew' /\ SignalsKnown'
  BY DEF FenceInv, PendingNew, SignalsKnown, FenceIdle
<1> QED
  BY <1>1, <1>2, <1>3 DEF FenceInv

LEMMA InitFenceInv == Init => FenceInv
  BY DEF Init, FenceInv, PendingOwed, CreatedPast, PendingNew, SignalsKnown

LEMMA RestartFence == ASSUME TypeOK, FenceInv, Restart PROVE FenceInv'
<1>1. PendingOwed' /\ PendingNew' /\ SignalsKnown'
  BY DEF Restart, Started, FenceInv, PendingOwed, PendingNew, SignalsKnown
<1>2. CreatedPast'
  <2>1. boot \in Nat /\ boot' = boot + 1 /\ created' = created
    BY DEF Restart, TypeOK, ServerType, Boots
  <2>2. \A f \in created : f[1] \in Nat /\ f[1] <= boot
    BY <2>1 DEF TypeOK, FenceType, FenceIds, Boots, FenceInv, CreatedPast
  <2> QED
    BY <2>1, <2>2 DEF CreatedPast
<1> QED
  BY <1>1, <1>2 DEF FenceInv

LEMMA CreateFenceFence == ASSUME TypeOK, FenceInv, CreateFence PROVE FenceInv'
<1>1. PendingOwed'
  BY CreateFenceCases DEF CreateFence, fenceVars, SubmitType, FenceInv, PendingOwed
<1>2. CreatedPast' /\ PendingNew' /\ SignalsKnown'
  BY DEF CreateFence, fenceVars, FenceInv, CreatedPast, PendingNew, SignalsKnown
<1> QED
  BY <1>1, <1>2 DEF FenceInv

\* The fence in the table is one that was handed out and not signalled; what
\* the handler does is to signal it, or nothing.
LEMMA HandlerSignals ==
  ASSUME TypeOK, FenceInv, NEW f \in Ids, FenceHandler(f)
  PROVE  /\ FenceInv'
         /\ UNCHANGED <<created, signals>> \/ FS!Signal(<<boot, f>>)
<1>1. <<boot, f>> \in FenceIds
  BY DEF TypeOK, ServerType, FenceIds
<1>2. PendingOwed'
  BY DEF FenceHandler, TypeOK, GpuType, FenceInv, PendingOwed
<1>3. CreatedPast'
  BY DEF FenceHandler, FenceInv, CreatedPast
<1>4. PendingNew'
  BY <1>1 DEF FenceHandler, TypeOK, FenceType, FenceInv, PendingNew
<1>5. SignalsKnown'
  BY <1>1 DEF FenceHandler, TypeOK, FenceType, FenceInv, PendingNew, SignalsKnown
<1>6. UNCHANGED <<created, signals>> \/ FS!Signal(<<boot, f>>)
  <2>1. CASE f \notin pending_fences
    BY <2>1 DEF FenceHandler
  <2>2. CASE f \in pending_fences
    <3>1. <<boot, f>> \in created /\ signals[<<boot, f>>] = 0
      BY <2>2 DEF FenceInv, PendingNew
    <3>2. signals' = [signals EXCEPT ![<<boot, f>>] = 1] /\ created' = created
      BY <1>1, <2>2, <3>1 DEF FenceHandler
    <3> QED
      BY <3>1, <3>2 DEF FS!Signal
  <2> QED
    BY <2>1, <2>2
<1> QED
  BY <1>2, <1>3, <1>4, <1>5, <1>6 DEF FenceInv

\* CmdSubmit3d hands out a fence that was never handed out, or none.
LEMMA SubmitCreates ==
  ASSUME TypeOK, FenceInv, NEW c, NEW e, NEW op, CmdSubmit3dFence(c, e, op)
  PROVE  /\ FenceInv'
         /\ UNCHANGED <<created, signals>> \/ FS!Create(<<boot, allocate_id>>)
<1> DEFINE f == <<boot, allocate_id>>
<1>1. f \in FenceIds \ created /\ signals[f] = 0
  <2>1. f \in FenceIds
    BY AllocatedId DEF CmdSubmit3dFence, TypeOK, ServerType, FenceIds
  <2>2. f \notin created
    BY DEF TypeOK, ServerType, GpuType, Boots, Ids, allocate_id, FenceInv, CreatedPast
  <2> QED
    BY <2>1, <2>2 DEF FenceInv, SignalsKnown
<1>2. PendingOwed'
  BY DEF CmdSubmit3dFence, Reads, Idle, Refused, ComponentFails, FenceInv, PendingOwed
<1>3. CreatedPast'
  BY DEF CmdSubmit3dFence, TypeOK, ServerType, GpuType, FenceType, FenceIds, Boots, Ids, allocate_id,
         FenceInv, CreatedPast
<1>4. PendingNew'
  BY <1>1 DEF CmdSubmit3dFence, FenceInv, PendingNew
<1>5. SignalsKnown'
  BY DEF CmdSubmit3dFence, FenceInv, SignalsKnown
<1>6. UNCHANGED <<created, signals>> \/ FS!Create(f)
  BY <1>1 DEF CmdSubmit3dFence, FS!Create
<1> QED
  BY <1>2, <1>3, <1>4, <1>5, <1>6 DEF FenceInv

\* What every step does to fences.
LEMMA NextFences ==
  ASSUME TypeOK, FenceInv, [Next]_vars
  PROVE  FenceInv' /\ [FS!Next]_<<created, signals>>
<1>1. CASE FenceIdle
  BY <1>1, FenceIdleInv DEF FenceIdle
<1>2. CASE Restart
  BY <1>2, RestartFence DEF Restart
<1>3. CASE CreateFence
  BY <1>3, CreateFenceFence DEF CreateFence, fenceVars
<1>4. ASSUME NEW f \in Ids, FenceHandler(f) PROVE FenceInv' /\ [FS!Next]_<<created, signals>>
  <2>1. <<boot, f>> \in FenceIds
    BY DEF TypeOK, ServerType, FenceIds
  <2> QED
    BY <1>4, <2>1, HandlerSignals DEF FS!Next
<1>5. ASSUME NEW e \in events, NEW c \in Clients, NEW op \in FencedOps, CmdSubmit3dFence(c, e, op)
      PROVE  FenceInv' /\ [FS!Next]_<<created, signals>>
  <2>1. <<boot, allocate_id>> \in FenceIds
    BY <1>5, AllocatedId DEF CmdSubmit3dFence, TypeOK, ServerType, FenceIds
  <2> QED
    BY <1>5, <2>1, SubmitCreates DEF FS!Next
<1> QED
  BY <1>1, <1>2, <1>3, <1>4, <1>5, FenceIdleOrStep DEF FenceStep

LEMMA FenceInvariance == Spec => []FenceInv
  BY InitFenceInv, NextFences, TypeCorrect, PTL DEF Spec

\* Every event in pending_fences has a fence that the renderer will complete.
THEOREM PendingFencesOwed == Spec => []PendingOwed
<1>1. FenceInv => PendingOwed
  BY DEF FenceInv
<1> QED
  BY <1>1, FenceInvariance, PTL

\* Emulated fences are fences, across clients and restarts of the server.
THEOREM Refinement == Spec => FencesImplemented
<1>1. Init => FS!Init
  BY DEF Init, FS!Init
<1> QED
  BY <1>1, NextFences, TypeCorrect, FenceInvariance, PTL DEF Spec, FencesImplemented, FS!Spec

-----------------------------------------------------------------------------
(* Packets on a socket, as a set                                           *)

LEMMA RangeAppend ==
  ASSUME NEW S, NEW s \in Seq(S), NEW m \in S PROVE Range(Append(s, m)) = Range(s) \cup {m}
<1> DEFINE a == Append(s, m)
<1>1. /\ DOMAIN a = DOMAIN s \cup {Len(s) + 1}
      /\ a[Len(s) + 1] = m /\ \A i \in DOMAIN s : a[i] = s[i]
  OBVIOUS
<1> HIDE DEF a
<1>2. Range(a) = Range(s) \cup {m}
  BY <1>1, Zenon DEF Range
<1> QED
  BY <1>2 DEF a

LEMMA RangeTail ==
  ASSUME NEW S, NEW s \in Seq(S), s # <<>>
  PROVE  Head(s) \in Range(s) /\ Range(Tail(s)) \subseteq Range(s) /\ Tail(s) \in Seq(S)
  BY DEF Range

LEMMA RangeConcat ==
  ASSUME NEW S, NEW s \in Seq(S), NEW t \in Seq(S) PROVE Range(s \o t) = Range(s) \cup Range(t)
<1>1. Range(s \o t) \subseteq Range(s) \cup Range(t)
  BY DEF Range
<1>2. ASSUME NEW i \in DOMAIN s PROVE s[i] \in Range(s \o t)
  <2>1. i \in DOMAIN (s \o t) /\ (s \o t)[i] = s[i]
    OBVIOUS
  <2> QED
    BY <2>1 DEF Range
<1>3. ASSUME NEW i \in DOMAIN t PROVE t[i] \in Range(s \o t)
  <2>1. Len(s) + i \in DOMAIN (s \o t) /\ (s \o t)[Len(s) + i] = t[i]
    OBVIOUS
  <2> QED
    BY <2>1 DEF Range
<1> QED
  BY <1>1, <1>2, <1>3 DEF Range

LEMMA RangeEmpty == Range(<<>>) = {}
  BY DEF Range

\* What a client says when it goes.
LEMMA DropRange ==
  ASSUME TypeOK, NEW c \in Clients, NEW m \in Range(DropCmds(c))
  PROVE  /\ m.ctx = ctx[c] /\ m.op \in {"Detach", "CtxDestroy"}
         /\ m.op = "Detach" => m.res \in bos[c]
         /\ m.op = "CtxDestroy" => m.res = 0
<1> DEFINE n == Cardinality(bos[c])
           P == DropCmds(c)
<1>1. /\ P \in Seq(CmdType) /\ n \in Nat /\ Len(P) = n + 1
      /\ P[n + 1] = Cmd("CtxDestroy", ctx[c], 0)
      /\ \A i \in 1..n : \E r \in bos[c] : P[i] = Cmd("Detach", ctx[c], r)
  BY DropPackets
<1> HIDE DEF P, n
<1>2. PICK i \in 1..(n + 1) : m = P[i]
  BY <1>1 DEF Range, P
<1>3. CASE i = n + 1
  BY <1>1, <1>2, <1>3 DEF Cmd
<1>4. CASE i \in 1..n
  <2>1. PICK r \in bos[c] : P[i] = Cmd("Detach", ctx[c], r)
    BY <1>1, <1>4
  <2> QED
    BY <1>2, <2>1 DEF Cmd
<1>5. i = n + 1 \/ i \in 1..n
  BY <1>1, <1>2
<1> QED
  BY <1>3, <1>4, <1>5

-----------------------------------------------------------------------------
(* The tables of resources                                                 *)

\* Rutabaga has the resources that have iovecs.
BackedKept == server = "run" => rutabaga.backed \subseteq rutabaga.res

\* A client that restores is known to have.
RestoreKnown ==
    \A c \in Clients : \A m \in Range(inbox[c]) : m.op = "Restore" => "Restore" \in faults

TablesInv == BackingMapped /\ BackedKept /\ TablesAgree /\ RestoreKnown

\* A step that leaves the tables alone.
TablesIdle ==
    /\ UNCHANGED resources /\ rutabaga'.res = rutabaga.res /\ rutabaga'.backed = rutabaga.backed
    /\ server' = "run" => server = "run"
    /\ faults \subseteq faults'

\* A step that sends nothing.
NothingSent ==
    faults \subseteq faults' /\ \A c \in Clients : Range(inbox'[c]) \subseteq Range(inbox[c])

LEMMA ReadsTail ==
  ASSUME TypeOK, NEW c \in Clients, NEW e, NEW op, Reads(c, e, op)
  PROVE  /\ HeadOf(c) \in Range(inbox[c]) /\ HeadOf(c).op = op
         /\ inbox'[c] = Tail(inbox[c])
         /\ \A d \in Clients : Range(inbox'[d]) \subseteq Range(inbox[d])
<1>1. inbox[c] \in Seq(CmdType) /\ inbox[c] # <<>>
  BY DEF Reads, TypeOK, SocketType
<1> QED
  BY <1>1, RangeTail DEF Reads, HeadOf, TypeOK, SocketType

LEMMA TablesIdleInv == ASSUME TablesInv, TablesIdle, RestoreKnown' PROVE TablesInv'
<1>1. BackingMapped'
  BY DEF TablesInv, TablesIdle, BackingMapped
<1>2. BackedKept'
  BY DEF TablesInv, TablesIdle, BackedKept
<1>3. TablesAgree'
  BY DEF TablesInv, TablesIdle, TablesAgree
<1> QED
  BY <1>1, <1>2, <1>3 DEF TablesInv

LEMMA NothingSentKnown == ASSUME RestoreKnown, NothingSent PROVE RestoreKnown'
  BY DEF RestoreKnown, NothingSent

LEMMA InitTables == Init => TablesInv
<1> SUFFICES ASSUME Init PROVE TablesInv
  OBVIOUS
<1>1. RestoreKnown
  BY RangeEmpty DEF Init, RestoreKnown
<1> QED
  BY <1>1 DEF Init, TablesInv, BackingMapped, BackedKept, TablesAgree, NoTables, NoResources

LEMMA RestartTables == ASSUME Restart PROVE TablesInv'
<1>1. RestoreKnown'
  BY RangeEmpty DEF Restart, Started, RestoreKnown
<1> QED
  BY <1>1 DEF Restart, Started, TablesInv, BackingMapped, BackedKept, TablesAgree, NoTables, NoResources

LEMMA ClientsTables ==
  ASSUME TypeOK, TablesInv, NEW c \in Clients,
         Connect(c) \/ Request(c) \/ ReadReply(c) \/ Drop(c) \/ Close(c) \/ Crash(c)
  PROVE  TablesInv'
<1>1. TablesIdle
  BY DEF Connect, Request, ReadReply, Drop, Close, Crash, TablesIdle, gpuVars, libVars
<1>2. CASE Connect(c) \/ ReadReply(c) \/ Close(c) \/ Crash(c)
  <2>1. NothingSent
    BY <1>2 DEF Connect, ReadReply, Close, Crash, NothingSent, libVars
  <2> QED
    BY <1>1, <2>1, NothingSentKnown, TablesIdleInv DEF TablesInv
<1>3. CASE Request(c)
  <2>1. PICK m \in Askable(c) : Request(c)!2!(m)
    BY <1>3 DEF Request
  <2>2. m \in CmdType /\ inbox[c] \in Seq(CmdType)
    BY AskableType DEF TypeOK, SocketType
  <2>3. /\ Range(inbox'[c]) = Range(inbox[c]) \cup {m}
        /\ \A d \in Clients \ {c} : inbox'[d] = inbox[d]
    BY <2>1, <2>2, RangeAppend DEF TypeOK, SocketType
  <2>4. RestoreKnown'
    BY <2>1, <2>3 DEF TablesInv, RestoreKnown, RiskyOps
  <2> QED
    BY <1>1, <2>4, TablesIdleInv
<1>4. CASE Drop(c)
  <2> DEFINE P == DropCmds(c)
  <2>1. P \in Seq(CmdType) /\ inbox[c] \in Seq(CmdType)
    BY DropPackets DEF TypeOK, SocketType
  <2>2. \A m \in Range(P) : m.op \in {"Detach", "CtxDestroy"}
    BY DropRange
  <2>3. inbox'[c] = inbox[c] \/ inbox'[c] = inbox[c] \o P
    BY <1>4 DEF Drop, TypeOK, SocketType
  <2> HIDE DEF P
  <2>4. Range(inbox'[c]) \subseteq Range(inbox[c]) \cup Range(P)
    BY <2>1, <2>3, RangeConcat
  <2>5. RestoreKnown'
    BY <1>4, <2>2, <2>4 DEF Drop, TablesInv, RestoreKnown, TypeOK, SocketType
  <2> QED
    BY <1>1, <2>5, TablesIdleInv
<1> QED
  BY <1>2, <1>3, <1>4

\* The server's steps send nothing to itself.
LEMMA ServerNothingSent ==
  ASSUME TypeOK, Run \/ (\E f \in Ids : FenceHandler(f)) PROVE NothingSent
<1>1. CASE Wait \/ CreateFence \/ FinishSubmit \/ (\E e \in events : Accept(e))
              \/ (\E f \in Ids : FenceHandler(f))
  BY <1>1 DEF Wait, CreateFence, FinishSubmit, Accept, FenceHandler, NothingSent, libVars
<1>2. ASSUME NEW e \in events, NEW c \in Clients,
             Process(c, e) \/ \E op \in FencedOps : CmdSubmit3dFence(c, e, op)
      PROVE  NothingSent
  <2>1. UNCHANGED faults
    BY <1>2 DEF Process, NoData, Query, CtxCreate, CtxDestroy, CtxAttachResource, CtxDetachResource,
         ResourceCreate3d, ResourceCreateBlob, TransferHost3d, CmdSubmit3d, CmdSubmitInFences, SnapshotSave,
         SnapshotRestore, CmdSubmit3dFence, Fail, libVars
  <2>2. inbox' = inbox \/ \E op : Reads(c, e, op)
    BY <1>2 DEF Process, NoData, Query, CtxCreate, CtxDestroy, CtxAttachResource, CtxDetachResource,
         ResourceCreate3d, ResourceCreateBlob, TransferHost3d, CmdSubmit3d, CmdSubmitInFences, SnapshotSave,
         SnapshotRestore, CmdSubmit3dFence, Fail
  <2> QED
    BY <2>1, <2>2, ReadsTail DEF NothingSent
<1> QED
  BY <1>1, <1>2 DEF Run

\* New resources are in both tables, under an id that was free in Rutabaga's.
LEMMA CreateTables ==
  ASSUME TypeOK, TablesInv, RestoreKnown', NEW c \in Clients, NEW e,
         ResourceCreate3d(c, e) \/ ResourceCreateBlob(c, e)
  PROVE  TablesInv'
<1>1. CASE server' # "run" \* refused
  BY <1>1 DEF TablesInv, BackingMapped, BackedKept, TablesAgree
<1>2. CASE server' = "run"
  <2> DEFINE r == allocate_id
  <2>1. /\ r \notin rutabaga.res /\ server = "run" /\ UNCHANGED faults
        /\ \E x : \E b \in BOOLEAN :
              /\ resources' = NewResource(r, x, b)
              /\ rutabaga'.res = rutabaga.res \cup {r}
              /\ rutabaga'.backed = IF b THEN rutabaga.backed \cup {r} ELSE rutabaga.backed
    <3>1. CASE ResourceCreate3d(c, e)
      <4>1. /\ resources' = NewResource(r, {}, TRUE)
            /\ rutabaga' = [rutabaga EXCEPT !.res = @ \cup {r}, !.backed = @ \cup {r}]
            /\ r \notin rutabaga.res /\ server = "run" /\ UNCHANGED faults
        BY <1>2, <3>1 DEF ResourceCreate3d, Refused, ComponentFails, Reads, Idle, libVars
      <4> HIDE DEF r
      <4> QED
        BY <4>1 DEF TypeOK, GpuType
    <3>2. CASE ResourceCreateBlob(c, e)
      <4>1. /\ resources' = NewResource(r, {HeadOf(c).ctx}, FALSE)
            /\ rutabaga' = [rutabaga EXCEPT !.res = @ \cup {r}]
            /\ r \notin rutabaga.res /\ server = "run" /\ UNCHANGED faults
        BY <1>2, <3>2 DEF ResourceCreateBlob, Refused, ComponentFails, Reads, Idle, libVars
      <4> HIDE DEF r
      <4> QED
        BY <4>1 DEF TypeOK, GpuType
    <3> QED
      BY <3>1, <3>2
  <2>2. PICK x : \E b \in BOOLEAN :
              /\ resources' = NewResource(r, x, b)
              /\ rutabaga'.res = rutabaga.res \cup {r}
              /\ rutabaga'.backed = IF b THEN rutabaga.backed \cup {r} ELSE rutabaga.backed
    BY <2>1
  <2>3. PICK b \in BOOLEAN :
              /\ resources' = NewResource(r, x, b)
              /\ rutabaga'.res = rutabaga.res \cup {r}
              /\ rutabaga'.backed = IF b THEN rutabaga.backed \cup {r} ELSE rutabaga.backed
    BY <2>2
  <2> HIDE DEF r
  <2>4. /\ DOMAIN resources' = DOMAIN resources \cup {r} /\ resources'[r].mapping = b
        /\ \A y \in DOMAIN resources \ {r} : resources'[y] = resources[y]
    BY <2>3 DEF NewResource
  <2>5. BackingMapped'
    BY <2>1, <2>3, <2>4 DEF TablesInv, BackingMapped, BackedKept
  <2>6. BackedKept' /\ TablesAgree'
    BY <2>1, <2>3, <2>4 DEF TablesInv, BackedKept, TablesAgree
  <2> QED
    BY <2>5, <2>6 DEF TablesInv
<1> QED
  BY <1>1, <1>2

\* The last context takes the resource out of both, and its backing with it.
LEMMA DetachTables ==
  ASSUME TypeOK, TablesInv, RestoreKnown', NEW c \in Clients, NEW e, CtxDetachResource(c, e)
  PROVE  TablesInv'
<1>1. CASE server' # "run"
  BY <1>1 DEF TablesInv, BackingMapped, BackedKept, TablesAgree
<1>2. CASE server' = "run"
  <2> DEFINE r == HeadOf(c).res
             x == resources[r].ctxs \ {HeadOf(c).ctx}
  <2>1. server = "run" /\ UNCHANGED faults /\ r \in DOMAIN resources /\ Release(r, x)
    BY <1>2 DEF CtxDetachResource, Refused, Reads, Idle, libVars
  <2> HIDE DEF r, x
  <2>2. CASE x # {}
    <3>1. /\ DOMAIN resources' = DOMAIN resources /\ rutabaga' = rutabaga
          /\ \A y \in DOMAIN resources : resources'[y].mapping = resources[y].mapping
      BY <2>1, <2>2 DEF Release, TypeOK, GpuType
    <3> QED
      BY <2>1, <3>1 DEF TablesInv, BackingMapped, BackedKept, TablesAgree
  <2>3. CASE x = {}
    <3>1. /\ DOMAIN resources' = DOMAIN resources \ {r}
          /\ \A y \in DOMAIN resources' : resources'[y] = resources[y]
          /\ rutabaga'.res = rutabaga.res \ {r}
          /\ rutabaga'.backed = IF resources[r].mapping THEN rutabaga.backed \ {r} ELSE rutabaga.backed
      BY <2>1, <2>3 DEF Release, Restrict, TypeOK, GpuType
    <3>2. r \notin rutabaga'.backed
      BY <2>1, <3>1 DEF TablesInv, BackingMapped
    <3> QED
      BY <2>1, <3>1, <3>2 DEF TablesInv, BackingMapped, BackedKept, TablesAgree
  <2> QED
    BY <2>2, <2>3
<1> QED
  BY <1>1, <1>2

LEMMA RestoreTables ==
  ASSUME TypeOK, TablesInv, RestoreKnown', NEW c \in Clients, NEW e, SnapshotRestore(c, e)
  PROVE  TablesInv'
<1>1. "Restore" \in faults'
  BY ReadsTail DEF SnapshotRestore, TablesInv, RestoreKnown, libVars
<1>2. CASE server' # "run"
  BY <1>2 DEF TablesInv, BackingMapped, BackedKept, TablesAgree
<1>3. CASE server' = "run"
  <2>1. rutabaga'.backed = {}
    BY <1>3 DEF SnapshotRestore, Refused, ComponentFails, TypeOK, GpuType
  <2> QED
    BY <1>1, <2>1 DEF TablesInv, BackingMapped, BackedKept, TablesAgree
<1> QED
  BY <1>2, <1>3

LEMMA ServerTables ==
  ASSUME TypeOK, TablesInv, Run \/ (\E f \in Ids : FenceHandler(f)) PROVE TablesInv'
<1>1. RestoreKnown'
  BY ServerNothingSent, NothingSentKnown DEF TablesInv
<1>2. ASSUME Wait \/ CreateFence \/ FinishSubmit \/ (\E e \in events : Accept(e))
              \/ (\E f \in Ids : FenceHandler(f))
      PROVE  TablesIdle
  BY <1>2 DEF Wait, CreateFence, FinishSubmit, Accept, FenceHandler, TablesIdle, gpuVars, libVars, Idle,
              TypeOK, GpuType
<1>3. ASSUME NEW e \in events, NEW c \in Clients,
             \/ NoData(c, e) \/ Query(c, e) \/ CtxAttachResource(c, e) \/ TransferHost3d(c, e)
             \/ CmdSubmit3d(c, e) \/ CmdSubmitInFences(c, e) \/ SnapshotSave(c, e) \/ CtxCreate(c, e) \/ CtxDestroy(c, e)
             \/ \E op \in FencedOps : CmdSubmit3dFence(c, e, op)
      PROVE  TablesIdle
  <2>1. server = "run" /\ UNCHANGED <<resources, faults>>
    BY <1>3 DEF NoData, Query, CtxCreate, CtxDestroy, CtxAttachResource, TransferHost3d, CmdSubmit3d, CmdSubmitInFences,
         SnapshotSave, CmdSubmit3dFence, Reads, Idle, Fail, gpuVars, libVars
  <2>2. \/ rutabaga' = rutabaga \/ rutabaga' = [rutabaga EXCEPT !.ctx = @ \cup {allocate_id}]
        \/ rutabaga' = [rutabaga EXCEPT !.ctx = @ \ {HeadOf(c).ctx}]
    BY <1>3 DEF NoData, Query, CtxCreate, CtxDestroy, CtxAttachResource, TransferHost3d, CmdSubmit3d, CmdSubmitInFences,
         SnapshotSave, CmdSubmit3dFence, Fail, gpuVars
  <2> QED
    BY <2>1, <2>2 DEF TablesIdle, TypeOK, GpuType
<1> QED
  BY <1>1, <1>2, <1>3, TablesIdleInv, CreateTables, DetachTables, RestoreTables DEF Run, Process

LEMMA NextTables == TypeOK /\ TablesInv /\ [Next]_vars => TablesInv'
<1> SUFFICES ASSUME TypeOK, TablesInv, [Next]_vars PROVE TablesInv'
  OBVIOUS
<1>1. CASE UNCHANGED vars
  <2>1. TablesIdle /\ NothingSent
    BY <1>1 DEF vars, gpuVars, libVars, TablesIdle, NothingSent
  <2> QED
    BY <2>1, NothingSentKnown, TablesIdleInv DEF TablesInv
<1> QED
  BY <1>1, ServerTables, ClientsTables, RestartTables DEF Next

LEMMA TablesInvariance == Spec => []TablesInv
  BY InitTables, NextTables, TypeCorrect, PTL DEF Spec

\* No iovec of Rutabaga outlives the mapping it points into.
THEOREM BackingsMapped == Spec => []BackingMapped
<1>1. TablesInv => BackingMapped
  BY DEF TablesInv
<1> QED
  BY <1>1, TablesInvariance, PTL

\* Until a restore, the two tables of resources have the same entries.
THEOREM TablesAlwaysAgree == Spec => []TablesAgree
<1>1. TablesInv => TablesAgree
  BY DEF TablesInv
<1> QED
  BY <1>1, TablesInvariance, PTL

-----------------------------------------------------------------------------
(* Connections                                                             *)

\* No connection has two clients.
OneClient == \A c, d \in Clients : conn[c] = conn[d] /\ conn[c] # 0 => c = d

\* An event that says so is about a client that has closed its socket.
Gone(e) == e.hung_up => \A c \in Clients : conn[c] = e.id => peer[c] = "closed"

\* Events of a batch are about different connections, none of which goes
\* before its event is handled.
EventsFit ==
    /\ \A e \in events : e.id <= connection_id /\ Gone(e) /\ (e.id # 0 => e.id \in connections)
    /\ \A e1, e2 \in events : e1.id = e2.id => e1 = e2
    /\ submit.step # "none" => submit.event \in events

\* A client that is there is in the backlog or has its connection.
OpenServed ==
    \A c \in Clients : peer[c] = "open" => c \in backlog \/ (conn[c] # 0 /\ conn[c] \in connections)

ConnInv == connections = wait_ctx /\ OneClient /\ EventsFit /\ OpenServed

\* A step that leaves the connections alone; a client may close its socket.
ConnIdle ==
    /\ UNCHANGED <<connVars, conn>> /\ backlog \subseteq backlog'
    /\ \A c \in Clients : peer[c] = "closed" => peer'[c] = "closed"
    /\ \A c \in Clients : peer'[c] = "open" => peer[c] = "open" \/ c \in backlog'
    /\ submit'.step # "none" => submit'.event \in events

LEMMA ConnIdleInv == ASSUME TypeOK, ConnInv, ConnIdle PROVE ConnInv'
  BY DEF ConnIdle, ConnInv, connVars, OneClient, EventsFit, Gone, OpenServed

LEMMA InitConn == Init => ConnInv
  BY DEF Init, ConnInv, OneClient, EventsFit, Gone, OpenServed, NoSubmit

LEMMA RestartConn == ASSUME Restart PROVE ConnInv'
  BY DEF Restart, Started, ConnInv, OneClient, EventsFit, Gone, OpenServed, NoSubmit

\* What a command does to the connections: its own goes if the peer is gone.
LEMMA ProcessedConn ==
  ASSUME TypeOK, ConnInv, NEW e \in events, Processed(e), UNCHANGED <<conn, peer, backlog>>,
         submit'.step = "none"
  PROVE  ConnInv'
<1>1. connections' = wait_ctx' /\ OneClient'
  BY DEF Processed, ConnInv, OneClient
<1>2. EventsFit'
  <2>1. ASSUME NEW x \in events'
        PROVE  x.id <= connection_id' /\ Gone(x)' /\ (x.id # 0 => x.id \in connections')
    BY <2>1 DEF Processed, ConnInv, EventsFit, Gone
  <2>2. \A e1, e2 \in events' : e1.id = e2.id => e1 = e2
    BY DEF Processed, ConnInv, EventsFit
  <2> QED
    BY <2>1, <2>2 DEF EventsFit
<1>3. OpenServed'
  BY DEF Processed, ConnInv, EventsFit, Gone, OpenServed, TypeOK, SocketType
<1> QED
  BY <1>1, <1>2, <1>3 DEF ConnInv

\* A new connection has an id that no event is about.
LEMMA AcceptConn == ASSUME TypeOK, ConnInv, NEW e \in events, Accept(e) PROVE ConnInv'
<1> DEFINE n == connection_id + 1
<1>1. PICK c \in backlog : Accept(e)!2!(c)
  BY DEF Accept
<1>2. /\ n \in Nat /\ n # 0 /\ \A d \in Clients : conn[d] < n
      /\ c \in Clients /\ conn' = [conn EXCEPT ![c] = n]
      /\ connection_id' = n /\ connections' = connections \cup {n}
      /\ wait_ctx' = wait_ctx \cup {n} /\ backlog' = backlog \ {c}
      /\ events' = events \ {e} /\ peer' = peer /\ submit' = submit /\ submit.step = "none"
  <2>1. n \in Nat /\ n # 0 /\ \A d \in Clients : conn[d] < n
    BY DEF TypeOK, ServerType, SocketType
  <2>2. c \in Clients
    BY DEF TypeOK, SocketType
  <2>3. /\ conn' = [conn EXCEPT ![c] = n] /\ connection_id' = n
        /\ connections' = connections \cup {n} /\ wait_ctx' = wait_ctx \cup {n}
        /\ backlog' = backlog \ {c}
    BY <1>1
  <2> QED
    BY <2>1, <2>2, <2>3 DEF Accept, Idle
<1>3. \A x \in events : x.id < n /\ x.id \in Nat
  BY DEF ConnInv, EventsFit, TypeOK, ServerType, EventType
<1> HIDE DEF n
<1>4. connections' = wait_ctx' /\ OneClient'
  BY <1>2 DEF ConnInv, OneClient, TypeOK, SocketType
<1>5. EventsFit'
  <2>1. ASSUME NEW x \in events'
        PROVE  x.id <= connection_id' /\ Gone(x)' /\ (x.id # 0 => x.id \in connections')
    BY <1>2, <1>3 DEF ConnInv, EventsFit, Gone, TypeOK, SocketType
  <2>2. \A e1, e2 \in events' : e1.id = e2.id => e1 = e2
    BY <1>2 DEF ConnInv, EventsFit
  <2> QED
    BY <1>2, <2>1, <2>2 DEF EventsFit
<1>6. OpenServed'
  BY <1>2 DEF ConnInv, OpenServed, TypeOK, SocketType
<1> QED
  BY <1>4, <1>5, <1>6 DEF ConnInv

\* A new batch: who has hung up when it is taken.
LEMMA WaitConn == ASSUME TypeOK, ConnInv, Wait PROVE ConnInv'
<1> DEFINE E(c, h) == [id |-> conn[c], readable |-> TRUE, hung_up |-> h]
<1>1. ASSUME NEW x \in Ready
      PROVE  \/ x = [id |-> 0, readable |-> TRUE, hung_up |-> FALSE]
             \/ \E c \in Clients : conn[c] \in connections \ {0} /\ x = E(c, peer[c] = "closed")
  BY Zenon DEF Ready, ConnInv
<1>2. ASSUME NEW x \in Ready
      PROVE  x.id <= connection_id /\ Gone(x) /\ (x.id # 0 => x.id \in connections)
  <2>1. CASE x = [id |-> 0, readable |-> TRUE, hung_up |-> FALSE]
    BY <2>1 DEF Gone, TypeOK, ServerType
  <2>2. ASSUME NEW c \in Clients, conn[c] \in connections \ {0}, x = E(c, peer[c] = "closed")
        PROVE  x.id <= connection_id /\ Gone(x) /\ (x.id # 0 => x.id \in connections)
    <3>1. x.id = conn[c] /\ x.id <= connection_id
      BY <2>2 DEF TypeOK, SocketType, ServerType
    <3>2. CASE peer[c] = "closed"
      BY <2>2, <3>1, <3>2 DEF Gone, ConnInv, OneClient
    <3>3. CASE peer[c] # "closed"
      <4>1. x = E(c, FALSE)
        BY <2>2, <3>3, Zenon
      <4> QED
        BY <2>2, <3>1, <4>1 DEF Gone
    <3> QED
      BY <3>2, <3>3
  <2> QED
    BY <1>1, <2>1, <2>2
<1>3. ASSUME NEW x \in Ready, NEW y \in Ready, x.id = y.id PROVE x = y
  <2>1. CASE x.id = 0
    <3>1. ASSUME NEW z \in Ready, z.id = 0
          PROVE  z = [id |-> 0, readable |-> TRUE, hung_up |-> FALSE]
      <4>1. ASSUME NEW c \in Clients, conn[c] \in connections \ {0}, z = E(c, peer[c] = "closed")
            PROVE  FALSE
        BY <3>1, <4>1
      <4> QED
        BY <1>1, <4>1
    <3> QED
      BY <1>3, <2>1, <3>1
  <2>2. CASE x.id # 0
    <3>1. PICK c \in Clients : conn[c] \in connections \ {0} /\ x = E(c, peer[c] = "closed")
      BY <1>1, <2>2
    <3>2. PICK d \in Clients : conn[d] \in connections \ {0} /\ y = E(d, peer[d] = "closed")
      BY <1>1, <1>3, <2>2
    <3>3. conn[c] = conn[d] /\ conn[c] # 0
      BY <1>3, <3>1, <3>2
    <3>4. c = d
      BY <3>3 DEF ConnInv, OneClient
    <3> QED
      BY <3>1, <3>2, <3>4, Zenon
  <2> QED
    BY <2>1, <2>2
<1> QED
  BY <1>2, <1>3 DEF Wait, Idle, ConnInv, OneClient, EventsFit, Gone, OpenServed, sockVars

LEMMA ClientsConn ==
  ASSUME TypeOK, ConnInv, NEW c \in Clients,
         Connect(c) \/ Request(c) \/ ReadReply(c) \/ Drop(c) \/ Close(c) \/ Crash(c)
  PROVE  ConnInv'
<1>1. ConnIdle
  BY DEF Connect, Request, ReadReply, Drop, Close, Crash, ConnIdle, sockVars, TypeOK, SocketType,
         ConnInv, EventsFit
<1> QED
  BY <1>1, ConnIdleInv

LEMMA ServerConn == ASSUME TypeOK, ConnInv, Run \/ (\E f \in Ids : FenceHandler(f)) PROVE ConnInv'
<1>1. ASSUME CreateFence \/ (\E f \in Ids : FenceHandler(f)) PROVE ConnIdle
  BY <1>1 DEF CreateFence, ComponentFails, FenceHandler, ConnIdle, connVars, sockVars, ConnInv, EventsFit, TypeOK, ServerType,
              SubmitType, NoSubmit
<1>2. ASSUME NEW e \in events, NEW c \in Clients, NEW op \in FencedOps, CmdSubmit3dFence(c, e, op)
      PROVE  ConnIdle
  BY <1>2 DEF CmdSubmit3dFence, Reads, Idle, Refused, ComponentFails, connVars, ConnIdle, sockVars
<1>3. ASSUME FinishSubmit PROVE ConnInv'
  <2>1. submit.event \in events /\ submit'.step = "none"
    BY <1>3 DEF FinishSubmit, NoSubmit, ConnInv, EventsFit
  <2>2. UNCHANGED <<conn, peer, backlog>>
    BY <1>3 DEF FinishSubmit, sockVars
  <2>3. ASSUME Refused PROVE ConnIdle
    BY <2>1, <2>2, <2>3 DEF Refused, ConnIdle
  <2>4. Refused \/ Processed(submit.event)
    BY <1>3 DEF FinishSubmit
  <2> QED
    BY <2>1, <2>2, <2>3, <2>4, ProcessedConn, ConnIdleInv
<1>4. ASSUME NEW e \in events, NEW c \in Clients, Process(c, e) PROVE ConnInv'
  <2>1. UNCHANGED <<conn, peer, backlog, submit>> /\ submit.step = "none"
    BY <1>4 DEF Process, NoData, Query, CtxCreate, CtxDestroy, CtxAttachResource, CtxDetachResource,
         ResourceCreate3d, ResourceCreateBlob, TransferHost3d, CmdSubmit3d, CmdSubmitInFences, SnapshotSave,
         SnapshotRestore, Fail, Reads, Idle, sockVars
  <2>2. ASSUME UNCHANGED connVars PROVE ConnIdle
    BY <2>1, <2>2 DEF ConnIdle
  <2>3. ASSUME NoData(c, e) PROVE UNCHANGED connVars \/ (UNCHANGED <<connection_id, connections, wait_ctx>> /\ events' = events \ {e})
    BY <2>3 DEF NoData, Fail, connVars
  <2>4. ASSUME UNCHANGED <<connection_id, connections, wait_ctx>>, events' = events \ {e} PROVE ConnInv'
    BY <2>1, <2>4 DEF ConnInv, OneClient, EventsFit, Gone, OpenServed
  <2>5. ASSUME ~NoData(c, e) PROVE UNCHANGED connVars \/ Processed(e)
    BY <1>4, <2>5 DEF Process, Query, CtxCreate, CtxDestroy, CtxAttachResource, CtxDetachResource,
         ResourceCreate3d, ResourceCreateBlob, TransferHost3d, CmdSubmit3d, CmdSubmitInFences, SnapshotSave,
         SnapshotRestore, Refused, ComponentFails
  <2> QED
    BY <2>1, <2>2, <2>3, <2>4, <2>5, ConnIdleInv, ProcessedConn
<1> QED
  BY <1>1, <1>2, <1>3, <1>4, ConnIdleInv, AcceptConn, WaitConn DEF Run

LEMMA NextConn == TypeOK /\ ConnInv /\ [Next]_vars => ConnInv'
<1> SUFFICES ASSUME TypeOK, ConnInv, [Next]_vars PROVE ConnInv'
  OBVIOUS
<1>1. CASE UNCHANGED vars
  BY <1>1, ConnIdleInv DEF vars, sockVars, ConnIdle, ConnInv, EventsFit
<1> QED
  BY <1>1, ServerConn, ClientsConn, RestartConn DEF Next

LEMMA ConnInvariance == Spec => []ConnInv
  BY InitConn, NextConn, TypeCorrect, PTL DEF Spec

\* A client that is there keeps its connection, whatever others do.
THEOREM ConnectionsKept == Spec => []ConnectionKept
<1>1. ConnInv => ConnectionKept
  BY DEF ConnInv, OpenServed, ConnectionKept
<1> QED
  BY <1>1, ConnInvariance, PTL

-----------------------------------------------------------------------------
(* The server does not end without a cause: as long as no client dies or   *)
(* asks for one of the risky operations, every command that reaches the    *)
(* server is one it can carry out, and every answer has a reader.  First   *)
(* the inductive invariant.                                                *)

Msgs(c) == Range(inbox[c]) \cup Range(outbox[c])

\* The contexts and resources that c knows or has spoken of.
Ctxs(c) == ({ctx[c]} \cup {m.ctx : m \in Msgs(c)}) \ {0}
Held(c) == (bos[c] \cup {m.res : m \in Msgs(c)}) \ {0}

Submitting(c) == submit.step # "none" /\ submit.c = c

\* Commands that name a context.
CtxOps == {"Create3d", "CreateBlob", "Detach", "Transfer", "Submit", "CtxDestroy"} \cup FencedOps

\* One answer is outstanding at a time, and a client that leaves waits for none.
Polite(c) ==
    /\ ~broken[c]
    /\ peer[c] = "closed" => waiting[c] = "drop"
    /\ waiting[c] = "drop" => ctx[c] = 0
    /\ Submitting(c) => waiting[c] = "reply" /\ outbox[c] = <<>>
    /\ outbox[c] # <<>> => waiting[c] = "reply" /\ Len(outbox[c]) = 1
    /\ \A m \in Range(inbox[c]) :
        /\ m.op \in ReplyOps => waiting[c] = "reply" /\ outbox[c] = <<>> /\ ~Submitting(c)
        /\ m.op = "CtxDestroy" => waiting[c] = "drop"
        /\ m.op \notin RiskyOps

\* Nothing follows a command that has an answer or the end of the context, and
\* a resource is not mentioned after it was detached.
Tidy(s) ==
    \A i, j \in 1..Len(s) : i < j =>
        /\ s[i].op \notin ReplyOps \cup {"CtxDestroy"}
        /\ s[i].op = "Detach" => s[j].res # s[i].res

\* Commands name what they need; what is being detached is no longer held.
Named(c) ==
    /\ 0 \notin bos[c]
    /\ \A n \in Range(outbox[c]) : n.op \in {"Create3d", "CreateBlob"} => n.res # 0
    /\ \A m \in Range(inbox[c]) :
        /\ m.op \in CtxOps => m.ctx # 0
        /\ m.op \in {"Detach", "Transfer"} => m.res # 0
        /\ m.op = "Detach" => m.res \notin bos[c] /\ \A n \in Range(outbox[c]) : n.res # m.res

ClientCalm(c) == Polite(c) /\ Tidy(inbox[c]) /\ Named(c)

\* What a client knows is in the tables, and only that client knows of it.
Owned ==
    /\ \A c \in Clients : Ctxs(c) \subseteq rutabaga.ctx /\ Held(c) \subseteq rutabaga.res
    /\ \A c, d \in Clients : c # d => Ctxs(c) \cap Ctxs(d) = {} /\ Held(c) \cap Held(d) = {}
    /\ rutabaga.ctx \cup rutabaga.res \subseteq 1..id_allocator
    /\ DOMAIN resources = rutabaga.res

\* The core keeps the handle of a shareable fence until it is exported.
ShareOk ==
    submit.step # "none" =>
        /\ submit.op # "SubmitShare"
        /\ submit.step = "reply" /\ submit.op = "SubmitShareRing" => submit.id \in rutabaga.shareable

Calm == server = "run" /\ (\A c \in Clients : ClientCalm(c)) /\ Owned /\ ShareOk

Quiet == faults = {} /\ server # "failed" => Calm

-----------------------------------------------------------------------------
(* Tidy sequences                                                          *)

LEMMA TidyTail ==
  ASSUME NEW s \in Seq(CmdType), s # <<>>, Tidy(s)
  PROVE  /\ Tidy(Tail(s))
         /\ \A m \in Range(Tail(s)) : /\ Head(s).op \notin ReplyOps \cup {"CtxDestroy"}
                                      /\ Head(s).op = "Detach" => m.res # Head(s).res
<1>1. /\ Len(Tail(s)) = Len(s) - 1 /\ Len(s) \in Nat \ {0} /\ Head(s) = s[1]
      /\ \A i \in 1..Len(Tail(s)) : i + 1 \in 1..Len(s) /\ Tail(s)[i] = s[i + 1] /\ 1 < i + 1
  OBVIOUS
<1>2. Tidy(Tail(s))
  BY <1>1 DEF Tidy
<1>3. ASSUME NEW m \in Range(Tail(s))
      PROVE  /\ Head(s).op \notin ReplyOps \cup {"CtxDestroy"}
             /\ Head(s).op = "Detach" => m.res # Head(s).res
  <2>1. PICK i \in 1..Len(Tail(s)) : m = Tail(s)[i]
    BY DEF Range
  <2> QED
    BY <1>1, <2>1 DEF Tidy
<1> QED
  BY <1>2, <1>3

LEMMA TidyAppend ==
  ASSUME NEW s \in Seq(CmdType), NEW m \in CmdType, Tidy(s),
         \A n \in Range(s) : /\ n.op \notin ReplyOps \cup {"CtxDestroy"}
                             /\ n.op = "Detach" => m.res # n.res
  PROVE  Tidy(Append(s, m))
<1> DEFINE a == Append(s, m)
<1>1. /\ Len(a) = Len(s) + 1 /\ Len(s) \in Nat /\ a[Len(s) + 1] = m
      /\ \A i \in 1..Len(s) : a[i] = s[i] /\ s[i] \in Range(s)
  BY DEF Range
<1> HIDE DEF a
<1>2. Tidy(a)
  <2> SUFFICES ASSUME NEW i \in 1..Len(a), NEW j \in 1..Len(a), i < j
               PROVE  /\ a[i].op \notin ReplyOps \cup {"CtxDestroy"}
                      /\ a[i].op = "Detach" => a[j].res # a[i].res
    BY DEF Tidy
  <2>1. i \in 1..Len(s) /\ (j \in 1..Len(s) \/ j = Len(s) + 1)
    BY <1>1
  <2> QED
    BY <1>1, <2>1 DEF Tidy
<1> QED
  BY <1>2 DEF a

LEMMA TidyConcat ==
  ASSUME NEW s \in Seq(CmdType), NEW t \in Seq(CmdType), Tidy(s), Tidy(t),
         \A n \in Range(s), m \in Range(t) : /\ n.op \notin ReplyOps \cup {"CtxDestroy"}
                                             /\ n.op = "Detach" => m.res # n.res
  PROVE  Tidy(s \o t)
<1> DEFINE a == s \o t
<1>1. /\ Len(a) = Len(s) + Len(t) /\ Len(s) \in Nat /\ Len(t) \in Nat
      /\ \A i \in 1..Len(s) : a[i] = s[i] /\ s[i] \in Range(s)
      /\ \A i \in 1..Len(a) : i > Len(s) => /\ i - Len(s) \in 1..Len(t) /\ a[i] = t[i - Len(s)]
                                            /\ t[i - Len(s)] \in Range(t)
  BY DEF Range
<1> HIDE DEF a
<1>2. Tidy(a)
  <2> SUFFICES ASSUME NEW i \in 1..Len(a), NEW j \in 1..Len(a), i < j
               PROVE  /\ a[i].op \notin ReplyOps \cup {"CtxDestroy"}
                      /\ a[i].op = "Detach" => a[j].res # a[i].res
    BY DEF Tidy
  <2>1. CASE j <= Len(s)
    BY <1>1, <2>1 DEF Tidy
  <2>2. CASE i <= Len(s) /\ j > Len(s)
    BY <1>1, <2>2
  <2>3. CASE i > Len(s)
    <3>1. i - Len(s) < j - Len(s) /\ j > Len(s)
      BY <1>1, <2>3
    <3> QED
      BY <1>1, <2>3, <3>1 DEF Tidy
  <2> QED
    BY <1>1, <2>1, <2>2, <2>3
<1> QED
  BY <1>2 DEF a

\* What a client says when it goes is tidy.
LEMMA TidyDrop ==
  ASSUME TypeOK, NEW c \in Clients, 0 \notin bos[c] PROVE Tidy(DropCmds(c))
<1> DEFINE n == Cardinality(bos[c])
           P == DropCmds(c)
<1>1. /\ n \in Nat /\ Len(P) = n + 1
      /\ P[n + 1] = Cmd("CtxDestroy", ctx[c], 0)
      /\ \A i \in 1..n : \E r \in bos[c] : P[i] = Cmd("Detach", ctx[c], r)
      /\ \A i, j \in 1..n : i # j => P[i] # P[j]
  BY DropPackets
<1> HIDE DEF P, n
<1>2. Tidy(P)
  <2> SUFFICES ASSUME NEW i \in 1..Len(P), NEW j \in 1..Len(P), i < j
               PROVE  /\ P[i].op \notin ReplyOps \cup {"CtxDestroy"}
                      /\ P[i].op = "Detach" => P[j].res # P[i].res
    BY DEF Tidy
  <2>1. i \in 1..n /\ (j = n + 1 \/ j \in 1..n)
    BY <1>1
  <2>2. PICK r \in bos[c] : P[i] = Cmd("Detach", ctx[c], r)
    BY <1>1, <2>1
  <2>3. P[i].op = "Detach" /\ P[i].res = r /\ r # 0
    BY <2>2 DEF Cmd
  <2>4. P[j].res # r
    <3>1. CASE j = n + 1
      BY <1>1, <2>3, <3>1 DEF Cmd
    <3>2. CASE j \in 1..n
      <4>1. PICK q \in bos[c] : P[j] = Cmd("Detach", ctx[c], q)
        BY <1>1, <3>2
      <4>2. P[i] # P[j]
        BY <1>1, <2>1, <3>2
      <4> QED
        BY <2>2, <4>1, <4>2 DEF Cmd
    <3> QED
      BY <2>1, <3>1, <3>2
  <2> QED
    BY <2>3, <2>4 DEF ReplyOps, FencedOps
<1> QED
  BY <1>2 DEF P

-----------------------------------------------------------------------------
(* One client's step                                                       *)

\* A step that does not concern d.
SameFor(d) ==
    /\ inbox'[d] = inbox[d] /\ outbox'[d] = outbox[d] /\ waiting'[d] = waiting[d]
    /\ ctx'[d] = ctx[d] /\ bos'[d] = bos[d] /\ peer'[d] = peer[d] /\ broken'[d] = broken[d]
    /\ (submit'.step # "none" /\ submit'.c = d) => Submitting(d)

LEMMA SameForKeeps ==
  ASSUME NEW d \in Clients, SameFor(d), ClientCalm(d)
  PROVE  ClientCalm(d)' /\ Ctxs(d)' = Ctxs(d) /\ Held(d)' = Held(d)
<1>1. Polite(d)'
  BY DEF SameFor, ClientCalm, Polite, Submitting
<1>2. Tidy(inbox[d])' /\ Named(d)'
  BY DEF SameFor, ClientCalm, Tidy, Named
<1>3. Ctxs(d)' = Ctxs(d) /\ Held(d)' = Held(d)
  BY DEF SameFor, Ctxs, Held, Msgs
<1> QED
  BY <1>1, <1>2, <1>3 DEF ClientCalm

\* A step of, or for, c: what it takes from the tables was c's, and what c
\* learns of is c's or was not in the tables.
LEMMA CalmStep ==
  ASSUME Calm, NEW c \in Clients, \A d \in Clients \ {c} : SameFor(d),
         server' = "run", ClientCalm(c)', ShareOk',
         Ctxs(c)' \subseteq rutabaga'.ctx, Ctxs(c)' \cap rutabaga.ctx \subseteq Ctxs(c),
         rutabaga.ctx \ rutabaga'.ctx \subseteq Ctxs(c),
         Held(c)' \subseteq rutabaga'.res, Held(c)' \cap rutabaga.res \subseteq Held(c),
         rutabaga.res \ rutabaga'.res \subseteq Held(c),
         rutabaga'.ctx \cup rutabaga'.res \subseteq 1..id_allocator', DOMAIN resources' = rutabaga'.res
  PROVE  Calm'
<1>1. \A d \in Clients \ {c} : ClientCalm(d)' /\ Ctxs(d)' = Ctxs(d) /\ Held(d)' = Held(d)
  BY SameForKeeps DEF Calm
<1>2. \A d \in Clients : ClientCalm(d)'
  BY <1>1
<1>3. \A d \in Clients \ {c} : /\ Ctxs(d)' \subseteq rutabaga'.ctx /\ Held(d)' \subseteq rutabaga'.res
                               /\ Ctxs(d)' \cap Ctxs(c)' = {} /\ Held(d)' \cap Held(c)' = {}
  BY <1>1 DEF Calm, Owned
<1>4. \A a, d \in Clients \ {c} : a # d => Ctxs(a)' \cap Ctxs(d)' = {} /\ Held(a)' \cap Held(d)' = {}
  BY <1>1 DEF Calm, Owned
<1>5. Owned'
  BY <1>3, <1>4 DEF Owned
<1> QED
  BY <1>2, <1>5 DEF Calm

\* The same, when the tables stay and c learns of nothing.
LEMMA CalmOwn ==
  ASSUME TypeOK, Calm, NEW c \in Clients, \A d \in Clients \ {c} : SameFor(d),
         server' = "run", ClientCalm(c)', ShareOk', Ctxs(c)' \subseteq Ctxs(c), Held(c)' \subseteq Held(c),
         rutabaga'.ctx = rutabaga.ctx, rutabaga'.res = rutabaga.res, UNCHANGED resources,
         id_allocator' \in {id_allocator, id_allocator + 1}
  PROVE  Calm'
<1>1. rutabaga'.ctx \cup rutabaga'.res \subseteq 1..id_allocator'
  BY DEF Calm, Owned, TypeOK, GpuType, Ids
<1>2. Ctxs(c)' \subseteq rutabaga'.ctx /\ Held(c)' \subseteq rutabaga'.res /\ DOMAIN resources' = rutabaga'.res
  BY DEF Calm, Owned
<1> QED
  BY <1>1, <1>2, CalmStep

\* A step that concerns no client.
LEMMA CalmIdle ==
  ASSUME Calm, \A d \in Clients : SameFor(d), server' = "run", ShareOk',
         rutabaga'.ctx = rutabaga.ctx, rutabaga'.res = rutabaga.res, UNCHANGED <<resources, id_allocator>>
  PROVE  Calm'
<1>1. \A d \in Clients : ClientCalm(d)' /\ Ctxs(d)' = Ctxs(d) /\ Held(d)' = Held(d)
  BY SameForKeeps DEF Calm
<1>2. Owned'
  BY <1>1 DEF Calm, Owned
<1> QED
  BY <1>1, <1>2 DEF Calm

-----------------------------------------------------------------------------
(* The clients                                                             *)

\* A client's step leaves the server's state alone.
ClientIdle(c) ==
    /\ UNCHANGED <<server, submit, gpuVars>>
    /\ \A d \in Clients \ {c} : SameFor(d)

LEMMA ClientCalmStep ==
  ASSUME TypeOK, Calm, NEW c \in Clients, ClientIdle(c), ClientCalm(c)',
         Ctxs(c)' \subseteq Ctxs(c), Held(c)' \subseteq Held(c)
  PROVE  Calm'
<1>1. ShareOk' /\ server' = "run"
  BY DEF Calm, ShareOk, ClientIdle, gpuVars
<1>2. rutabaga' = rutabaga /\ UNCHANGED <<resources, id_allocator>>
  BY DEF ClientIdle, gpuVars
<1> QED
  BY <1>1, <1>2, CalmOwn DEF ClientIdle

LEMMA ClientsIdle ==
  ASSUME TypeOK, NEW c \in Clients,
         Connect(c) \/ Request(c) \/ ReadReply(c) \/ Drop(c) \/ Close(c)
  PROVE  ClientIdle(c)
  BY DEF Connect, Request, ReadReply, Drop, Close, ClientIdle, SameFor, Submitting, sockVars, libVars,
         TypeOK, SocketType, ClientType

\* A connection is made or, by a client that has taken its leave, closed.
LEMMA ConnectCalm ==
  ASSUME TypeOK, Calm, NEW c \in Clients, Connect(c) \/ Close(c) PROVE Calm'
<1>1. ClientCalm(c)
  BY DEF Calm
<1>2. /\ UNCHANGED <<inbox, outbox, waiting, ctx, bos, broken, submit>>
      /\ peer'[c] = "closed" => waiting[c] = "drop"
  BY DEF Connect, Close, libVars, TypeOK, SocketType
<1>3. Polite(c)'
  BY <1>1, <1>2 DEF ClientCalm, Polite, Submitting
<1>4. Tidy(inbox[c])' /\ Named(c)' /\ Ctxs(c)' = Ctxs(c) /\ Held(c)' = Held(c)
  BY <1>1, <1>2 DEF ClientCalm, Tidy, Named, Ctxs, Held, Msgs
<1> QED
  BY <1>3, <1>4, ClientsIdle, ClientCalmStep DEF ClientCalm

\* What c can ask for while it is calm.
LEMMA AskableFacts ==
  ASSUME NEW c \in Clients, NEW m \in Askable(c)
  PROVE  /\ m.op \in RequestOps /\ m.ctx \in {0, ctx[c]}
         /\ m.op \in CtxOps => m.ctx # 0
         /\ m.op \in {"Detach", "Transfer"} => m.res \in bos[c]
         /\ m.op \notin {"Detach", "Transfer", "Attach"} => m.res = 0
  BY KumquatAssumption DEF Askable, CtxOps, Cmd, RequestOps, FencedOps

LEMMA RequestCalm ==
  ASSUME TypeOK, Calm, NEW c \in Clients, Request(c), faults' = {} PROVE Calm'
<1>1. PICK m \in Askable(c) : Request(c)!2!(m)
  BY DEF Request
<1>2. /\ m \in CmdType /\ m.op \in RequestOps /\ m.ctx \in {0, ctx[c]}
      /\ m.op \in CtxOps => m.ctx # 0
      /\ m.op \in {"Detach", "Transfer"} => m.res \in bos[c]
      /\ m.op \notin {"Detach", "Transfer", "Attach"} => m.res = 0
  BY AskableType, AskableFacts
<1>3. m.op \notin RiskyOps /\ m.op # "Attach"
  BY <1>1 DEF RiskyOps
<1>4. ClientCalm(c) /\ waiting[c] = "no" /\ peer[c] = "open"
  BY DEF Calm, Request
<1>5. outbox[c] = <<>> /\ ~Submitting(c)
  BY <1>4 DEF ClientCalm, Polite
<1>6. \A n \in Range(inbox[c]) : n.op \notin ReplyOps \cup {"CtxDestroy"}
  BY <1>4 DEF ClientCalm, Polite
<1>7. inbox[c] \in Seq(CmdType)
  BY DEF TypeOK, SocketType
<1>8. inbox'[c] = Append(inbox[c], m) /\ Range(inbox'[c]) = Range(inbox[c]) \cup {m}
  BY <1>1, <1>2, <1>7, RangeAppend DEF TypeOK, SocketType
<1>9. /\ waiting'[c] = IF m.op \in ReplyOps THEN "reply" ELSE IF m.op = "Transfer" THEN "event" ELSE "no"
      /\ bos'[c] = IF m.op = "Detach" THEN bos[c] \ {m.res} ELSE bos[c]
      /\ UNCHANGED <<outbox, ctx, peer, broken, submit>>
  BY <1>1, <1>3 DEF Request, sockVars, TypeOK, ClientType
<1>10. Polite(c)'
  <2>1. m.op # "CtxDestroy"
    BY <1>2 DEF RequestOps
  <2> QED
    BY <1>3, <1>4, <1>5, <1>6, <1>8, <1>9, <2>1 DEF ClientCalm, Polite, Submitting
<1>11. Tidy(inbox[c])'
  <2>1. \A n \in Range(inbox[c]) : n.op = "Detach" => m.res # n.res
    BY <1>2, <1>3, <1>4 DEF ClientCalm, Named
  <2>2. Tidy(Append(inbox[c], m))
    BY <1>2, <1>4, <1>6, <1>7, <2>1, TidyAppend DEF ClientCalm
  <2> QED
    BY <1>8, <2>2
<1>12. Named(c)'
  <2>1. Range(outbox[c]) = {}
    BY <1>5, RangeEmpty
  <2> QED
    BY <1>2, <1>4, <1>8, <1>9, <2>1 DEF ClientCalm, Named
<1>13. Ctxs(c)' \subseteq Ctxs(c) /\ Held(c)' \subseteq Held(c)
  BY <1>2, <1>3, <1>8, <1>9 DEF Ctxs, Held, Msgs
<1> QED
  BY <1>10, <1>11, <1>12, <1>13, ClientsIdle, ClientCalmStep DEF ClientCalm

LEMMA ReadReplyCalm == ASSUME TypeOK, Calm, NEW c \in Clients, ReadReply(c) PROVE Calm'
<1> DEFINE m == Head(outbox[c])
<1>1. ClientCalm(c) /\ outbox[c] # <<>> /\ outbox[c] \in Seq(CmdType)
  BY DEF Calm, ReadReply, TypeOK, SocketType
<1>2. /\ waiting[c] = "reply" /\ ~Submitting(c) /\ Tail(outbox[c]) = <<>>
      /\ m \in Range(outbox[c])
  <2>1. waiting[c] = "reply" /\ ~Submitting(c) /\ Len(outbox[c]) = 1
    BY <1>1 DEF ClientCalm, Polite
  <2>2. Tail(outbox[c]) \in Seq(CmdType) /\ Len(Tail(outbox[c])) = 0
    BY <1>1, <2>1
  <2>3. Tail(outbox[c]) = <<>>
    BY <2>2, EmptySeq
  <2>4. m \in Range(outbox[c])
    BY <1>1, RangeTail
  <2> QED
    BY <2>1, <2>3, <2>4
<1>3. \A n \in Range(inbox[c]) : n.op \notin ReplyOps \cup {"CtxDestroy"}
  BY <1>1, <1>2 DEF ClientCalm, Polite
<1> HIDE DEF m
<1>4. /\ outbox'[c] = <<>> /\ waiting'[c] = "no" /\ UNCHANGED <<inbox, peer, broken, submit>>
      /\ ctx'[c] \in {ctx[c], m.ctx}
      /\ bos'[c] = bos[c] \/ (m.op \in {"Create3d", "CreateBlob"} /\ bos'[c] = bos[c] \cup {m.res})
  BY <1>2 DEF ReadReply, m, sockVars, TypeOK, SocketType, ClientType
<1>5. Polite(c)'
  BY <1>1, <1>2, <1>3, <1>4 DEF ClientCalm, Polite, Submitting
<1>6. Tidy(inbox[c])'
  BY <1>1, <1>4 DEF ClientCalm, Tidy
<1>7. Named(c)'
  <2>1. Range(outbox'[c]) = {}
    BY <1>4, RangeEmpty
  <2> QED
    BY <1>1, <1>2, <1>4, <2>1 DEF ClientCalm, Named
<1>8. Ctxs(c)' \subseteq Ctxs(c) /\ Held(c)' \subseteq Held(c)
  <2>1. Range(outbox'[c]) = {}
    BY <1>4, RangeEmpty
  <2> QED
    BY <1>2, <1>4, <2>1 DEF Ctxs, Held, Msgs
<1> QED
  BY <1>5, <1>6, <1>7, <1>8, ClientsIdle, ClientCalmStep DEF ClientCalm

LEMMA DropCalm == ASSUME TypeOK, Calm, NEW c \in Clients, Drop(c) PROVE Calm'
<1>1. ClientCalm(c) /\ waiting[c] = "no" /\ peer[c] = "open" /\ inbox[c] \in Seq(CmdType)
  BY DEF Calm, Drop, TypeOK, SocketType
<1>2. outbox[c] = <<>> /\ ~Submitting(c) /\ Range(outbox[c]) = {}
  BY <1>1, RangeEmpty DEF ClientCalm, Polite
<1>3. \A n \in Range(inbox[c]) : n.op \notin ReplyOps \cup {"CtxDestroy"}
  BY <1>1 DEF ClientCalm, Polite
<1>4. /\ waiting'[c] = "drop" /\ ctx'[c] = 0 /\ bos'[c] = {}
      /\ UNCHANGED <<outbox, peer, broken, submit>>
      /\ inbox'[c] = inbox[c] \/ (ctx[c] # 0 /\ inbox'[c] = inbox[c] \o DropCmds(c))
  BY DEF Drop, sockVars, TypeOK, SocketType, ClientType
<1>5. DropCmds(c) \in Seq(CmdType) /\ Tidy(DropCmds(c))
  BY <1>1, DropPackets, TidyDrop DEF ClientCalm, Named
<1>6. \A n \in Range(DropCmds(c)) :
         /\ n.ctx = ctx[c] /\ n.op \in {"Detach", "CtxDestroy"}
         /\ n.op = "Detach" => n.res \in bos[c]
         /\ n.op = "CtxDestroy" => n.res = 0
  BY DropRange
<1>7. /\ Tidy(inbox[c] \o DropCmds(c))
      /\ Range(inbox[c] \o DropCmds(c)) = Range(inbox[c]) \cup Range(DropCmds(c))
  <2>1. \A n \in Range(inbox[c]), m \in Range(DropCmds(c)) : n.op = "Detach" => m.res # n.res
    BY <1>1, <1>6 DEF ClientCalm, Named
  <2>2. Tidy(inbox[c] \o DropCmds(c))
    BY <1>1, <1>3, <1>5, <2>1, TidyConcat DEF ClientCalm
  <2>3. Range(inbox[c] \o DropCmds(c)) = Range(inbox[c]) \cup Range(DropCmds(c))
    BY <1>1, <1>5, RangeConcat
  <2> QED
    BY <2>2, <2>3
<1>8. \A n \in Range(inbox'[c]) : n \in Range(inbox[c]) \/ (ctx[c] # 0 /\ n \in Range(DropCmds(c)))
  BY <1>4, <1>7
<1>9. Polite(c)'
  BY <1>1, <1>2, <1>3, <1>4, <1>6, <1>8
     DEF ClientCalm, Polite, Submitting, ReplyOps, FencedOps, RiskyOps
<1>10. Tidy(inbox[c])'
  <2>1. CASE inbox'[c] = inbox[c]
    BY <1>1, <2>1 DEF ClientCalm
  <2>2. CASE inbox'[c] = inbox[c] \o DropCmds(c)
    BY <1>7, <2>2
  <2> QED
    BY <1>4, <2>1, <2>2
<1>11. Named(c)'
  BY <1>1, <1>2, <1>4, <1>6, <1>8 DEF ClientCalm, Named
<1>12. Ctxs(c)' \subseteq Ctxs(c) /\ Held(c)' \subseteq Held(c)
  BY <1>1, <1>2, <1>4, <1>6, <1>8 DEF Ctxs, Held, Msgs
<1> QED
  BY <1>9, <1>10, <1>11, <1>12, ClientsIdle, ClientCalmStep DEF ClientCalm

-----------------------------------------------------------------------------
(* The server                                                              *)

\* A command is one that the tables know, its sender the only one to name it.
LEMMA ReadsCalm ==
  ASSUME TypeOK, Calm, NEW c \in Clients, NEW e, NEW op, Reads(c, e, op)
  PROVE  /\ ClientCalm(c) /\ submit.step = "none" /\ ~Submitting(c)
         /\ HeadOf(c) \in Range(inbox[c]) /\ HeadOf(c).op = op
         /\ Range(inbox'[c]) \subseteq Range(inbox[c])
         /\ \A d \in Clients \ {c} : inbox'[d] = inbox[d]
         /\ Tidy(inbox[c])'
         /\ \A m \in Range(inbox'[c]) : /\ op \notin ReplyOps \cup {"CtxDestroy"}
                                        /\ op = "Detach" => m.res # HeadOf(c).res
<1>1. inbox[c] \in Seq(CmdType) /\ inbox[c] # <<>>
  BY DEF Reads, TypeOK, SocketType
<1>2. /\ HeadOf(c) \in Range(inbox[c]) /\ HeadOf(c).op = op /\ inbox'[c] = Tail(inbox[c])
      /\ Range(inbox'[c]) \subseteq Range(inbox[c])
  BY ReadsTail
<1>3. Tidy(inbox[c])
  BY DEF Calm, ClientCalm
<1>4. Tidy(inbox[c])' /\ \A m \in Range(inbox'[c]) : /\ op \notin ReplyOps \cup {"CtxDestroy"}
                                                     /\ op = "Detach" => m.res # HeadOf(c).res
  BY <1>1, <1>2, <1>3, TidyTail DEF HeadOf
<1>5. ClientCalm(c) /\ submit.step = "none" /\ ~Submitting(c)
  BY DEF Calm, Reads, Idle, Submitting
<1>6. \A d \in Clients \ {c} : inbox'[d] = inbox[d]
  BY DEF Reads, TypeOK, SocketType
<1> QED
  BY <1>2, <1>4, <1>5, <1>6

\* The sender of a command that is answered waits for the answer, and only for it.
LEMMA ReplyCalm ==
  ASSUME TypeOK, Calm, NEW c \in Clients, NEW e, NEW op \in ReplyOps, Reads(c, e, op)
  PROVE  /\ peer[c] # "closed" /\ waiting[c] = "reply" /\ outbox[c] = <<>> /\ Range(inbox'[c]) = {}
         /\ \A m \in CmdType : Reply(c, m) =>
               /\ UNCHANGED server /\ outbox' = [outbox EXCEPT ![c] = Append(@, m)]
               /\ Len(outbox'[c]) = 1 /\ Range(outbox'[c]) = {m}
<1>1. waiting[c] = "reply" /\ outbox[c] = <<>> /\ peer[c] # "closed" /\ Range(inbox'[c]) = {}
  BY ReadsCalm DEF ClientCalm, Polite
<1>2. ASSUME NEW m \in CmdType, Reply(c, m)
      PROVE  /\ UNCHANGED server /\ outbox' = [outbox EXCEPT ![c] = Append(@, m)]
             /\ Len(outbox'[c]) = 1 /\ Range(outbox'[c]) = {m}
  <2>1. UNCHANGED server /\ outbox' = [outbox EXCEPT ![c] = Append(@, m)]
    BY <1>1, <1>2 DEF Reply
  <2>2. outbox'[c] = Append(outbox[c], m) /\ outbox[c] \in Seq(CmdType)
    BY <2>1 DEF TypeOK, SocketType
  <2>3. Len(outbox'[c]) = 1
    BY <1>1, <2>2
  <2>4. Range(outbox'[c]) = {m}
    <3>1. Range(Append(outbox[c], m)) = Range(outbox[c]) \cup {m}
      BY <2>2, RangeAppend
    <3> QED
      BY <1>1, <2>2, <3>1, RangeEmpty
  <2> QED
    BY <2>1, <2>3, <2>4
<1> QED
  BY <1>1, <1>2

\* A command that is answered with m, and leaves the client's side alone.
LEMMA AnswerClientCalm ==
  ASSUME TypeOK, Calm, NEW c \in Clients, NEW e, NEW op \in ReplyOps, Reads(c, e, op),
         NEW m \in CmdType, Reply(c, m), UNCHANGED <<submit, sockVars, libVars>>,
         m.op \in {"Create3d", "CreateBlob"} => m.res # 0
  PROVE  /\ ClientCalm(c)' /\ server' = "run" /\ \A d \in Clients \ {c} : SameFor(d)
         /\ Ctxs(c)' \subseteq Ctxs(c) \cup ({m.ctx} \ {0})
         /\ Held(c)' \subseteq Held(c) \cup ({m.res} \ {0})
<1>1. /\ peer[c] # "closed" /\ waiting[c] = "reply" /\ Range(inbox'[c]) = {}
      /\ UNCHANGED server /\ outbox' = [outbox EXCEPT ![c] = Append(@, m)]
      /\ Len(outbox'[c]) = 1 /\ Range(outbox'[c]) = {m}
  BY ReplyCalm
<1>2. ClientCalm(c) /\ submit.step = "none" /\ Tidy(inbox[c])' /\ \A d \in Clients \ {c} : inbox'[d] = inbox[d]
  BY ReadsCalm
<1>3. Polite(c)'
  BY <1>1, <1>2 DEF ClientCalm, Polite, Submitting, sockVars, libVars
<1>4. Named(c)'
  BY <1>1, <1>2 DEF ClientCalm, Named, libVars
<1>5. \A d \in Clients \ {c} : SameFor(d)
  BY <1>1, <1>2 DEF SameFor, sockVars, libVars, Submitting, TypeOK, SocketType
<1>6. /\ Ctxs(c)' \subseteq Ctxs(c) \cup ({m.ctx} \ {0})
      /\ Held(c)' \subseteq Held(c) \cup ({m.res} \ {0})
  BY <1>1 DEF Ctxs, Held, Msgs, libVars
<1> QED
  BY <1>1, <1>2, <1>3, <1>4, <1>5, <1>6 DEF ClientCalm, Calm

\* A command without an answer: c's side stays, but for the event of a transfer.
LEMMA SilentClientCalm ==
  ASSUME TypeOK, Calm, NEW c \in Clients, NEW e, NEW op, Reads(c, e, op),
         UNCHANGED <<submit, sockVars, outbox, ctx, bos>>,
         \/ UNCHANGED waiting
         \/ waiting' = [waiting EXCEPT ![c] = IF @ = "event" THEN "no" ELSE @]
  PROVE  /\ ClientCalm(c)' /\ \A d \in Clients \ {c} : SameFor(d)
         /\ Ctxs(c)' \subseteq Ctxs(c) /\ Held(c)' \subseteq Held(c)
<1>1. /\ ClientCalm(c) /\ submit.step = "none" /\ Tidy(inbox[c])'
      /\ Range(inbox'[c]) \subseteq Range(inbox[c]) /\ \A d \in Clients \ {c} : inbox'[d] = inbox[d]
  BY ReadsCalm
<1>2. /\ waiting[c] \in {"reply", "drop"} => waiting'[c] = waiting[c]
      /\ waiting'[c] = "drop" => waiting[c] = "drop"
      /\ \A d \in Clients \ {c} : waiting'[d] = waiting[d]
  BY DEF TypeOK, ClientType
<1>3. Polite(c)'
  BY <1>1, <1>2 DEF ClientCalm, Polite, Submitting, sockVars
<1>4. Named(c)'
  BY <1>1 DEF ClientCalm, Named
<1>5. \A d \in Clients \ {c} : SameFor(d)
  BY <1>1, <1>2 DEF SameFor, sockVars, Submitting
<1>6. Ctxs(c)' \subseteq Ctxs(c) /\ Held(c)' \subseteq Held(c)
  BY <1>1 DEF Ctxs, Held, Msgs
<1> QED
  BY <1>1, <1>3, <1>4, <1>5, <1>6 DEF ClientCalm

\* Without a submission in hand there is no handle to keep.
LEMMA ShareOkNone == ASSUME submit'.step = "none" PROVE ShareOk'
  BY DEF ShareOk

\* What a command names is in the tables.
LEMMA KnownCtx ==
  ASSUME TypeOK, Calm, NEW c \in Clients, NEW e, NEW op \in CtxOps, Reads(c, e, op)
  PROVE  HeadOf(c).ctx \in rutabaga.ctx \cap Ctxs(c)
<1>1. HeadOf(c) \in Range(inbox[c]) /\ HeadOf(c).ctx # 0
  BY ReadsCalm DEF ClientCalm, Named
<1>2. HeadOf(c).ctx \in Ctxs(c)
  BY <1>1 DEF Ctxs, Msgs
<1> QED
  BY <1>2 DEF Calm, Owned

LEMMA KnownRes ==
  ASSUME TypeOK, Calm, NEW c \in Clients, NEW e, NEW op \in {"Detach", "Transfer"}, Reads(c, e, op)
  PROVE  HeadOf(c).res \in rutabaga.res \cap Held(c) \cap DOMAIN resources
<1>1. HeadOf(c) \in Range(inbox[c]) /\ HeadOf(c).res # 0
  BY ReadsCalm DEF ClientCalm, Named
<1>2. HeadOf(c).res \in Held(c)
  BY <1>1 DEF Held, Msgs
<1> QED
  BY <1>2 DEF Calm, Owned

\* The next id is in neither table.
LEMMA FreshId == ASSUME TypeOK, Calm PROVE allocate_id \notin rutabaga.ctx \cup rutabaga.res
  BY DEF Calm, Owned, allocate_id, TypeOK, GpuType, Ids

\* A command that is answered and leaves the tables alone.
LEMMA QueryCalm ==
  ASSUME TypeOK, Calm, NEW c \in Clients, NEW e, Query(c, e), server' # "failed" PROVE Calm'
<1> DEFINE m == Cmd("Query", 0, 0)
<1>1. /\ m \in CmdType /\ m.op \notin {"Create3d", "CreateBlob"} /\ m.ctx = 0 /\ m.res = 0
      /\ "Query" \in ReplyOps
  BY DEF Cmd, CmdType, RequestOps, ReplyOps
<1>2. /\ Reads(c, e, "Query") /\ Reply(c, m)
      /\ UNCHANGED <<submit, sockVars, libVars, gpuVars>>
  BY DEF Query, ComponentFails
<1>3. submit'.step = "none"
  BY <1>2, ReadsCalm
<1> HIDE DEF m
<1>4. /\ ClientCalm(c)' /\ server' = "run" /\ \A d \in Clients \ {c} : SameFor(d)
      /\ Ctxs(c)' \subseteq Ctxs(c) /\ Held(c)' \subseteq Held(c)
  BY <1>1, <1>2, AnswerClientCalm
<1>5. rutabaga' = rutabaga /\ UNCHANGED <<resources, id_allocator>>
  BY <1>2 DEF gpuVars
<1> QED
  BY <1>3, <1>4, <1>5, ShareOkNone, CalmOwn

\* A context gets an id that is free, and its client is the one to know it.
LEMMA CtxCreateCalm ==
  ASSUME TypeOK, Calm, NEW c \in Clients, NEW e, CtxCreate(c, e), server' # "failed" PROVE Calm'
<1> DEFINE n == allocate_id
           m == Cmd("CtxCreate", n, 0)
<1>1. n \notin rutabaga.ctx \cup rutabaga.res /\ n = id_allocator + 1 /\ n \in Ids
  <2>1. n \in Ids
    BY AllocatedId DEF CtxCreate
  <2> QED
    BY <2>1, FreshId DEF allocate_id
<1>2. /\ Reads(c, e, "CtxCreate") /\ Reply(c, m) /\ id_allocator' = n
      /\ rutabaga' = [rutabaga EXCEPT !.ctx = @ \cup {n}]
      /\ UNCHANGED <<submit, sockVars, libVars, resources>>
  BY <1>1 DEF CtxCreate, ComponentFails
<1>3. m \in CmdType /\ m.op \notin {"Create3d", "CreateBlob"} /\ m.ctx = n /\ m.res = 0
      /\ "CtxCreate" \in ReplyOps
  BY <1>1 DEF Cmd, CmdType, RequestOps, ReplyOps
<1>4. ShareOk'
  BY <1>2, ReadsCalm, ShareOkNone
<1> HIDE DEF m, n
<1>5. /\ ClientCalm(c)' /\ server' = "run" /\ \A d \in Clients \ {c} : SameFor(d)
      /\ Ctxs(c)' \subseteq Ctxs(c) \cup {n} /\ Held(c)' \subseteq Held(c)
  BY <1>2, <1>3, AnswerClientCalm
<1>6. rutabaga'.ctx = rutabaga.ctx \cup {n} /\ rutabaga'.res = rutabaga.res
  BY <1>2 DEF TypeOK, GpuType
<1>7. rutabaga'.ctx \cup rutabaga'.res \subseteq 1..id_allocator'
  BY <1>1, <1>2, <1>6 DEF Calm, Owned, TypeOK, GpuType, Ids
<1>8. /\ Ctxs(c) \subseteq rutabaga.ctx /\ Held(c) \subseteq rutabaga.res /\ DOMAIN resources = rutabaga.res
  BY DEF Calm, Owned
<1> QED
  BY <1>1, <1>2, <1>4, <1>5, <1>6, <1>7, <1>8, CalmStep

\* So does a resource.
LEMMA CreateCalm ==
  ASSUME TypeOK, Calm, NEW c \in Clients, NEW e, ResourceCreate3d(c, e) \/ ResourceCreateBlob(c, e),
         server' # "failed"
  PROVE  Calm'
<1> DEFINE n == allocate_id
<1>1. n \notin rutabaga.ctx \cup rutabaga.res /\ n = id_allocator + 1 /\ n \in Ids /\ n # 0
  <2>1. n \in Ids
    BY AllocatedId DEF ResourceCreate3d, ResourceCreateBlob
  <2>2. n # 0
    BY <2>1 DEF Ids
  <2> QED
    BY <2>1, <2>2, FreshId DEF allocate_id
<1>2. PICK op \in {"Create3d", "CreateBlob"} :
        /\ Reads(c, e, op) /\ id_allocator' = n /\ UNCHANGED <<submit, sockVars, libVars>>
        /\ HeadOf(c).ctx \in rutabaga.ctx =>
              /\ Reply(c, Cmd(op, 0, n))
              /\ \E x, b : resources' = NewResource(n, x, b)
              /\ \/ rutabaga' = [rutabaga EXCEPT !.res = @ \cup {n}]
                 \/ rutabaga' = [rutabaga EXCEPT !.res = @ \cup {n}, !.backed = @ \cup {n}]
  BY <1>1 DEF ResourceCreate3d, ResourceCreateBlob, ComponentFails
<1>3. HeadOf(c).ctx \in rutabaga.ctx
  BY <1>2, KnownCtx DEF CtxOps
<1> DEFINE m == Cmd(op, 0, n)
<1>4. m \in CmdType /\ m.ctx = 0 /\ m.res = n /\ op \in ReplyOps
  BY <1>1 DEF Cmd, CmdType, RequestOps, ReplyOps
<1>5. Reply(c, m)
  BY <1>2, <1>3
<1>6. ShareOk'
  BY <1>2, ReadsCalm, ShareOkNone
<1> HIDE DEF m, n
<1>7. /\ ClientCalm(c)' /\ server' = "run" /\ \A d \in Clients \ {c} : SameFor(d)
      /\ Ctxs(c)' \subseteq Ctxs(c) /\ Held(c)' \subseteq Held(c) \cup {n}
  BY <1>1, <1>2, <1>4, <1>5, AnswerClientCalm
<1>8. rutabaga'.ctx = rutabaga.ctx /\ rutabaga'.res = rutabaga.res \cup {n}
  BY <1>2, <1>3 DEF TypeOK, GpuType
<1>9. rutabaga'.ctx \cup rutabaga'.res \subseteq 1..id_allocator'
  BY <1>1, <1>2, <1>8 DEF Calm, Owned, TypeOK, GpuType, Ids
<1>10. DOMAIN resources' = DOMAIN resources \cup {n}
  BY <1>2, <1>3 DEF NewResource
<1>11. /\ Ctxs(c) \subseteq rutabaga.ctx /\ Held(c) \subseteq rutabaga.res /\ DOMAIN resources = rutabaga.res
  BY DEF Calm, Owned
<1> QED
  BY <1>1, <1>6, <1>7, <1>8, <1>9, <1>10, <1>11, CalmStep

\* The context of a client that leaves goes last, and nobody else names it.
LEMMA CtxDestroyCalm ==
  ASSUME TypeOK, Calm, NEW c \in Clients, NEW e, CtxDestroy(c, e) PROVE Calm'
<1> DEFINE x == HeadOf(c).ctx
<1>1. Reads(c, e, "CtxDestroy") /\ UNCHANGED <<submit, sockVars, libVars, id_allocator, resources>>
  BY DEF CtxDestroy
<1>2. x \in rutabaga.ctx /\ x \in Ctxs(c)
  BY <1>1, KnownCtx DEF CtxOps
<1>3. rutabaga' = [rutabaga EXCEPT !.ctx = @ \ {x}] /\ UNCHANGED <<server, outbox>>
  BY <1>2 DEF CtxDestroy
<1> HIDE DEF x
<1>4. ClientCalm(c)' /\ (\A d \in Clients \ {c} : SameFor(d)) /\ Held(c)' \subseteq Held(c)
  BY <1>1, <1>3, SilentClientCalm DEF libVars
<1>5. Ctxs(c)' = {}
  <2>1. /\ ClientCalm(c) /\ HeadOf(c) \in Range(inbox[c]) /\ HeadOf(c).op = "CtxDestroy"
        /\ Range(inbox'[c]) = {}
    BY <1>1, ReadsCalm
  <2>2. waiting[c] = "drop" /\ ctx[c] = 0 /\ outbox[c] = <<>>
    BY <2>1 DEF ClientCalm, Polite
  <2>3. Range(outbox'[c]) = {} /\ ctx'[c] = 0
    BY <1>1, <1>3, <2>2, RangeEmpty DEF libVars
  <2> QED
    BY <2>1, <2>3 DEF Ctxs, Msgs
<1>6. ShareOk' /\ server' = "run"
  BY <1>1, <1>3, ReadsCalm, ShareOkNone DEF Calm
<1>7. rutabaga'.ctx = rutabaga.ctx \ {x} /\ rutabaga'.res = rutabaga.res
  BY <1>3 DEF TypeOK, GpuType
<1>8. /\ Held(c) \subseteq rutabaga.res /\ DOMAIN resources = rutabaga.res
      /\ rutabaga.ctx \cup rutabaga.res \subseteq 1..id_allocator
  BY DEF Calm, Owned
<1> QED
  BY <1>1, <1>2, <1>4, <1>5, <1>6, <1>7, <1>8, CalmStep

\* A resource that is detached is the sender's, who does not mention it again.
LEMMA DetachCalm ==
  ASSUME TypeOK, Calm, NEW c \in Clients, NEW e, CtxDetachResource(c, e) PROVE Calm'
<1> DEFINE r == HeadOf(c).res
           x == resources[r].ctxs \ {HeadOf(c).ctx}
<1>1. Reads(c, e, "Detach") /\ UNCHANGED <<submit, sockVars, libVars, id_allocator>>
  BY DEF CtxDetachResource
<1>2. /\ r \in rutabaga.res /\ r \in Held(c) /\ r \in DOMAIN resources
      /\ HeadOf(c).ctx \in rutabaga.ctx
  BY <1>1, KnownCtx, KnownRes DEF CtxOps
<1>3. Release(r, x) /\ UNCHANGED <<server, outbox>>
  BY <1>2 DEF CtxDetachResource
<1>4. ClientCalm(c)' /\ (\A d \in Clients \ {c} : SameFor(d)) /\ Ctxs(c)' \subseteq Ctxs(c) /\ Held(c)' \subseteq Held(c)
  BY <1>1, <1>3, SilentClientCalm DEF libVars
<1>5. r \notin Held(c)'
  <2>1. /\ ClientCalm(c) /\ HeadOf(c) \in Range(inbox[c]) /\ HeadOf(c).op = "Detach"
        /\ \A m \in Range(inbox'[c]) : m.res # r
    BY <1>1, ReadsCalm
  <2>2. r \notin bos[c] /\ \A m \in Range(outbox[c]) : m.res # r
    BY <2>1 DEF ClientCalm, Named
  <2>3. bos' = bos /\ outbox' = outbox
    BY <1>1, <1>3 DEF libVars
  <2> HIDE DEF r
  <2> QED
    BY <2>1, <2>2, <2>3 DEF Held, Msgs
<1>6. ShareOk' /\ server' = "run"
  BY <1>1, <1>3, ReadsCalm, ShareOkNone DEF Calm
<1> HIDE DEF r, x
<1>7. /\ Held(c) \subseteq rutabaga.res /\ DOMAIN resources = rutabaga.res /\ Ctxs(c) \subseteq rutabaga.ctx
      /\ rutabaga.ctx \cup rutabaga.res \subseteq 1..id_allocator
  BY DEF Calm, Owned
<1>8. CASE x # {}
  <2>1. rutabaga' = rutabaga /\ DOMAIN resources' = DOMAIN resources
    BY <1>3, <1>8 DEF Release, TypeOK, GpuType
  <2> QED
    BY <1>1, <1>4, <1>6, <1>7, <2>1, CalmStep
<1>9. CASE x = {}
  <2>1. /\ DOMAIN resources' = DOMAIN resources \ {r} /\ rutabaga'.res = rutabaga.res \ {r}
        /\ rutabaga'.ctx = rutabaga.ctx
    BY <1>3, <1>9 DEF Release, Restrict, TypeOK, GpuType
  <2> QED
    BY <1>1, <1>2, <1>4, <1>5, <1>6, <1>7, <2>1, CalmStep
<1> QED
  BY <1>8, <1>9

\* Transfers and submissions without a fence.
LEMMA TransferCalm ==
  ASSUME TypeOK, Calm, NEW c \in Clients, NEW e, TransferHost3d(c, e) \/ CmdSubmit3d(c, e),
         server' # "failed"
  PROVE  Calm'
<1>1. PICK op \in {"Transfer", "Submit"} : Reads(c, e, op)
  BY DEF TransferHost3d, CmdSubmit3d
<1>2. /\ UNCHANGED <<server, outbox, submit, sockVars, ctx, bos, gpuVars>>
      /\ UNCHANGED waiting \/ waiting' = [waiting EXCEPT ![c] = IF @ = "event" THEN "no" ELSE @]
  <2>1. CASE TransferHost3d(c, e)
    <3>1. HeadOf(c).res \in rutabaga.res
      BY <2>1, KnownRes DEF TransferHost3d
    <3> QED
      BY <2>1, <3>1 DEF TransferHost3d, ComponentFails
  <2>2. CASE CmdSubmit3d(c, e)
    <3>1. HeadOf(c).ctx \in rutabaga.ctx
      BY <2>2, KnownCtx DEF CmdSubmit3d, CtxOps
    <3> QED
      BY <2>2, <3>1 DEF CmdSubmit3d, ComponentFails, libVars
  <2> QED
    BY <2>1, <2>2
<1>3. /\ ClientCalm(c)' /\ \A d \in Clients \ {c} : SameFor(d)
      /\ Ctxs(c)' \subseteq Ctxs(c) /\ Held(c)' \subseteq Held(c)
  BY <1>1, <1>2, SilentClientCalm
<1>4. ShareOk' /\ server' = "run"
  BY <1>1, <1>2, ReadsCalm, ShareOkNone DEF Calm
<1>5. rutabaga' = rutabaga /\ UNCHANGED <<resources, id_allocator>>
  BY <1>2 DEF gpuVars
<1> QED
  BY <1>3, <1>4, <1>5, CalmOwn

\* A submission with a fence: the client waits for the answer meanwhile.
LEMMA SubmitFenceCalm ==
  ASSUME TypeOK, Calm, NEW c \in Clients, NEW e, NEW op \in FencedOps, CmdSubmit3dFence(c, e, op),
         server' # "failed"
  PROVE  Calm'
<1>1. Reads(c, e, op) /\ op \in ReplyOps /\ op \in CtxOps /\ UNCHANGED <<sockVars, libVars, resources, rutabaga>>
  BY DEF CmdSubmit3dFence, ReplyOps, CtxOps
<1>2. HeadOf(c).ctx \in rutabaga.ctx
  BY <1>1, KnownCtx
<1>3. /\ submit' = [step |-> "create", c |-> c, event |-> e, id |-> allocate_id, op |-> op]
      /\ UNCHANGED <<server, outbox>> /\ id_allocator' = id_allocator + 1
  BY <1>2 DEF CmdSubmit3dFence, ComponentFails, allocate_id
<1>4. waiting[c] = "reply" /\ outbox[c] = <<>> /\ Range(inbox'[c]) = {}
  BY <1>1, ReplyCalm
<1>5. /\ ClientCalm(c) /\ HeadOf(c) \in Range(inbox[c]) /\ HeadOf(c).op = op /\ Tidy(inbox[c])'
      /\ \A d \in Clients \ {c} : inbox'[d] = inbox[d]
  BY <1>1, ReadsCalm
<1>6. Polite(c)' /\ Named(c)'
  BY <1>1, <1>3, <1>4, <1>5 DEF ClientCalm, Polite, Named, Submitting, sockVars, libVars
<1>7. \A d \in Clients \ {c} : SameFor(d)
  BY <1>1, <1>3, <1>5 DEF SameFor, sockVars, libVars
<1>8. ShareOk'
  <2>1. op # "SubmitShare"
    BY <1>5 DEF ClientCalm, Polite, RiskyOps
  <2> QED
    BY <1>3, <2>1 DEF ShareOk
<1>9. Ctxs(c)' \subseteq Ctxs(c) /\ Held(c)' \subseteq Held(c)
  BY <1>1, <1>3, <1>4 DEF Ctxs, Held, Msgs, libVars
<1> QED
  BY <1>1, <1>3, <1>5, <1>6, <1>7, <1>8, <1>9, CalmOwn DEF ClientCalm, Calm

LEMMA CreateFenceCalm == ASSUME TypeOK, Calm, CreateFence, server' # "failed" PROVE Calm'
<1>1. submit \in SubmitType /\ submit.step = "create" /\ submit' = [submit EXCEPT !.step = "reply"]
  BY CreateFenceCases
<1>2. /\ submit'.step = "reply" /\ submit'.c = submit.c /\ submit'.op = submit.op /\ submit'.id = submit.id
      /\ submit.step = "create"
  BY <1>1 DEF SubmitType
<1>3. /\ rutabaga'.ctx = rutabaga.ctx /\ rutabaga'.res = rutabaga.res /\ UNCHANGED server
      /\ submit.op = "SubmitShareRing" => submit.id \in rutabaga'.shareable
  BY CreateFenceCases
<1>4. outbox' = outbox
  BY <1>3 DEF CreateFence, ComponentFails, Calm
<1>5. \A d \in Clients : SameFor(d)
  BY <1>2, <1>4 DEF CreateFence, SameFor, Submitting, sockVars, libVars
<1>6. ShareOk'
  BY <1>2, <1>3 DEF Calm, ShareOk
<1> QED
  BY <1>3, <1>5, <1>6, CalmIdle DEF CreateFence, Calm

\* The fence can be exported, and its client is there for the answer.
LEMMA FinishSubmitCalm == ASSUME TypeOK, Calm, FinishSubmit PROVE Calm'
<1>1. submit \in SubmitType /\ submit.step = "reply"
  BY DEF FinishSubmit, TypeOK, ServerType, NoSubmit
<1> PICK c \in Clients : submit.c = c
  BY <1>1 DEF SubmitType
<1>2. PICK m \in CmdType :
        /\ m = Cmd(submit.op, 0, 0) /\ m.ctx = 0 /\ m.res = 0
        /\ m.op \notin {"Create3d", "CreateBlob"}
  <2>1. /\ Cmd(submit.op, 0, 0) \in CmdType
        /\ Cmd(submit.op, 0, 0).op \notin {"Create3d", "CreateBlob"}
    BY <1>1 DEF SubmitType, Cmd, CmdType, FencedOps, RequestOps
  <2> QED
    BY <2>1 DEF Cmd
<1>3. Reply(c, m)
  BY <1>1, <1>2 DEF FinishSubmit, Calm, ShareOk, SharedOps
<1>4. /\ submit' = NoSubmit /\ UNCHANGED <<sockVars, inbox, libVars, resources, id_allocator>>
      /\ rutabaga'.ctx = rutabaga.ctx /\ rutabaga'.res = rutabaga.res
  BY DEF FinishSubmit, TypeOK, GpuType
<1>5. ClientCalm(c) /\ Submitting(c)
  BY <1>1 DEF Calm, Submitting
<1>6. waiting[c] = "reply" /\ outbox[c] = <<>> /\ peer[c] # "closed" /\ \A n \in Range(inbox[c]) : n.op \notin ReplyOps
  BY <1>5 DEF ClientCalm, Polite
<1>7. UNCHANGED server /\ outbox' = [outbox EXCEPT ![c] = Append(@, m)]
  BY <1>3, <1>6 DEF Reply
<1>8. outbox'[c] = Append(outbox[c], m) /\ outbox[c] \in Seq(CmdType)
  BY <1>2, <1>7 DEF TypeOK, SocketType
<1>9. Len(outbox'[c]) = 1
  BY <1>6, <1>8
<1>10. Range(outbox'[c]) = {m}
  <2>1. Range(Append(outbox[c], m)) = Range(outbox[c]) \cup {m}
    BY <1>2, <1>8, RangeAppend
  <2> QED
    BY <1>6, <1>8, <2>1, RangeEmpty
<1>11. Polite(c)'
  BY <1>4, <1>5, <1>6, <1>9 DEF ClientCalm, Polite, Submitting, NoSubmit, sockVars, libVars
<1>12. Named(c)' /\ Tidy(inbox[c])'
  BY <1>2, <1>4, <1>5, <1>10 DEF ClientCalm, Named, libVars
<1>13. \A d \in Clients \ {c} : SameFor(d)
  BY <1>2, <1>4, <1>7 DEF SameFor, Submitting, NoSubmit, sockVars, libVars, TypeOK, SocketType
<1>14. Ctxs(c)' \subseteq Ctxs(c) /\ Held(c)' \subseteq Held(c)
  BY <1>2, <1>4, <1>10 DEF Ctxs, Held, Msgs, libVars
<1>15. ShareOk'
  BY <1>4, ShareOkNone DEF NoSubmit
<1> QED
  BY <1>2, <1>4, <1>7, <1>11, <1>12, <1>13, <1>14, <1>15, CalmOwn DEF ClientCalm, Calm

\* Waiting, accepting, reading nothing, and the renderer's callback: a batch
\* has no event of a connection that is gone, so no read fails.
LEMMA PollCalm ==
  ASSUME TypeOK, ConnInv, Calm,
         \/ Wait \/ (\E e \in events : Accept(e)) \/ (\E f \in Ids : FenceHandler(f))
         \/ \E e \in events, c \in Clients : NoData(c, e)
  PROVE  Calm'
<1>1. ASSUME NEW e \in events, NEW c \in Clients, NoData(c, e) PROVE ~Fail /\ UNCHANGED server
  <2>1. e.id \in connections /\ ~broken[c]
    BY <1>1 DEF NoData, ConnInv, EventsFit, Calm, ClientCalm, Polite
  <2> QED
    BY <1>1, <2>1 DEF NoData, Fail, Calm
<1>2. UNCHANGED <<server, submit, resources, id_allocator, inbox, outbox, peer, broken, libVars>>
  BY <1>1 DEF Wait, Accept, FenceHandler, NoData, gpuVars, sockVars
<1>3. /\ rutabaga'.ctx = rutabaga.ctx /\ rutabaga'.res = rutabaga.res
      /\ rutabaga'.shareable = rutabaga.shareable
  BY <1>1 DEF Wait, Accept, FenceHandler, NoData, gpuVars, TypeOK, GpuType
<1>4. \A d \in Clients : SameFor(d)
  BY <1>2 DEF SameFor, Submitting, libVars
<1>5. ShareOk'
  BY <1>2, <1>3 DEF Calm, ShareOk
<1> QED
  BY <1>2, <1>3, <1>4, <1>5, CalmIdle DEF Calm

\* Nobody asks for a risky operation, so these are not there to be read.
LEMMA NoRiskyCommand ==
  ASSUME TypeOK, Calm, NEW c \in Clients, NEW e
  PROVE  ~(CtxAttachResource(c, e) \/ SnapshotSave(c, e) \/ SnapshotRestore(c, e) \/ CmdSubmitInFences(c, e))
<1>1. ASSUME NEW op \in RiskyOps, Reads(c, e, op) PROVE FALSE
  BY <1>1, ReadsCalm DEF ClientCalm, Polite
<1> QED
  BY <1>1 DEF CtxAttachResource, SnapshotSave, SnapshotRestore, CmdSubmitInFences, RiskyOps

LEMMA RunCalm ==
  ASSUME TypeOK, ConnInv, Calm, Run \/ (\E f \in Ids : FenceHandler(f)), server' # "failed"
  PROVE  Calm'
<1>1. ASSUME NEW e \in events, NEW c \in Clients, Process(c, e) PROVE Calm'
  BY <1>1, PollCalm, QueryCalm, CtxCreateCalm, CtxDestroyCalm, DetachCalm, CreateCalm, TransferCalm,
     NoRiskyCommand DEF Process
<1> QED
  BY <1>1, PollCalm, CreateFenceCalm, FinishSubmitCalm, SubmitFenceCalm DEF Run

\* A new server with new clients is calm.
Fresh ==
    /\ server = "run" /\ submit = NoSubmit /\ id_allocator = 0 /\ resources = NoResources
    /\ rutabaga = NoTables /\ peer = [c \in Clients |-> "off"] /\ inbox = [c \in Clients |-> <<>>]
    /\ outbox = [c \in Clients |-> <<>>] /\ broken = [c \in Clients |-> FALSE]
    /\ waiting = [c \in Clients |-> "no"] /\ ctx = [c \in Clients |-> 0] /\ bos = [c \in Clients |-> {}]

LEMMA FreshCalm == Fresh => Calm
<1> SUFFICES ASSUME Fresh PROVE Calm
  OBVIOUS
<1> USE DEF Fresh
<1>1. ASSUME NEW c \in Clients PROVE ClientCalm(c) /\ Ctxs(c) = {} /\ Held(c) = {}
  <2>1. Range(inbox[c]) = {} /\ Range(outbox[c]) = {} /\ Len(inbox[c]) = 0
    BY RangeEmpty
  <2>2. Polite(c) /\ Tidy(inbox[c]) /\ Named(c)
    BY <2>1 DEF Polite, Submitting, NoSubmit, Tidy, Named
  <2>3. Ctxs(c) = {} /\ Held(c) = {}
    BY <2>1 DEF Ctxs, Held, Msgs
  <2> QED
    BY <2>2, <2>3 DEF ClientCalm
<1>2. Owned
  BY <1>1 DEF Owned, NoTables, NoResources
<1>3. ShareOk
  BY DEF ShareOk, NoSubmit
<1> QED
  BY <1>1, <1>2, <1>3 DEF Calm

LEMMA InitQuiet == Init => Quiet
  BY FreshCalm DEF Init, Fresh, Quiet

LEMMA RestartQuiet == ASSUME Restart PROVE Quiet'
<1>1. Fresh'
  BY DEF Restart, Started, Fresh
<1>2. Calm'
  BY <1>1, FreshCalm, PTL
<1> QED
  BY <1>2 DEF Quiet

LEMMA NextQuiet == TypeOK /\ ConnInv /\ Quiet /\ [Next]_vars => Quiet'
<1> SUFFICES ASSUME TypeOK, ConnInv, Quiet, [Next]_vars, ~Restart, faults' = {}, server' # "failed"
             PROVE  Calm'
  BY RestartQuiet DEF Quiet
<1>1. faults \subseteq faults'
  <2>1. ASSUME Run \/ (\E f \in Ids : FenceHandler(f)) PROVE faults \subseteq faults'
    BY <2>1, ServerNothingSent DEF NothingSent
  <2>2. ASSUME NEW c \in Clients,
               Connect(c) \/ Request(c) \/ ReadReply(c) \/ Drop(c) \/ Close(c) \/ Crash(c)
        PROVE  faults \subseteq faults'
    BY <2>2 DEF Connect, Request, ReadReply, Drop, Close, Crash, libVars
  <2> QED
    BY <2>1, <2>2 DEF Next, vars, libVars
<1>2. Calm
  <2>1. ASSUME NEW c \in Clients,
               Connect(c) \/ Request(c) \/ ReadReply(c) \/ Drop(c) \/ Close(c) \/ Crash(c)
        PROVE  server # "failed"
    BY <2>1 DEF Connect, Request, ReadReply, Drop, Close, Crash
  <2>2. ASSUME NEW c \in Clients, NEW e, Process(c, e) PROVE server # "failed"
    BY <2>2 DEF Process, NoData, Query, CtxCreate, CtxDestroy, CtxAttachResource, CtxDetachResource,
         ResourceCreate3d, ResourceCreateBlob, TransferHost3d, CmdSubmit3d, CmdSubmitInFences,
         SnapshotSave, SnapshotRestore, Reads, Idle
  <2>3. ASSUME Run \/ (\E f \in Ids : FenceHandler(f)) PROVE server # "failed"
    BY <2>2, <2>3 DEF Run, Wait, Accept, CreateFence, FinishSubmit, FenceHandler, CmdSubmit3dFence,
         Reads, Idle
  <2>4. server # "failed"
    BY <2>1, <2>3 DEF Next, vars
  <2> QED
    BY <1>1, <2>4 DEF Quiet
<1>3. CASE UNCHANGED vars
  <2>1. UNCHANGED <<server, submit, gpuVars, inbox, outbox, peer, broken, libVars>>
    BY <1>3 DEF vars, sockVars
  <2>2. \A d \in Clients : SameFor(d)
    BY <2>1 DEF SameFor, Submitting, libVars
  <2>3. ShareOk' /\ server' = "run"
    BY <1>2, <2>1 DEF Calm, ShareOk, gpuVars
  <2> QED
    BY <1>2, <2>1, <2>2, <2>3, CalmIdle DEF gpuVars
<1>4. ASSUME NEW c \in Clients, Crash(c) PROVE FALSE
  BY <1>4 DEF Crash
<1> QED
  BY <1>2, <1>3, <1>4, RunCalm, ConnectCalm, RequestCalm, ReadReplyCalm, DropCalm DEF Next

\* The inductive invariant holds in every reachable state.
LEMMA QuietInvariance == Spec => []Quiet
  BY InitQuiet, NextQuiet, TypeCorrect, ConnInvariance, PTL DEF Spec

\* Clients that use the library as intended cannot end the server for the
\* others, in any number and in any order of their requests: but for a refusal
\* of Rutabaga's components, what ends it is a client that dies, a shared
\* resource, a restore, a second snapshot, a shareable fence without a ring or
\* fences to wait for.
THEOREM ServerEndsForCause == Spec => []EndedForCause
<1>1. Quiet => EndedForCause
  BY DEF Quiet, Calm, EndedForCause
<1> QED
  BY <1>1, QuietInvariance, PTL
=============================================================================
