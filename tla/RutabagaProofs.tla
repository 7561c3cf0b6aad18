--------------------------- MODULE RutabagaProofs ---------------------------
(***************************************************************************)
(* Proofs about the core's tables, for any resources, contexts, builds,    *)
(* blobs and capsets.                                                      *)
(***************************************************************************)
EXTENDS Rutabaga, FiniteSetTheorems, TLAPS

-----------------------------------------------------------------------------
(* Types                                                                   *)

Context == [type : ComponentTypes \cup {"free"}, res : [ResIds -> Attachment]]
Snapshot == [taken : BOOLEAN, resources : [ResIds -> Resource], contexts : SUBSET CtxIds,
             renderer : RendererState, works : SUBSET (ResIds \X {"read", "write"}),
             resized : SUBSET ResIds]
MaybeHandle == Handles \cup {NoHandle}

LEMMA DefaultType == ASSUME TypeOK PROVE default \in ComponentTypes
<1>1. build \in BuildType
  BY CoreAssumption DEF TypeOK
<1>2. requested_component(build) \in ComponentTypes
  BY <1>1 DEF BuildType, requested_component, ComponentTypes, Renderers
<1> QED
  BY <1>2 DEF default, default_component, ComponentTypes

LEMMA ComponentsType == ASSUME TypeOK PROVE components \subseteq ComponentTypes
  BY DefaultType DEF components, default, Components, ComponentTypes

LEMMA NoHandleType == NoHandle \in MaybeHandle /\ NoHandle.id = 0 /\ NoHandle.type = "none"
  BY DEF MaybeHandle, NoHandle

\* What new resources are.
LEMMA NewResourceType ==
  /\ NoResource \in Resource /\ PlainResource \in Resource
  /\ \A cmd \in BlobCmds, ty \in ComponentTypes : Blob(cmd, ty) \in Resource
<1>1. 0 \in 0 .. MaxVecs /\ NoHandle \in Handles \cup {NoHandle}
  BY CoreAssumption
<1>2. NoResource \in Resource
  BY <1>1 DEF NoResource, Resource
<1>3. PlainResource \in Resource
  BY <1>2 DEF PlainResource, Resource
<1>4. ASSUME NEW cmd \in BlobCmds, NEW ty \in ComponentTypes PROVE Blob(cmd, ty) \in Resource
  <2>1. cmd.mem \in {"guest", "host"} /\ cmd.share \in BOOLEAN
    BY CoreAssumption
  <2> QED
    BY <1>2, <2>1 DEF Blob, Resource
<1> QED
  BY <1>2, <1>3, <1>4

\* The updates of a resource keep its type.
LEMMA WithMask ==
  ASSUME NEW a \in Resource, NEW ty \in SUBSET ComponentTypes
  PROVE  /\ [a EXCEPT !.mask = ty] \in Resource
         /\ \A m \in {"full", "huge"} : [a EXCEPT !.mask = ty, !.host_mem = m] \in Resource
  BY DEF Resource, Image

LEMMA WithHandle ==
  ASSUME NEW a \in Resource, NEW h \in MaybeHandle PROVE [a EXCEPT !.handle = h] \in Resource
  BY DEF Resource, MaybeHandle

LEMMA WithMaskHandle ==
  ASSUME NEW a \in Resource, NEW ty \in SUBSET ComponentTypes, NEW h \in MaybeHandle
  PROVE  [a EXCEPT !.mask = ty, !.handle = h] \in Resource
  BY DEF Resource, MaybeHandle

LEMMA WithBacking ==
  ASSUME NEW a \in Resource, NEW id \in 0 .. MaxVecs
  PROVE  [a EXCEPT !.backing = id] \in Resource /\ [a EXCEPT !.host_mem = "none", !.backing = id] \in Resource
  BY DEF Resource

LEMMA WithBackingHandle ==
  ASSUME NEW a \in Resource, NEW id \in 0 .. MaxVecs, NEW h \in MaybeHandle
  PROVE  [a EXCEPT !.backing = id, !.handle = h] \in Resource
  BY DEF Resource, MaybeHandle

LEMMA WithFlags ==
  ASSUME NEW a \in Resource
  PROVE  /\ [a EXCEPT !.mapping = TRUE] \in Resource /\ [a EXCEPT !.mapping = FALSE] \in Resource
         /\ [a EXCEPT !.stride = TRUE] \in Resource
  BY DEF Resource

LEMMA PreservedType == ASSUME NEW a \in Resource PROVE Preserved(a) \in Resource
<1>1. 0 \in 0 .. MaxVecs /\ NoHandle \in Handles \cup {NoHandle} /\ FALSE \in BOOLEAN
  BY CoreAssumption
<1>2. a.host_mem \in {"no2d", "none", "empty", "short", "full", "huge"}
  BY DEF Resource, Image
<1>3. RestoredMemory(a.host_mem) \in {"no2d", "none", "empty", "short"} \cup Image
  BY <1>2 DEF RestoredMemory, Image
<1> QED
  BY <1>1, <1>3 DEF Preserved, Resource

\* The renderer's state.
LEMMA RendererNone == NoRenderer \in RendererState
  BY CoreAssumption DEF RendererState, NoRenderer

LEMMA RendererRes ==
  ASSUME NEW rd \in RendererState, NEW r \in ResIds
  PROVE  [rd EXCEPT !.res = @ \cup {r}] \in RendererState
  BY DEF RendererState

LEMMA RendererMap ==
  ASSUME NEW rd \in RendererState, NEW r \in ResIds
  PROVE  [rd EXCEPT !.map = @ \cup {r}] \in RendererState /\ [rd EXCEPT !.map = @ \ {r}] \in RendererState
  BY DEF RendererState

LEMMA RendererIov ==
  ASSUME NEW rd \in RendererState, NEW r \in ResIds, NEW id \in 0 .. MaxVecs
  PROVE  [rd EXCEPT !.iov[r] = id] \in RendererState /\ [rd EXCEPT !.res = @ \cup {r}, !.iov[r] = id] \in RendererState
  BY DEF RendererState

LEMMA RendererReleased ==
  ASSUME NEW rd \in RendererState, NEW r \in ResIds PROVE Released(rd, r) \in RendererState
<1>1. 0 \in 0 .. MaxVecs
  BY CoreAssumption
<1> QED
  BY <1>1 DEF RendererState, Released

LEMMA RendererSaved ==
  ASSUME NEW rd \in RendererState PROVE [rd EXCEPT !.iov = NoRenderer.iov, !.map = {}] \in RendererState
<1>1. NoRenderer.iov \in [ResIds -> 0 .. MaxVecs]
  BY RendererNone DEF RendererState
<1> QED
  BY <1>1 DEF RendererState

\* Contexts.
LEMMA ContextTypes ==
  /\ Unattached \in Attachment /\ NoContext \in Context
  /\ \A ty \in ComponentTypes : NewContext(ty) \in Context
<1>1. 0 \in 0 .. MaxVecs /\ NoHandle \in Handles \cup {NoHandle}
  BY CoreAssumption
<1>2. Unattached \in Attachment
  BY <1>1 DEF Unattached, Attachment
<1>3. NoContext \in Context
  BY <1>2 DEF NoContext, Context
<1> QED
  BY <1>2, <1>3 DEF NewContext, Context

\* An operation on one resource.
LEMMA OneResourceType ==
  ASSUME TypeOK, NEW r \in ResIds, NEW a \in Resource, SetResource(r, a), renderer' \in RendererState,
         UNCHANGED <<Rest, contexts>>
  PROVE  TypeOK'
  BY DEF TypeOK, SetResource, Rest

LEMMA InitType == Init => TypeOK
<1> SUFFICES ASSUME Init PROVE TypeOK
  OBVIOUS
<1>1. NoRenderer \in RendererState
  BY CoreAssumption DEF RendererState, NoRenderer
<1>2. NoSnapshot \in Snapshot
  BY <1>1, NewResourceType DEF NoSnapshot, Snapshot
<1> QED
  BY <1>1, <1>2, NewResourceType, ContextTypes DEF Init, TypeOK, Context, Snapshot

LEMMA Create3dType == ASSUME TypeOK, NEW r \in ResIds, resource_create_3d(r) PROVE TypeOK'
<1>1. {default} \in SUBSET ComponentTypes /\ renderer \in RendererState /\ NoHandle \in MaybeHandle
  BY DefaultType, NoHandleType DEF TypeOK
<1>2. HostHandles \cup {NoHandle} \subseteq MaybeHandle
  BY DEF HostHandles, MaybeHandle
<1>3. \E a \in Resource : SetResource(r, a)
  <2>1. \A m \in {"full", "huge"} : [PlainResource EXCEPT !.mask = {default}, !.host_mem = m] \in Resource
    BY <1>1, NewResourceType, WithMask
  <2>2. \A h \in MaybeHandle : [PlainResource EXCEPT !.mask = {default}, !.handle = h] \in Resource
    BY <1>1, NewResourceType, WithMaskHandle
  <2> QED
    BY <1>2, <2>1, <2>2, NewResourceType DEF resource_create_3d
<1>4. renderer' \in RendererState
  BY <1>1, RendererRes DEF resource_create_3d
<1> QED
  BY <1>3, <1>4, OneResourceType DEF resource_create_3d

LEMMA ImportType == ASSUME TypeOK, NEW r \in ResIds, resource_import(r) PROVE TypeOK'
<1>1. {default} \in SUBSET ComponentTypes /\ renderer \in RendererState /\ NoHandle \in MaybeHandle
  BY DefaultType, NoHandleType DEF TypeOK
<1>2. [PlainResource EXCEPT !.mask = {default}] \in Resource
  BY <1>1, NewResourceType, WithMask
<1>3. renderer' \in RendererState
  BY <1>1, RendererRes DEF resource_import
<1> QED
  BY <1>2, <1>3, OneResourceType DEF resource_import

LEMMA BackingType ==
  ASSUME TypeOK, NEW r \in ResIds, attach_backing(r) \/ detach_backing(r) PROVE TypeOK'
<1>1. resources[r] \in Resource /\ renderer \in RendererState /\ NoHandle \in MaybeHandle
  BY NoHandleType DEF TypeOK
<1>2. PICK id \in 0 .. MaxVecs : /\ resources' = [resources EXCEPT ![r].backing = id]
                                 /\ renderer' = renderer \/ renderer' = [renderer EXCEPT !.iov[r] = id]
  <2>1. CASE attach_backing(r)
    <3>1. 1 .. MaxVecs \subseteq 0 .. MaxVecs
      BY CoreAssumption
    <3> QED
      BY <2>1, <3>1 DEF attach_backing
  <2>2. CASE detach_backing(r)
    <3>1. 0 \in 0 .. MaxVecs
      BY CoreAssumption
    <3> QED
      BY <2>2, <3>1 DEF detach_backing
  <2> QED
    BY <2>1, <2>2
<1>3. [resources[r] EXCEPT !.backing = id] \in Resource
  BY <1>1, WithBacking
<1>4. renderer' \in RendererState
  BY <1>1, <1>2, RendererIov
<1>5. SetResource(r, [resources[r] EXCEPT !.backing = id])
  BY <1>2 DEF SetResource
<1> QED
  BY <1>3, <1>4, <1>5, OneResourceType DEF attach_backing, detach_backing

LEMMA UnrefType == ASSUME TypeOK, NEW r \in ResIds, unref_resource(r) PROVE TypeOK'
<1>1. renderer \in RendererState
  BY DEF TypeOK
<1>2. renderer' \in RendererState
  BY <1>1, RendererReleased DEF unref_resource
<1> QED
  BY <1>2, NewResourceType, OneResourceType DEF unref_resource

LEMMA ScanoutType == ASSUME TypeOK, NEW r \in ResIds, set_scanout(r) PROVE TypeOK'
<1>1. resources[r] \in Resource /\ renderer' \in RendererState /\ NoHandle \in MaybeHandle
  BY NoHandleType DEF TypeOK, set_scanout
<1>2. [resources[r] EXCEPT !.stride = TRUE] \in Resource
  BY <1>1, WithFlags
<1> QED
  BY <1>1, <1>2, OneResourceType DEF set_scanout, SetResource

\* The four ways to create a blob.
LEMMA BlobType ==
  ASSUME TypeOK, NEW r \in ResIds, NEW cmd \in BlobCmds, UNCHANGED <<Rest, contexts>>,
         Blob2D(r, cmd) \/ RendererBlob(r, cmd) \/ CrossDomainBlob(r, cmd) \/ ContextBlob(r, cmd)
  PROVE  TypeOK'
<1>1. /\ renderer \in RendererState /\ NoHandle \in MaybeHandle
      /\ Blob(cmd, default) \in Resource /\ Blob(cmd, "CrossDomain") \in Resource
  BY DefaultType, NoHandleType, NewResourceType DEF TypeOK, ComponentTypes
<1>2. HostHandles \cup {NoHandle} \subseteq MaybeHandle
  BY DEF HostHandles, MaybeHandle
<1>3. CASE Blob2D(r, cmd)
  <2>1. \A id \in 0 .. MaxVecs : [Blob(cmd, default) EXCEPT !.host_mem = "none", !.backing = id] \in Resource
    BY <1>1, WithBacking
  <2> QED
    BY <1>1, <1>3, <2>1, OneResourceType DEF Blob2D
<1>4. CASE RendererBlob(r, cmd)
  <2>1. PICK id \in 0 .. MaxVecs, h \in HostHandles \cup {NoHandle} :
          /\ SetResource(r, [Blob(cmd, default) EXCEPT !.backing = id, !.handle = h])
          /\ renderer' = [renderer EXCEPT !.res = @ \cup {r}, !.iov[r] = id]
    BY <1>4 DEF RendererBlob
  <2>2. [Blob(cmd, default) EXCEPT !.backing = id, !.handle = h] \in Resource
    BY <1>1, <1>2, WithBackingHandle
  <2>3. renderer' \in RendererState
    BY <1>1, <2>1, RendererIov
  <2> QED
    BY <2>1, <2>2, <2>3, OneResourceType
<1>5. CASE CrossDomainBlob(r, cmd)
  <2>1. \A id \in 0 .. MaxVecs : [Blob(cmd, "CrossDomain") EXCEPT !.backing = id] \in Resource
    BY <1>1, WithBacking
  <2> QED
    BY <1>1, <1>5, <2>1, OneResourceType DEF CrossDomainBlob
<1>6. CASE ContextBlob(r, cmd)
  <2>1. \A h \in MaybeHandle : [Blob(cmd, "CrossDomain") EXCEPT !.handle = h] \in Resource
    BY <1>1, WithHandle
  <2> QED
    BY <1>1, <1>2, <1>6, <2>1, OneResourceType DEF ContextBlob
<1> QED
  BY <1>3, <1>4, <1>5, <1>6

LEMMA MapType == ASSUME TypeOK, NEW r \in ResIds, map(r) \/ unmap(r) PROVE TypeOK'
<1>1. resources[r] \in Resource /\ renderer \in RendererState /\ NoHandle \in MaybeHandle
  BY NoHandleType DEF TypeOK
<1>2. /\ [resources[r] EXCEPT !.mapping = TRUE] \in Resource
      /\ [resources[r] EXCEPT !.mapping = FALSE] \in Resource
      /\ [resources[r] EXCEPT !.handle = NoHandle] \in Resource
  BY <1>1, WithHandle, WithFlags
<1>3. \E a \in Resource : SetResource(r, a)
  <2>1. CASE UNCHANGED resources
    <3>1. SetResource(r, resources[r])
      BY <2>1 DEF SetResource, TypeOK
    <3> QED
      BY <1>1, <3>1
  <2> QED
    BY <1>2, <2>1 DEF map, unmap, MapHandle, MapInRenderer, SetResource
<1>4. renderer' \in RendererState
  BY <1>1, RendererMap DEF map, unmap, MapHandle, MapInRenderer
<1> QED
  BY <1>3, <1>4, OneResourceType DEF map, unmap

LEMMA ExportType == ASSUME TypeOK, NEW r \in ResIds, export_blob(r) PROVE TypeOK'
<1>1. resources[r] \in Resource /\ NoHandle \in MaybeHandle
  BY NoHandleType DEF TypeOK
<1>2. [resources[r] EXCEPT !.handle = NoHandle] \in Resource
  BY <1>1, WithHandle, WithFlags
<1>3. resources' \in [ResIds -> Resource]
  BY <1>2 DEF export_blob, TypeOK
<1>4. exported' \subseteq 1 .. MaxHandles
  BY <1>1 DEF export_blob, TypeOK, Resource, Handles
<1> QED
  BY <1>3, <1>4 DEF export_blob, TypeOK

LEMMA ContextType ==
  ASSUME TypeOK, NEW c \in CtxIds, destroy_context(c) \/ \E capset \in Capsets : create_context(c, capset)
  PROVE  TypeOK'
<1>1. renderer \in RendererState
  BY DEF TypeOK
<1>2. \E x \in Context : contexts' = [contexts EXCEPT ![c] = x]
  BY ComponentsType, ContextTypes DEF destroy_context, create_context
<1>3. renderer' \in RendererState
  <2>1. renderer.ctx \cup {c} \in SUBSET CtxIds /\ renderer.ctx \ {c} \in SUBSET CtxIds
    BY <1>1 DEF RendererState
  <2>2. /\ [renderer EXCEPT !.ctx = renderer.ctx \cup {c}] \in RendererState
        /\ [renderer EXCEPT !.ctx = renderer.ctx \ {c}] \in RendererState
    BY <2>1 DEF TypeOK, RendererState
  <2> QED
    BY <1>1, <2>2 DEF destroy_context, create_context, Closed
<1>4. contexts' \in [CtxIds -> Context]
  BY <1>2 DEF TypeOK, Context
<1>5. UNCHANGED <<Rest, resources>>
  BY DEF destroy_context, create_context
<1> QED
  BY <1>3, <1>4, <1>5 DEF TypeOK, Rest, Context

LEMMA AttachType ==
  ASSUME TypeOK, NEW c \in CtxIds, NEW r \in ResIds,
         context_attach_resource(c, r) \/ context_detach_resource(c, r)
  PROVE  TypeOK'
<1>1. /\ resources[r] \in Resource /\ renderer \in RendererState /\ NoHandle \in MaybeHandle
      /\ 0 \in 0 .. MaxVecs /\ contexts \in [CtxIds -> Context]
  BY NoHandleType, CoreAssumption DEF TypeOK, Context
<1>2. contexts' = contexts \/ \E a \in Attachment : contexts' = [contexts EXCEPT ![c].res[r] = a]
  <2>1. /\ [here |-> TRUE, handle |-> NoHandle, backing |-> resources[r].backing] \in Attachment
        /\ [here |-> TRUE, handle |-> resources[r].handle, backing |-> 0] \in Attachment
    BY <1>1 DEF Attachment, Resource
  <2> QED
    BY <2>1, ContextTypes
       DEF context_attach_resource, context_detach_resource, AttachGuest, AttachHandle, AttachVirgl
<1>3. contexts' \in [CtxIds -> Context]
  <2>1. ASSUME NEW a \in Attachment, contexts' = [contexts EXCEPT ![c].res[r] = a]
        PROVE  contexts' \in [CtxIds -> Context]
    <3>1. [contexts[c] EXCEPT !.res[r] = a] \in Context
      <4>1. contexts[c] \in Context
        BY <1>1
      <4> QED
        BY <4>1 DEF Context
    <3>2. contexts' = [contexts EXCEPT ![c] = [contexts[c] EXCEPT !.res[r] = a]]
      BY <2>1
    <3> QED
      BY <1>1, <3>1, <3>2
  <2> QED
    BY <1>1, <1>2, <2>1
<1>4. resources' \in [ResIds -> Resource]
  <2>1. [resources[r] EXCEPT !.backing = 0] \in Resource
    BY <1>1, WithBacking
  <2>2. [resources[r] EXCEPT !.mask = resources[r].mask \cup {"VirglRenderer"}] \in Resource
    <3>1. resources[r].mask \cup {"VirglRenderer"} \in SUBSET ComponentTypes
      BY <1>1 DEF Resource, ComponentTypes, Renderers
    <3> QED
      BY <1>1, <3>1, WithMask
  <2> QED
    BY <2>1, <2>2
       DEF TypeOK, context_attach_resource, context_detach_resource, AttachGuest, AttachHandle, AttachVirgl
<1>5. renderer' \in RendererState
  <2>1. [renderer EXCEPT !.res = renderer.res \cup {r}] \in RendererState
    BY <1>1 DEF RendererState
  <2> QED
    BY <1>1, <2>1
       DEF context_attach_resource, context_detach_resource, AttachGuest, AttachHandle, AttachVirgl
<1>6. UNCHANGED Rest
  BY DEF context_attach_resource, context_detach_resource
<1> QED
  BY <1>3, <1>4, <1>5, <1>6 DEF TypeOK, Rest, Context

LEMMA FenceType ==
  ASSUME TypeOK, NEW f \in FenceIds,
         destroy_fences(f) \/ \E c \in CtxIds, ring \in {0, 1} : create_fence(f, c, ring)
  PROVE  TypeOK'
  BY DEF TypeOK, destroy_fences, create_fence

LEMMA SnapshotType == ASSUME TypeOK, snapshot PROVE TypeOK'
<1>1. [r \in ResIds |-> Preserved(resources[r])] \in [ResIds -> Resource]
  BY PreservedType DEF TypeOK
<1>2. [renderer EXCEPT !.iov = NoRenderer.iov, !.map = {}] \in RendererState
  BY RendererSaved DEF TypeOK
<1>3. Works(resources) \in SUBSET (ResIds \X {"read", "write"})
  BY DEF Works
<1>4. snap' \in Snapshot
  BY <1>1, <1>2, <1>3 DEF snapshot, Snapshot
<1> QED
  BY <1>4 DEF snapshot, TypeOK, Snapshot

LEMMA RestoreType == ASSUME TypeOK, restore \/ restore_fails \/ Restart PROVE TypeOK'
<1>1. snap.resources \in [ResIds -> Resource] /\ snap.renderer \in RendererState /\ snap.contexts \subseteq CtxIds
  BY DEF TypeOK
<1>2. NoRenderer \in RendererState
  BY CoreAssumption DEF RendererState, NoRenderer
<1>3. resources' \in [ResIds -> Resource]
  BY <1>1, NewResourceType DEF restore, restore_fails, Restart
<1>4. contexts' \in [CtxIds -> Context]
  BY DefaultType, ContextTypes DEF restore, restore_fails, Restart
<1>5. renderer' \in RendererState
  <2>1. \A first : [snap.renderer EXCEPT !.ctx = snap.renderer.ctx \ first] \in RendererState
    BY <1>1 DEF RendererState
  <2> QED
    BY <1>1, <1>2, <2>1 DEF restore, restore_fails, Restart
<1>6. /\ build' = build /\ shareable_fences' \subseteq FenceIds /\ exported' \subseteq 1 .. MaxHandles
      /\ torn' \in BOOLEAN /\ panicked' \in BOOLEAN /\ snap' = snap
  BY DEF restore, restore_fails, Restart, TypeOK
<1> QED
  BY <1>3, <1>4, <1>5, <1>6 DEF TypeOK, Context

LEMMA NextType == TypeOK /\ [Next]_vars => TypeOK'
<1> SUFFICES ASSUME TypeOK, [Next]_vars PROVE TypeOK'
  OBVIOUS
<1>1. CASE UNCHANGED vars
  BY <1>1 DEF vars, TypeOK
<1>2. ASSUME NEW r \in ResIds, NEW cmd \in BlobCmds,
             resource_create_blob(r, cmd) \/ \E c \in CtxIds : context_create_blob(c, r, cmd)
      PROVE  TypeOK'
  BY <1>2, BlobType DEF resource_create_blob, context_create_blob
<1> QED
  BY <1>1, <1>2, Create3dType, ImportType, BackingType, UnrefType, ScanoutType, MapType, ExportType,
     ContextType, AttachType, FenceType, SnapshotType, RestoreType DEF Next

\* Every variable keeps its type.
THEOREM TypeCorrect == Spec => []TypeOK
  BY InitType, NextType, PTL DEF Spec

-----------------------------------------------------------------------------
(* What the C library knows                                                *)

\* A free id has no component, in the table and in the snapshot.
FreeEmpty ==
    \A r \in ResIds : /\ resources[r].mem = "free" => resources[r].mask = {}
                      /\ snap.resources[r].mem = "free" => snap.resources[r].mask = {}
\* A renderer's context is one of the default component.
CtxDefault == \A c \in CtxIds : contexts[c].type \in Renderers => contexts[c].type = default
\* RendererAgrees, id by id.
ResAgree ==
    \A r \in ResIds : /\ InRenderer /\ default \in resources[r].mask => r \in renderer.res
                      /\ ~torn /\ r \in renderer.res => InRenderer /\ default \in resources[r].mask
CtxAgree ==
    \A c \in CtxIds : /\ contexts[c].type \in Renderers => c \in renderer.ctx
                      /\ ~torn /\ c \in renderer.ctx => contexts[c].type \in Renderers
\* A snapshot was taken of a C library that agreed with the tables.
SnapAgrees ==
    snap.taken =>
        /\ \A r \in ResIds : r \in snap.renderer.res <=> InRenderer /\ default \in snap.resources[r].mask
        /\ snap.renderer.ctx = snap.contexts
        /\ snap.contexts # {} => InRenderer
AgreeInv == FreeEmpty /\ CtxDefault /\ ResAgree /\ CtxAgree /\ SnapAgrees

LEMMA SameBuild ==
  ASSUME build' = build
  PROVE  default' = default /\ components' = components /\ (InRenderer' <=> InRenderer)
  BY DEF default, components, InRenderer

LEMMA RendererComponent == ASSUME NEW ty \in components, ty \in Renderers PROVE ty = default
  BY DEF components, Components, default, Renderers

\* An operation that gives resource r the value a, and tells the C library.
LEMMA AgreeOne ==
  ASSUME TypeOK, AgreeInv, NEW r \in ResIds, NEW a \in Resource, SetResource(r, a),
         UNCHANGED <<Rest, contexts>>, renderer'.ctx = renderer.ctx,
         \A s \in ResIds \ {r} : s \in renderer'.res <=> s \in renderer.res,
         InRenderer /\ default \in a.mask => r \in renderer'.res,
         ~torn /\ r \in renderer'.res => InRenderer /\ default \in a.mask,
         a.mem = "free" => a.mask = {}
  PROVE  AgreeInv'
<1>1. default' = default /\ (InRenderer' <=> InRenderer)
  BY SameBuild DEF Rest
<1>2. resources'[r] = a /\ \A s \in ResIds \ {r} : resources'[s] = resources[s]
  BY DEF SetResource, TypeOK
<1>3. snap' = snap /\ torn' = torn /\ contexts' = contexts
  BY DEF Rest
<1>4. FreeEmpty'
  BY <1>2, <1>3 DEF AgreeInv, FreeEmpty
<1>5. CtxDefault' /\ CtxAgree'
  BY <1>1, <1>3 DEF AgreeInv, CtxDefault, CtxAgree
<1>6. ResAgree'
  BY <1>1, <1>2, <1>3 DEF AgreeInv, ResAgree
<1>7. SnapAgrees'
  BY <1>1, <1>3 DEF AgreeInv, SnapAgrees
<1> QED
  BY <1>4, <1>5, <1>6, <1>7 DEF AgreeInv

\* One that leaves the resource's component and the C library's table alone.
LEMMA AgreeSame ==
  ASSUME TypeOK, AgreeInv, NEW r \in ResIds, NEW a \in Resource, SetResource(r, a),
         UNCHANGED <<Rest, contexts>>, renderer'.ctx = renderer.ctx, renderer'.res = renderer.res,
         a.mask = resources[r].mask, a.mem = resources[r].mem
  PROVE  AgreeInv'
<1>1. /\ InRenderer /\ default \in a.mask => r \in renderer'.res
      /\ ~torn /\ r \in renderer'.res => InRenderer /\ default \in a.mask
  BY DEF AgreeInv, ResAgree
<1>2. a.mem = "free" => a.mask = {}
  BY DEF AgreeInv, FreeEmpty
<1> QED
  BY <1>1, <1>2, AgreeOne

LEMMA AgreeInit == Init => AgreeInv
<1> SUFFICES ASSUME Init PROVE AgreeInv
  OBVIOUS
<1>1. FreeEmpty
  BY DEF Init, FreeEmpty, NoResource, NoSnapshot
<1>2. CtxDefault /\ CtxAgree
  BY DEF Init, CtxDefault, CtxAgree, NoContext, NoRenderer, Renderers
<1>3. ResAgree
  BY DEF Init, ResAgree, NoResource, NoRenderer
<1>4. SnapAgrees
  BY DEF Init, SnapAgrees, NoSnapshot
<1> QED
  BY <1>1, <1>2, <1>3, <1>4 DEF AgreeInv

LEMMA AgreeUnref == ASSUME TypeOK, AgreeInv, NEW r \in ResIds, unref_resource(r) PROVE AgreeInv'
<1>1. UNCHANGED <<Rest, contexts>> /\ renderer \in RendererState /\ SetResource(r, NoResource)
  BY DEF unref_resource, TypeOK
<1>2. renderer'.res = renderer.res \ {r} /\ renderer'.ctx = renderer.ctx
  BY <1>1 DEF RendererState, unref_resource, Released
<1>3. NoResource.mask = {}
  BY DEF NoResource
<1> QED
  BY <1>1, <1>2, <1>3, NewResourceType, AgreeOne

\* attach_backing and detach_backing, as the tables see them.
LEMMA BackingStep ==
  ASSUME TypeOK, NEW r \in ResIds, attach_backing(r) \/ detach_backing(r)
  PROVE  \E id \in 0 .. MaxVecs :
            /\ SetResource(r, [resources[r] EXCEPT !.backing = id])
            /\ id # 0 => IsNewVec(id)
            /\ renderer'.res = renderer.res /\ renderer'.ctx = renderer.ctx /\ renderer'.map = renderer.map
<1>1. renderer \in RendererState
  BY DEF TypeOK
<1>2. CASE attach_backing(r)
  <2>1. PICK id \in 1 .. MaxVecs :
          /\ IsNewVec(id)
          /\ resources' = [resources EXCEPT ![r].backing = id]
          /\ renderer' = IF InRenderer THEN [renderer EXCEPT !.iov[r] = id] ELSE renderer
    BY <1>2 DEF attach_backing
  <2>2. SetResource(r, [resources[r] EXCEPT !.backing = id])
    BY <2>1 DEF SetResource
  <2>3. renderer'.res = renderer.res /\ renderer'.ctx = renderer.ctx /\ renderer'.map = renderer.map
    BY <1>1, <2>1 DEF RendererState
  <2>4. id \in 0 .. MaxVecs
    BY CoreAssumption
  <2> QED
    BY <2>1, <2>2, <2>3, <2>4
<1>3. CASE detach_backing(r)
  <2>1. SetResource(r, [resources[r] EXCEPT !.backing = 0])
    BY <1>3 DEF detach_backing, SetResource
  <2>2. renderer'.res = renderer.res /\ renderer'.ctx = renderer.ctx /\ renderer'.map = renderer.map
    BY <1>1, <1>3 DEF RendererState, detach_backing
  <2>3. 0 \in 0 .. MaxVecs
    BY CoreAssumption
  <2> QED
    BY <2>1, <2>2, <2>3
<1> QED
  BY <1>2, <1>3

LEMMA AgreeBacking ==
  ASSUME TypeOK, AgreeInv, NEW r \in ResIds, attach_backing(r) \/ detach_backing(r) PROVE AgreeInv'
<1>1. PICK id \in 0 .. MaxVecs :
            /\ SetResource(r, [resources[r] EXCEPT !.backing = id])
            /\ renderer'.res = renderer.res /\ renderer'.ctx = renderer.ctx
  BY BackingStep
<1>2. PICK a : a = [resources[r] EXCEPT !.backing = id]
  OBVIOUS
<1>3. a \in Resource /\ a.mask = resources[r].mask /\ a.mem = resources[r].mem
  <2>1. resources[r] \in Resource
    BY DEF TypeOK
  <2> QED
    BY <1>2, <2>1, WithBacking DEF Resource
<1>4. UNCHANGED <<Rest, contexts>>
  BY DEF attach_backing, detach_backing
<1> QED
  BY <1>1, <1>2, <1>3, <1>4, AgreeSame

LEMMA AgreeScanout == ASSUME TypeOK, AgreeInv, NEW r \in ResIds, set_scanout(r) PROVE AgreeInv'
<1>1. PICK a : a = [resources[r] EXCEPT !.stride = TRUE]
  OBVIOUS
<1>2. a \in Resource /\ a.mask = resources[r].mask /\ a.mem = resources[r].mem
  <2>1. resources[r] \in Resource
    BY DEF TypeOK
  <2> QED
    BY <1>1, <2>1, WithFlags DEF Resource
<1>3. SetResource(r, a) /\ UNCHANGED <<Rest, contexts, renderer>>
  BY <1>1 DEF set_scanout, SetResource
<1> QED
  BY <1>2, <1>3, AgreeSame

\* What mapping and unmapping resource r may make of it.
Mapped(r, a) ==
    /\ a.mask = resources[r].mask /\ a.mem = resources[r].mem /\ a.backing = resources[r].backing
    /\ a.handle \in {resources[r].handle, NoHandle}
    /\ a.mapping => resources[r].mapping \/ (IsComponent(r, "CrossDomain") /\ a.handle.type = "shm")

\* map and unmap, as the tables see them.
LEMMA MapStep ==
  ASSUME TypeOK, NEW r \in ResIds, map(r) \/ unmap(r)
  PROVE  /\ UNCHANGED <<Rest, contexts>> /\ Running
         /\ renderer'.res = renderer.res /\ renderer'.ctx = renderer.ctx
         /\ \E a \in Resource : SetResource(r, a) /\ Mapped(r, a)
         /\ \A s \in ResIds : s \in renderer'.map =>
               s \in renderer.map \/ (s = r /\ IsComponent(r, default))
<1>1. resources[r] \in Resource /\ renderer \in RendererState
  BY DEF TypeOK
<1>2. UNCHANGED <<Rest, contexts>> /\ Running
  BY DEF map, unmap
<1>3. CASE MapInRenderer(r) \/ (IsComponent(r, default) /\ renderer' = [renderer EXCEPT !.map = @ \ {r}]
                                /\ UNCHANGED resources)
  <2>1. SetResource(r, resources[r])
    BY <1>3 DEF MapInRenderer, SetResource, TypeOK
  <2>2. renderer'.res = renderer.res /\ renderer'.ctx = renderer.ctx
    BY <1>1, <1>3 DEF MapInRenderer, RendererState
  <2>3. \A s \in ResIds : s \in renderer'.map => s \in renderer.map \/ (s = r /\ IsComponent(r, default))
    BY <1>1, <1>3 DEF MapInRenderer, RendererState
  <2>4. Mapped(r, resources[r])
    BY Zenon DEF Mapped
  <2> QED
    BY <1>1, <1>2, <2>1, <2>2, <2>3, <2>4
<1>4. ASSUME NEW a, a \in {[resources[r] EXCEPT !.mapping = FALSE], [resources[r] EXCEPT !.handle = NoHandle]}
                         \/ (a = [resources[r] EXCEPT !.mapping = TRUE] /\ IsComponent(r, "CrossDomain")
                             /\ resources[r].handle.type = "shm"),
             resources' = [resources EXCEPT ![r] = a], UNCHANGED renderer
      PROVE  SetResource(r, a) /\ a \in Resource /\ Mapped(r, a)
  <2>1. a \in Resource
    BY <1>1, <1>4, WithFlags, WithHandle, NoHandleType
  <2>2. /\ a.mask = resources[r].mask /\ a.mem = resources[r].mem /\ a.backing = resources[r].backing
        /\ a.handle \in {resources[r].handle, NoHandle}
    BY <1>1, <1>4 DEF Resource
  <2>3. a.mapping => resources[r].mapping \/ (IsComponent(r, "CrossDomain") /\ a.handle.type = "shm")
    <3>1. CASE a = [resources[r] EXCEPT !.mapping = FALSE]
      BY <1>1, <3>1 DEF Resource
    <3>2. CASE a = [resources[r] EXCEPT !.handle = NoHandle]
      <4>1. a.mapping = resources[r].mapping
        BY <1>1, <3>2 DEF Resource
      <4> QED
        BY <4>1, Zenon
    <3>3. CASE a = [resources[r] EXCEPT !.mapping = TRUE] /\ IsComponent(r, "CrossDomain")
               /\ resources[r].handle.type = "shm"
      <4>1. a.handle = resources[r].handle
        BY <1>1, <3>3 DEF Resource
      <4> QED
        BY <3>3, <4>1
    <3> QED
      BY <1>4, <3>1, <3>2, <3>3
  <2> QED
    BY <1>4, <2>1, <2>2, <2>3, Zenon DEF SetResource, Mapped
<1>5. CASE ~(MapInRenderer(r) \/ (IsComponent(r, default) /\ renderer' = [renderer EXCEPT !.map = @ \ {r}]
                                  /\ UNCHANGED resources))
  <2>1. \E a : /\ \/ a \in {[resources[r] EXCEPT !.mapping = FALSE], [resources[r] EXCEPT !.handle = NoHandle]}
                  \/ (a = [resources[r] EXCEPT !.mapping = TRUE] /\ IsComponent(r, "CrossDomain")
                      /\ resources[r].handle.type = "shm")
               /\ resources' = [resources EXCEPT ![r] = a] /\ UNCHANGED renderer
    BY <1>5 DEF map, unmap, MapHandle
  <2>2. \E a \in Resource : SetResource(r, a) /\ Mapped(r, a)
    BY <1>4, <2>1
  <2>3. renderer' = renderer
    BY <2>1
  <2> QED
    BY <1>2, <2>2, <2>3
<1> QED
  BY <1>3, <1>5

LEMMA AgreeMap == ASSUME TypeOK, AgreeInv, NEW r \in ResIds, map(r) \/ unmap(r) PROVE AgreeInv'
  BY MapStep, AgreeSame DEF Mapped

LEMMA AgreeExport == ASSUME TypeOK, AgreeInv, NEW r \in ResIds, export_blob(r) PROVE AgreeInv'
<1>1. default' = default /\ (InRenderer' <=> InRenderer)
  BY SameBuild DEF export_blob
<1>2. UNCHANGED <<contexts, renderer, snap, torn>>
  BY DEF export_blob
<1>3. \A s \in ResIds : resources'[s].mask = resources[s].mask /\ resources'[s].mem = resources[s].mem
  BY DEF export_blob, TypeOK, Resource
<1> QED
  BY <1>1, <1>2, <1>3 DEF AgreeInv, FreeEmpty, CtxDefault, ResAgree, CtxAgree, SnapAgrees

\* The ways to make a resource, as the tables see them.
Creation(r) ==
    \/ resource_create_3d(r) \/ resource_import(r)
    \/ \E cmd \in BlobCmds : \/ resource_create_blob(r, cmd)
                             \/ \E c \in CtxIds : context_create_blob(c, r, cmd)
Created(a) ==
    /\ a.mem # "free" /\ a.mapping = FALSE
    /\ IsNewHandle(a.handle)
    /\ a.backing # 0 => IsNewVec(a.backing)
Known(r, a) ==
    \/ InRenderer /\ a.mask = {default} /\ renderer'.res = renderer.res \cup {r}
    \/ ~(InRenderer /\ default \in a.mask) /\ renderer'.res = renderer.res

LEMMA BlobStep ==
  ASSUME TypeOK, NEW r \in ResIds, NEW cmd \in BlobCmds,
         Blob2D(r, cmd) \/ RendererBlob(r, cmd) \/ CrossDomainBlob(r, cmd) \/ ContextBlob(r, cmd)
  PROVE  /\ renderer'.ctx = renderer.ctx /\ renderer'.map = renderer.map
         /\ \E a \in Resource : SetResource(r, a) /\ Created(a) /\ Known(r, a)
<1>1. renderer \in RendererState /\ IsNewHandle(NoHandle)
  BY DEF TypeOK, IsNewHandle
<1>2. /\ default \in ComponentTypes /\ "CrossDomain" \in ComponentTypes
      /\ default = "Rutabaga2D" => ~InRenderer
      /\ InRenderer => default # "CrossDomain"
  BY DefaultType DEF ComponentTypes, InRenderer, Renderers
<1>3. cmd.mem \in {"guest", "host"}
  BY CoreAssumption
<1>4. CASE Blob2D(r, cmd)
  <2>1. PICK id \in 0 .. MaxVecs :
          /\ NewBacking(cmd.mem, id)
          /\ SetResource(r, [Blob(cmd, default) EXCEPT !.host_mem = "none", !.backing = id])
    BY <1>4 DEF Blob2D
  <2>2. PICK a : a = [Blob(cmd, default) EXCEPT !.host_mem = "none", !.backing = id]
    OBVIOUS
  <2>3. a \in Resource
    BY <1>2, <2>2, NewResourceType, WithBacking
  <2>4. a.mem # "free" /\ a.mapping = FALSE /\ a.handle = NoHandle /\ a.backing = id
    BY <1>3, <2>2 DEF Blob, NoResource
  <2>5. Created(a)
    BY <1>1, <2>1, <2>4 DEF Created, NewBacking
  <2>6. Known(r, a)
    BY <1>2, <1>4 DEF Known, Blob2D
  <2> QED
    BY <1>4, <2>1, <2>2, <2>3, <2>5, <2>6 DEF Blob2D
<1>5. CASE RendererBlob(r, cmd)
  <2>1. PICK id \in 0 .. MaxVecs, h \in HostHandles \cup {NoHandle} :
          /\ NewBacking(cmd.mem, id) /\ IsNewHandle(h)
          /\ SetResource(r, [Blob(cmd, default) EXCEPT !.backing = id, !.handle = h])
          /\ renderer' = [renderer EXCEPT !.res = @ \cup {r}, !.iov[r] = id]
    BY <1>5 DEF RendererBlob
  <2>2. PICK a : a = [Blob(cmd, default) EXCEPT !.backing = id, !.handle = h]
    OBVIOUS
  <2>3. a \in Resource
    BY <1>2, <2>2, NewResourceType, WithBackingHandle DEF HostHandles, MaybeHandle
  <2>4. /\ a.mem # "free" /\ a.mapping = FALSE /\ a.handle = h /\ a.backing = id
        /\ a.mask = {default}
    BY <1>3, <2>2 DEF Blob, NoResource
  <2>5. Created(a)
    BY <1>1, <2>1, <2>4 DEF Created, NewBacking
  <2>6. /\ renderer'.res = renderer.res \cup {r} /\ renderer'.ctx = renderer.ctx
        /\ renderer'.map = renderer.map
    BY <1>1, <2>1 DEF RendererState
  <2>7. Known(r, a)
    BY <1>5, <2>4, <2>6 DEF Known, RendererBlob
  <2> QED
    BY <2>1, <2>2, <2>3, <2>5, <2>6, <2>7
<1>6. CASE CrossDomainBlob(r, cmd)
  <2>1. PICK id \in 0 .. MaxVecs :
          /\ NewBacking(cmd.mem, id)
          /\ SetResource(r, [Blob(cmd, "CrossDomain") EXCEPT !.backing = id])
    BY <1>6 DEF CrossDomainBlob
  <2>2. PICK a : a = [Blob(cmd, "CrossDomain") EXCEPT !.backing = id]
    OBVIOUS
  <2>3. a \in Resource
    BY <1>2, <2>2, NewResourceType, WithBacking
  <2>4. /\ a.mem # "free" /\ a.mapping = FALSE /\ a.handle = NoHandle /\ a.backing = id
        /\ a.mask = {"CrossDomain"}
    BY <1>3, <2>2 DEF Blob, NoResource
  <2>5. Created(a)
    BY <1>1, <2>1, <2>4 DEF Created, NewBacking
  <2>6. Known(r, a)
    BY <1>2, <1>6, <2>4 DEF Known, CrossDomainBlob
  <2> QED
    BY <1>6, <2>1, <2>2, <2>3, <2>5, <2>6 DEF CrossDomainBlob
<1>7. CASE ContextBlob(r, cmd)
  <2>1. PICK h \in HostHandles :
          /\ IsNewHandle(h)
          /\ SetResource(r, [Blob(cmd, "CrossDomain") EXCEPT !.handle = h])
    BY <1>7 DEF ContextBlob
  <2>2. PICK a : a = [Blob(cmd, "CrossDomain") EXCEPT !.handle = h]
    OBVIOUS
  <2>3. a \in Resource
    BY <1>2, <2>2, NewResourceType, WithHandle DEF HostHandles, MaybeHandle
  <2>4. /\ a.mem # "free" /\ a.mapping = FALSE /\ a.handle = h /\ a.backing = 0
        /\ a.mask = {"CrossDomain"}
    BY <1>3, <2>2 DEF Blob, NoResource
  <2>5. Created(a)
    BY <2>1, <2>4 DEF Created
  <2>6. Known(r, a)
    BY <1>2, <1>7, <2>4 DEF Known, ContextBlob
  <2> QED
    BY <1>7, <2>1, <2>2, <2>3, <2>5, <2>6 DEF ContextBlob
<1> QED
  BY <1>4, <1>5, <1>6, <1>7

LEMMA Create3dStep ==
  ASSUME TypeOK, NEW r \in ResIds, resource_create_3d(r) \/ resource_import(r)
  PROVE  /\ renderer'.ctx = renderer.ctx /\ renderer'.map = renderer.map
         /\ \E a \in Resource : SetResource(r, a) /\ Created(a) /\ Known(r, a)
<1>1. renderer \in RendererState /\ IsNewHandle(NoHandle)
  BY DEF TypeOK, IsNewHandle
<1>2. {default} \in SUBSET ComponentTypes /\ (default \in {"Rutabaga2D", "CrossDomain"} => ~InRenderer)
  BY DefaultType DEF ComponentTypes, InRenderer, Renderers
<1>3. ASSUME default = "Rutabaga2D", UNCHANGED renderer, NEW m \in {"full", "huge"},
             SetResource(r, [PlainResource EXCEPT !.mask = {default}, !.host_mem = m])
      PROVE  /\ renderer'.ctx = renderer.ctx /\ renderer'.map = renderer.map
             /\ \E a \in Resource : SetResource(r, a) /\ Created(a) /\ Known(r, a)
  <2>1. PICK a : a = [PlainResource EXCEPT !.mask = {default}, !.host_mem = m]
    OBVIOUS
  <2>2. a \in Resource
    BY <1>2, <2>1, NewResourceType, WithMask
  <2>3. Created(a)
    BY <1>1, <2>1 DEF Created, PlainResource, NoResource
  <2> QED
    BY <1>2, <1>3, <2>1, <2>2, <2>3 DEF Known
<1>4. CASE default = "CrossDomain" /\ SetResource(r, PlainResource) /\ UNCHANGED renderer
  <2>1. Created(PlainResource)
    BY <1>1 DEF Created, PlainResource, NoResource
  <2> QED
    BY <1>2, <1>4, <2>1, NewResourceType DEF Known
<1>5. ASSUME NEW h \in HostHandles \cup {NoHandle}, InRenderer, IsNewHandle(h),
             SetResource(r, [PlainResource EXCEPT !.mask = {default}, !.handle = h]),
             renderer' = [renderer EXCEPT !.res = @ \cup {r}]
      PROVE  /\ renderer'.ctx = renderer.ctx /\ renderer'.map = renderer.map
             /\ \E a \in Resource : SetResource(r, a) /\ Created(a) /\ Known(r, a)
  <2>1. PICK a : a = [PlainResource EXCEPT !.mask = {default}, !.handle = h]
    OBVIOUS
  <2>2. a \in Resource
    BY <1>2, <2>1, NewResourceType, WithMaskHandle DEF HostHandles, MaybeHandle
  <2>3. Created(a) /\ a.mask = {default}
    BY <1>5, <2>1 DEF Created, PlainResource, NoResource
  <2>4. /\ renderer'.res = renderer.res \cup {r} /\ renderer'.ctx = renderer.ctx
        /\ renderer'.map = renderer.map
    BY <1>1, <1>5 DEF RendererState
  <2> QED
    BY <1>5, <2>1, <2>2, <2>3, <2>4 DEF Known
<1>6. CASE resource_import(r)
  <2>1. PICK a : a = [PlainResource EXCEPT !.mask = {default}]
    OBVIOUS
  <2>2. a \in Resource
    BY <1>2, <2>1, NewResourceType, WithMask
  <2>3. Created(a) /\ a.mask = {default}
    BY <1>1, <2>1 DEF Created, PlainResource, NoResource
  <2>4. /\ renderer'.res = renderer.res \cup {r} /\ renderer'.ctx = renderer.ctx
        /\ renderer'.map = renderer.map
    BY <1>1, <1>6 DEF RendererState, resource_import
  <2>5. InRenderer /\ SetResource(r, a)
    BY <1>6, <2>1 DEF resource_import, InRenderer, Renderers
  <2> QED
    BY <2>2, <2>3, <2>4, <2>5 DEF Known
<1> QED
  BY <1>3, <1>4, <1>5, <1>6 DEF resource_create_3d

LEMMA CreationStep ==
  ASSUME TypeOK, NEW r \in ResIds, Creation(r)
  PROVE  /\ Running /\ UNCHANGED <<Rest, contexts>>
         /\ Exists(r) => r \notin renderer.res /\ InRenderer
         /\ renderer'.ctx = renderer.ctx /\ renderer'.map = renderer.map
         /\ \E a \in Resource : SetResource(r, a) /\ Created(a) /\ Known(r, a)
<1>1. CASE resource_create_3d(r) \/ resource_import(r)
  <2>1. /\ Running /\ UNCHANGED <<Rest, contexts>> 
        /\ Exists(r) => r \notin renderer.res /\ InRenderer
    BY <1>1 DEF resource_create_3d, resource_import, InRenderer, Renderers
  <2> QED
    BY <1>1, <2>1, Create3dStep
<1>2. ASSUME NEW cmd \in BlobCmds,
             resource_create_blob(r, cmd) \/ \E c \in CtxIds : context_create_blob(c, r, cmd)
      PROVE  /\ Running /\ UNCHANGED <<Rest, contexts>> /\ ~Exists(r)
             /\ Blob2D(r, cmd) \/ RendererBlob(r, cmd) \/ CrossDomainBlob(r, cmd) \/ ContextBlob(r, cmd)
  BY <1>2 DEF resource_create_blob, context_create_blob
<1> QED
  BY <1>1, <1>2, BlobStep DEF Creation

LEMMA AgreeCreation == ASSUME TypeOK, AgreeInv, NEW r \in ResIds, Creation(r) PROVE AgreeInv'
<1>1. /\ ~torn /\ UNCHANGED <<Rest, contexts>> /\ renderer'.ctx = renderer.ctx
      /\ Exists(r) => r \notin renderer.res
  BY CreationStep DEF Running
<1>2. PICK a \in Resource : SetResource(r, a) /\ Created(a) /\ Known(r, a)
  BY CreationStep
<1>3. r \notin renderer.res
  BY <1>1 DEF AgreeInv, FreeEmpty, ResAgree, Exists
<1>4. /\ \A s \in ResIds \ {r} : s \in renderer'.res <=> s \in renderer.res
      /\ r \in renderer'.res <=> InRenderer /\ default \in a.mask
  BY <1>2, <1>3 DEF Known
<1>5. a.mem # "free"
  BY <1>2 DEF Created
<1> QED
  BY <1>1, <1>2, <1>4, <1>5, AgreeOne

\* What opening or closing context c may make of it.
SetContext(c, x) ==
    /\ contexts' = [contexts EXCEPT ![c] = x]
    /\ x.type \in Renderers => x.type = default
    /\ renderer'.ctx = IF x.type \in Renderers THEN renderer.ctx \cup {c} ELSE renderer.ctx \ {c}

LEMMA AgreeContext ==
  ASSUME TypeOK, AgreeInv, NEW c \in CtxIds,
         destroy_context(c) \/ \E capset \in Capsets : create_context(c, capset)
  PROVE  AgreeInv'
<1>1. /\ UNCHANGED <<Rest, resources>> /\ renderer \in RendererState /\ ~torn
  BY DEF destroy_context, create_context, TypeOK, Running
<1>2. default' = default /\ (InRenderer' <=> InRenderer)
  BY <1>1, SameBuild DEF Rest
<1>3. \E x : SetContext(c, x)
  <2>1. CASE destroy_context(c)
    <3>1. NoContext.type \notin Renderers
      BY DEF NoContext, Renderers
    <3>2. contexts[c].type \notin Renderers => c \notin renderer.ctx
      BY <1>1 DEF AgreeInv, CtxAgree
    <3>3. renderer'.ctx = renderer.ctx \ {c}
      BY <1>1, <2>1, <3>2 DEF destroy_context, Closed, RendererState
    <3>4. SetContext(c, NoContext)
      BY <2>1, <3>1, <3>3 DEF destroy_context, SetContext
    <3> QED
      BY <3>4
  <2>2. ASSUME NEW capset \in Capsets, create_context(c, capset)
        PROVE  \E x : SetContext(c, x)
    <3>1. PICK ty \in components : /\ contexts' = [contexts EXCEPT ![c] = NewContext(ty)]
              /\ renderer' = IF ty \in Renderers THEN [renderer EXCEPT !.ctx = @ \cup {c}] ELSE renderer
      BY <2>2 DEF create_context
    <3>2. NewContext(ty).type = ty
      BY DEF NewContext, NoContext
    <3>3. c \notin renderer.ctx
      BY <1>1, <2>2 DEF AgreeInv, CtxAgree, create_context, Open, Renderers
    <3>4. renderer'.ctx = IF ty \in Renderers THEN renderer.ctx \cup {c} ELSE renderer.ctx \ {c}
      BY <1>1, <3>1, <3>3 DEF RendererState
    <3>5. SetContext(c, NewContext(ty))
      BY <3>1, <3>2, <3>4, RendererComponent DEF SetContext
    <3> QED
      BY <3>5
  <2> QED
    BY <2>1, <2>2
<1>4. renderer'.res = renderer.res
  BY <1>1 DEF destroy_context, create_context, Closed, RendererState
<1>5. FreeEmpty' /\ ResAgree' /\ SnapAgrees'
  BY <1>1, <1>2, <1>4 DEF AgreeInv, FreeEmpty, ResAgree, SnapAgrees, Rest
<1>6. CtxDefault' /\ CtxAgree'
  BY <1>1, <1>2, <1>3 DEF SetContext, AgreeInv, CtxDefault, CtxAgree, TypeOK, Rest
<1> QED
  BY <1>5, <1>6 DEF AgreeInv

LEMMA AgreeAttach ==
  ASSUME TypeOK, AgreeInv, NEW c \in CtxIds, NEW r \in ResIds,
         context_attach_resource(c, r) \/ context_detach_resource(c, r)
  PROVE  AgreeInv'
<1>1. UNCHANGED Rest /\ renderer \in RendererState /\ ~torn /\ Exists(r)
  BY DEF context_attach_resource, context_detach_resource, TypeOK, Running
<1>2. default' = default /\ (InRenderer' <=> InRenderer) /\ snap' = snap /\ torn' = torn
  BY <1>1, SameBuild DEF Rest
<1>3. \A d \in CtxIds : contexts'[d].type = contexts[d].type
  BY DEF context_attach_resource, context_detach_resource, AttachGuest, AttachHandle, AttachVirgl, TypeOK
<1>4. \A s \in ResIds : resources'[s].mem = resources[s].mem
  BY DEF context_attach_resource, context_detach_resource, AttachGuest, AttachHandle, AttachVirgl, TypeOK,
         Resource
<1>5. CASE AttachVirgl(c, r)
  <2>1. default = "VirglRenderer" /\ InRenderer
    BY <1>5 DEF AttachVirgl, AgreeInv, CtxDefault, Renderers, InRenderer
  <2>2. /\ resources'[r].mask = resources[r].mask \cup {default}
        /\ \A s \in ResIds \ {r} : resources'[s] = resources[s]
    BY <1>5, <2>1 DEF AttachVirgl, TypeOK, Resource
  <2>3. renderer'.res = renderer.res \cup {r} /\ renderer'.ctx = renderer.ctx
    BY <1>1, <1>5 DEF AttachVirgl, RendererState
  <2>4. FreeEmpty'
    BY <1>1, <1>2, <1>4, <2>2 DEF AgreeInv, FreeEmpty, Exists
  <2>5. ResAgree'
    BY <1>2, <2>1, <2>2, <2>3 DEF AgreeInv, ResAgree
  <2>6. CtxDefault' /\ CtxAgree' /\ SnapAgrees'
    BY <1>2, <1>3, <2>3 DEF AgreeInv, CtxDefault, CtxAgree, SnapAgrees
  <2> QED
    BY <2>4, <2>5, <2>6 DEF AgreeInv
<1>6. CASE UNCHANGED renderer /\ \A s \in ResIds : resources'[s].mask = resources[s].mask
  BY <1>2, <1>3, <1>4, <1>6 DEF AgreeInv, FreeEmpty, CtxDefault, ResAgree, CtxAgree, SnapAgrees
<1>7. AttachVirgl(c, r) \/ (UNCHANGED renderer /\ \A s \in ResIds : resources'[s].mask = resources[s].mask)
  <2>1. CASE AttachGuest(c, r)
    BY <2>1 DEF AttachGuest, TypeOK, Resource
  <2>2. CASE AttachHandle(c, r) \/ context_detach_resource(c, r)
    BY <2>2 DEF AttachHandle, context_detach_resource
  <2> QED
    BY <2>1, <2>2 DEF context_attach_resource
<1> QED
  BY <1>5, <1>6, <1>7

LEMMA AgreeSnapshot == ASSUME TypeOK, AgreeInv, snapshot PROVE AgreeInv'
<1>1. UNCHANGED <<build, resources, contexts, renderer, torn>> /\ ~torn /\ renderer \in RendererState
  BY DEF snapshot, Running, TypeOK
<1>2. default' = default /\ (InRenderer' <=> InRenderer)
  BY <1>1, SameBuild
<1>3. \A r \in ResIds : /\ snap'.resources[r].mask = resources[r].mask
                        /\ snap'.resources[r].mem = resources[r].mem
  <2>1. \A r \in ResIds : snap'.resources[r] = Preserved(resources[r])
    BY DEF snapshot
  <2>2. \A a \in Resource : Preserved(a).mask = a.mask /\ Preserved(a).mem = a.mem
    BY DEF Preserved, Resource
  <2> QED
    BY <2>1, <2>2 DEF TypeOK
<1>4. snap'.renderer.res = renderer.res /\ snap'.renderer.ctx = renderer.ctx
  BY <1>1 DEF snapshot, RendererState
<1>5. snap'.contexts = {c \in CtxIds : contexts[c].type \in Renderers}
  BY DEF snapshot, Open, Renderers
<1>6. FreeEmpty' /\ CtxDefault' /\ ResAgree' /\ CtxAgree'
  BY <1>1, <1>2, <1>3 DEF AgreeInv, FreeEmpty, CtxDefault, ResAgree, CtxAgree
<1>7. SnapAgrees'
  <2>1. renderer.ctx = {c \in CtxIds : contexts[c].type \in Renderers}
    BY <1>1 DEF AgreeInv, CtxAgree, RendererState
  <2>2. \A r \in ResIds : r \in renderer.res <=> InRenderer /\ default \in resources[r].mask
    BY <1>1 DEF AgreeInv, ResAgree
  <2>3. snap'.contexts # {} => InRenderer
    BY <1>5 DEF AgreeInv, CtxDefault, InRenderer
  <2> QED
    BY <1>2, <1>3, <1>4, <1>5, <2>1, <2>2, <2>3 DEF SnapAgrees
<1> QED
  BY <1>6, <1>7 DEF AgreeInv

LEMMA AgreeRestore == ASSUME TypeOK, AgreeInv, restore \/ restore_fails \/ Restart PROVE AgreeInv'
<1>1. /\ build' = build /\ snap' = snap /\ snap.taken
      /\ snap.renderer \in RendererState /\ snap.contexts \subseteq CtxIds
  BY DEF restore, restore_fails, Restart, TypeOK
<1>2. default' = default /\ (InRenderer' <=> InRenderer)
  BY <1>1, SameBuild
<1>3. SnapAgrees'
  BY <1>1, <1>2 DEF AgreeInv, SnapAgrees
<1>4. /\ NoResource.mask = {} /\ NoRenderer.res = {} /\ NoRenderer.ctx = {} /\ NoContext.type \notin Renderers
      /\ \A ty : NewContext(ty).type = ty
  BY DEF NoResource, NoRenderer, NoContext, NewContext, Renderers
<1>5. CASE restore
  <2>1. FreeEmpty' /\ ResAgree'
    BY <1>1, <1>2, <1>5 DEF restore, AgreeInv, FreeEmpty, ResAgree, SnapAgrees
  <2>2. CtxDefault' /\ CtxAgree'
    BY <1>1, <1>2, <1>4, <1>5 DEF restore, AgreeInv, CtxDefault, CtxAgree, SnapAgrees, InRenderer
  <2> QED
    BY <1>3, <2>1, <2>2 DEF AgreeInv
<1>6. ASSUME contexts' = [c \in CtxIds |-> NoContext], resources' \in {snap.resources, [r \in ResIds |-> NoResource]},
             \/ ~torn' /\ renderer' = NoRenderer /\ resources' = [r \in ResIds |-> NoResource]
             \/ torn' /\ renderer'.res = snap.renderer.res
      PROVE  AgreeInv'
  <2>1. FreeEmpty'
    BY <1>1, <1>4, <1>6 DEF AgreeInv, FreeEmpty
  <2>2. CtxDefault' /\ CtxAgree'
    BY <1>4, <1>6 DEF CtxDefault, CtxAgree
  <2>3. ResAgree'
    BY <1>1, <1>2, <1>4, <1>6 DEF AgreeInv, ResAgree, SnapAgrees
  <2> QED
    BY <1>3, <2>1, <2>2, <2>3 DEF AgreeInv
<1>7. CASE restore_fails
  <2>1. CASE renderer' = NoRenderer /\ torn' = FALSE /\ resources' = [r \in ResIds |-> NoResource]
    BY <1>6, <1>7, <2>1 DEF restore_fails
  <2>2. CASE renderer' = snap.renderer /\ torn' = TRUE /\ resources' = [r \in ResIds |-> NoResource]
    BY <1>6, <1>7, <2>2 DEF restore_fails
  <2>3. CASE \E first : renderer' = [snap.renderer EXCEPT !.ctx = @ \ first] /\ torn' = TRUE
                        /\ resources' = snap.resources
    <3>1. renderer'.res = snap.renderer.res
      BY <1>1, <2>3 DEF RendererState
    <3> QED
      BY <1>6, <1>7, <2>3, <3>1 DEF restore_fails
  <2> QED
    BY <1>7, <2>1, <2>2, <2>3 DEF restore_fails
<1>8. CASE Restart
  BY <1>6, <1>8 DEF Restart
<1> QED
  BY <1>5, <1>7, <1>8

\* Next, by what a step does to the tables.
LEMMA Steps ==
  ASSUME [Next]_vars
  PROVE  \/ \E r \in ResIds : \/ Creation(r) \/ attach_backing(r) \/ detach_backing(r)
                              \/ unref_resource(r) \/ set_scanout(r)
                              \/ map(r) \/ unmap(r) \/ export_blob(r)
         \/ \E c \in CtxIds : destroy_context(c) \/ \E capset \in Capsets : create_context(c, capset)
         \/ \E c \in CtxIds, r \in ResIds : context_attach_resource(c, r) \/ context_detach_resource(c, r)
         \/ UNCHANGED <<build, resources, contexts, renderer, exported, snap, torn>>
         \/ snapshot \/ restore \/ restore_fails \/ Restart
<1>1. CASE UNCHANGED vars
  BY <1>1 DEF vars
<1>2. ASSUME NEW f \in FenceIds,
             destroy_fences(f) \/ \E c \in CtxIds, ring \in {0, 1} : create_fence(f, c, ring)
      PROVE  UNCHANGED <<build, resources, contexts, renderer, exported, snap, torn>>
  BY <1>2 DEF destroy_fences, create_fence
<1> QED
  BY <1>1, <1>2 DEF Next, Creation

LEMMA AgreeNext == TypeOK /\ AgreeInv /\ [Next]_vars => AgreeInv'
<1> SUFFICES ASSUME TypeOK, AgreeInv, [Next]_vars PROVE AgreeInv'
  OBVIOUS
<1>1. CASE UNCHANGED <<build, resources, contexts, renderer, exported, snap, torn>>
  <2>1. default' = default /\ (InRenderer' <=> InRenderer)
    BY <1>1, SameBuild
  <2> QED
    BY <1>1, <2>1 DEF AgreeInv, FreeEmpty, CtxDefault, ResAgree, CtxAgree, SnapAgrees
<1> QED
  BY <1>1, Steps, AgreeCreation, AgreeBacking, AgreeUnref, AgreeScanout, AgreeMap, AgreeExport,
     AgreeContext, AgreeAttach, AgreeSnapshot, AgreeRestore

LEMMA AgreeImplies == TypeOK /\ AgreeInv => RendererAgrees
  BY DEF TypeOK, AgreeInv, ResAgree, CtxAgree, RendererAgrees, RendererState

LEMMA AgreeAlways == Spec => []AgreeInv
  BY TypeCorrect, AgreeInit, AgreeNext, PTL DEF Spec

\* The C library has what the tables say it has, whatever the guest creates,
\* attaches and drops and however a restore ends; and no more, unless a restore
\* failed late.
THEOREM RendererAlwaysAgrees == Spec => []RendererAgrees
  BY TypeCorrect, AgreeAlways, AgreeImplies, PTL

-----------------------------------------------------------------------------
(* Mappings, handles and iovecs                                            *)

\* A snapshot keeps no handle, no iovecs and no mapping.
SnapBare ==
    /\ snap.renderer.map = {}
    /\ \A r \in ResIds : /\ snap.resources[r].handle = NoHandle /\ snap.resources[r].backing = 0
                         /\ snap.resources[r].mapping = FALSE

LEMMA BareInit == Init => SnapBare
  BY DEF Init, SnapBare, NoSnapshot, NoResource, NoRenderer

\* Only a snapshot changes the snapshot.
LEMMA SnapKept == ASSUME TypeOK, [Next]_vars PROVE snapshot \/ UNCHANGED snap
<1>1. ASSUME NEW r \in ResIds, Creation(r) \/ map(r) \/ unmap(r) PROVE UNCHANGED snap
  BY <1>1, CreationStep, MapStep DEF Rest
<1>2. ASSUME NEW r \in ResIds, attach_backing(r) \/ detach_backing(r) \/ unref_resource(r) \/ set_scanout(r)
                               \/ export_blob(r)
      PROVE  UNCHANGED snap
  BY <1>2 DEF attach_backing, detach_backing, unref_resource, set_scanout, export_blob, Rest
<1>3. ASSUME NEW c \in CtxIds, NEW r \in ResIds, context_attach_resource(c, r) \/ context_detach_resource(c, r)
      PROVE  UNCHANGED snap
  BY <1>3 DEF context_attach_resource, context_detach_resource, Rest
<1>4. ASSUME NEW c \in CtxIds, destroy_context(c) \/ \E capset \in Capsets : create_context(c, capset)
      PROVE  UNCHANGED snap
  BY <1>4 DEF destroy_context, create_context, Rest
<1>5. ASSUME restore \/ restore_fails \/ Restart PROVE UNCHANGED snap
  BY <1>5 DEF restore, restore_fails, Restart
<1> QED
  BY <1>1, <1>2, <1>3, <1>4, <1>5, Steps

LEMMA BareNext == TypeOK /\ SnapBare /\ [Next]_vars => SnapBare'
<1> SUFFICES ASSUME TypeOK, SnapBare, [Next]_vars PROVE SnapBare'
  OBVIOUS
<1>1. CASE snapshot
  <2>1. snap'.renderer.map = {}
    BY <1>1 DEF snapshot, TypeOK, RendererState
  <2>2. \A r \in ResIds : snap'.resources[r] = Preserved(resources[r])
    BY <1>1 DEF snapshot
  <2>3. \A a \in Resource : /\ Preserved(a).handle = NoHandle /\ Preserved(a).backing = 0
                            /\ Preserved(a).mapping = FALSE
    BY DEF Preserved, Resource
  <2> QED
    BY <2>1, <2>2, <2>3 DEF SnapBare, TypeOK
<1>2. CASE UNCHANGED snap
  BY <1>2 DEF SnapBare
<1> QED
  BY <1>1, <1>2, SnapKept

LEMMA BareAlways == Spec => []SnapBare
  BY TypeCorrect, BareInit, BareNext, PTL DEF Spec

\* A resource that is mapped is shared memory, or has lost its handle, so that
\* no attachment makes it virglrenderer's as well.
NoDmabufMapped == \A r \in ResIds : resources[r].mapping => resources[r].handle.type # "dmabuf"
MapInv == MappedCanBeUnmapped /\ NoDmabufMapped

\* An operation that gives resource r the value a.
LEMMA MappedOne ==
  ASSUME TypeOK, MapInv, NEW r \in ResIds, NEW a \in Resource, SetResource(r, a), build' = build,
         a.mapping => a.mask = {"CrossDomain"} /\ a.handle.type # "dmabuf",
         r \in renderer'.map => a.mask = {default} /\ default # "Magma",
         \A s \in ResIds \ {r} : s \in renderer'.map => s \in renderer.map
  PROVE  MapInv'
<1>1. default' = default
  BY SameBuild
<1>2. resources'[r] = a /\ \A s \in ResIds \ {r} : resources'[s] = resources[s]
  BY DEF SetResource, TypeOK
<1>3. MappedCanBeUnmapped'
  BY <1>1, <1>2 DEF MapInv, MappedCanBeUnmapped, IsComponent
<1>4. NoDmabufMapped'
  BY <1>2 DEF MapInv, NoDmabufMapped
<1> QED
  BY <1>3, <1>4 DEF MapInv

\* The tables of resources as they were, but for attributes mappings do not need.
LEMMA MappedSame ==
  ASSUME MapInv, build' = build, renderer'.map = renderer.map,
         \A s \in ResIds : /\ resources'[s].mask = resources[s].mask
                           /\ resources'[s].handle \in {resources[s].handle, NoHandle}
                           /\ resources'[s].mapping = resources[s].mapping
  PROVE  MapInv'
<1>1. default' = default /\ NoHandle.type = "none"
  BY SameBuild, NoHandleType
<1>2. MappedCanBeUnmapped'
  BY <1>1 DEF MapInv, MappedCanBeUnmapped, IsComponent
<1>3. NoDmabufMapped'
  BY <1>1 DEF MapInv, NoDmabufMapped
<1> QED
  BY <1>2, <1>3 DEF MapInv

LEMMA MappedInit == Init => MapInv
  BY DEF Init, MapInv, MappedCanBeUnmapped, NoDmabufMapped, NoResource, NoRenderer

LEMMA MappedCreation == ASSUME TypeOK, AgreeInv, MapInv, NEW r \in ResIds, Creation(r) PROVE MapInv'
<1>1. /\ ~torn /\ build' = build /\ renderer'.map = renderer.map
      /\ Exists(r) => r \notin renderer.res /\ InRenderer
  BY CreationStep DEF Rest, Running
<1>2. PICK a \in Resource : SetResource(r, a) /\ Created(a) /\ Known(r, a)
  BY CreationStep
<1>3. r \notin renderer.map
  <2>1. Exists(r) => default \notin resources[r].mask
    BY <1>1 DEF AgreeInv, ResAgree
  <2>2. ~Exists(r) => resources[r].mask = {}
    BY DEF AgreeInv, FreeEmpty, Exists
  <2> QED
    BY <2>1, <2>2 DEF MapInv, MappedCanBeUnmapped, IsComponent
<1>4. a.mapping = FALSE
  BY <1>2 DEF Created
<1> QED
  BY <1>1, <1>2, <1>3, <1>4, MappedOne

LEMMA MappedUnref == ASSUME TypeOK, MapInv, NEW r \in ResIds, unref_resource(r) PROVE MapInv'
<1>1. build' = build /\ SetResource(r, NoResource) /\ renderer'.map = renderer.map \ {r}
  BY DEF unref_resource, Rest, Released, TypeOK, RendererState
<1>2. NoResource.mapping = FALSE
  BY DEF NoResource
<1> QED
  BY <1>1, <1>2, NewResourceType, MappedOne

LEMMA MappedMap == ASSUME TypeOK, MapInv, NEW r \in ResIds, map(r) \/ unmap(r) PROVE MapInv'
<1>1. /\ build' = build
      /\ \A s \in ResIds : s \in renderer'.map => s \in renderer.map \/ (s = r /\ IsComponent(r, default))
  BY MapStep DEF Rest
<1>2. PICK a \in Resource : SetResource(r, a) /\ Mapped(r, a)
  BY MapStep
<1>3. a.mapping => a.mask = {"CrossDomain"} /\ a.handle.type # "dmabuf"
  <2>1. NoHandle.type = "none"
    BY NoHandleType
  <2>2. resources[r].mapping => resources[r].mask = {"CrossDomain"} /\ resources[r].handle.type # "dmabuf"
    BY DEF MapInv, MappedCanBeUnmapped, NoDmabufMapped, IsComponent
  <2> QED
    BY <1>2, <2>1, <2>2 DEF Mapped, IsComponent
<1>4. r \in renderer'.map => a.mask = {default} /\ default # "Magma"
  BY <1>1, <1>2 DEF Mapped, IsComponent, MapInv, MappedCanBeUnmapped
<1> QED
  BY <1>1, <1>2, <1>3, <1>4, MappedOne

LEMMA MappedOther ==
  ASSUME TypeOK, MapInv, NEW r \in ResIds,
         attach_backing(r) \/ detach_backing(r) \/ set_scanout(r) \/ export_blob(r)
  PROVE  MapInv'
<1>1. build' = build /\ renderer'.map = renderer.map
  BY DEF attach_backing, detach_backing, set_scanout, export_blob, Rest, TypeOK, RendererState
<1>2. \A s \in ResIds : /\ resources'[s].mask = resources[s].mask
                        /\ resources'[s].handle \in {resources[s].handle, NoHandle}
                        /\ resources'[s].mapping = resources[s].mapping
  <2>1. CASE attach_backing(r)
    BY <2>1 DEF attach_backing, TypeOK, Resource
  <2>2. CASE detach_backing(r)
    BY <2>2 DEF detach_backing, TypeOK, Resource
  <2>3. CASE set_scanout(r)
    BY <2>3 DEF set_scanout, TypeOK, Resource
  <2>4. CASE export_blob(r)
    BY <2>4 DEF export_blob, TypeOK, Resource
  <2> QED
    BY <2>1, <2>2, <2>3, <2>4
<1> QED
  BY <1>1, <1>2, MappedSame

LEMMA MappedAttach ==
  ASSUME TypeOK, AgreeInv, MapInv, NEW c \in CtxIds, NEW r \in ResIds,
         context_attach_resource(c, r) \/ context_detach_resource(c, r)
  PROVE  MapInv'
<1>1. build' = build /\ renderer'.map = renderer.map
  BY DEF context_attach_resource, context_detach_resource, AttachGuest, AttachHandle, AttachVirgl, Rest,
         TypeOK, RendererState
<1>2. CASE AttachVirgl(c, r)
  <2>1. PICK a : a = [resources[r] EXCEPT !.mask = resources[r].mask \cup {"VirglRenderer"}]
    OBVIOUS
  <2>2. SetResource(r, a)
    BY <1>2, <2>1 DEF AttachVirgl, SetResource
  <2>3. resources[r] \in Resource
    BY DEF TypeOK
  <2>4. a \in Resource
    BY <2>1, <2>3, WithMask DEF Resource, ComponentTypes, Renderers
  <2>5. a.mapping = resources[r].mapping /\ resources[r].handle.type = "dmabuf"
    BY <1>2, <2>1, <2>3 DEF AttachVirgl, Importable, Resource
  <2>6. ~a.mapping
    BY <2>5 DEF MapInv, NoDmabufMapped
  <2>7. r \notin renderer.map
    <3>1. default = "VirglRenderer" /\ "VirglRenderer" \notin resources[r].mask
      BY <1>2 DEF AttachVirgl, AgreeInv, CtxDefault, Renderers
    <3> QED
      BY <3>1 DEF MapInv, MappedCanBeUnmapped, IsComponent
  <2> QED
    BY <1>1, <2>2, <2>4, <2>6, <2>7, MappedOne
<1>3. CASE AttachGuest(c, r)
  <2>1. \A s \in ResIds : /\ resources'[s].mask = resources[s].mask
                          /\ resources'[s].handle = resources[s].handle
                          /\ resources'[s].mapping = resources[s].mapping
    BY <1>3 DEF AttachGuest, TypeOK, Resource
  <2> QED
    BY <1>1, <2>1, MappedSame
<1>4. CASE UNCHANGED resources
  BY <1>1, <1>4, MappedSame
<1> QED
  BY <1>2, <1>3, <1>4 DEF context_attach_resource, context_detach_resource, AttachHandle

LEMMA MappedRestore ==
  ASSUME TypeOK, SnapBare, MapInv, restore \/ restore_fails \/ Restart PROVE MapInv'
<1>1. renderer'.map = {}
  BY DEF restore, restore_fails, Restart, TypeOK, SnapBare, RendererState, NoRenderer
<1>2. \A r \in ResIds : resources'[r].mapping = FALSE
  BY DEF restore, restore_fails, Restart, SnapBare, NoResource
<1> QED
  BY <1>1, <1>2 DEF MapInv, MappedCanBeUnmapped, NoDmabufMapped

LEMMA MappedNext == TypeOK /\ AgreeInv /\ SnapBare /\ MapInv /\ [Next]_vars => MapInv'
<1> SUFFICES ASSUME TypeOK, AgreeInv, SnapBare, MapInv, [Next]_vars PROVE MapInv'
  OBVIOUS
<1>1. ASSUME UNCHANGED <<build, resources>>, renderer'.map = renderer.map PROVE MapInv'
  BY <1>1, MappedSame
<1>2. ASSUME NEW c \in CtxIds, destroy_context(c) \/ \E capset \in Capsets : create_context(c, capset)
      PROVE  MapInv'
  <2>1. UNCHANGED <<build, resources>> /\ renderer'.map = renderer.map
    BY <1>2 DEF destroy_context, create_context, Closed, Rest, TypeOK, RendererState
  <2> QED
    BY <1>1, <2>1
<1>3. CASE snapshot
  BY <1>1, <1>3 DEF snapshot
<1>4. CASE UNCHANGED <<build, resources, contexts, renderer, exported, snap, torn>>
  BY <1>1, <1>4
<1> QED
  BY <1>2, <1>3, <1>4, Steps, MappedCreation, MappedUnref, MappedMap, MappedOther, MappedAttach, MappedRestore

\* What is mapped can be unmapped: the component that mapped a resource is
\* still the one calculate_component finds.
THEOREM MappedAlwaysUnmappable == Spec => []MappedCanBeUnmapped
<1>1. Spec => []MapInv
  BY TypeCorrect, AgreeAlways, BareAlways, MappedInit, MappedNext, PTL DEF Spec
<1>2. MapInv => MappedCanBeUnmapped
  BY DEF MapInv
<1> QED
  BY <1>1, <1>2, PTL

\* ExportedExclusive, holder by holder.
Exclusive ==
    /\ \A r \in ResIds : resources[r].handle.id \notin exported
    /\ \A c \in CtxIds, r \in ResIds : contexts[c].res[r].handle.id \notin exported

LEMMA ExclusiveImplies == TypeOK /\ Exclusive => ExportedExclusive
<1> SUFFICES ASSUME TypeOK, Exclusive, NEW id \in exported PROVE Holders(id) = {}
  BY DEF ExportedExclusive
<1>1. \A r \in ResIds : resources[r].handle.id # id
  BY DEF Exclusive
<1>2. \A a \in CtxIds \X ResIds : contexts[a[1]].res[a[2]].handle.id # id
  BY DEF Exclusive
<1> QED
  BY <1>1, <1>2 DEF Holders

LEMMA ExclusiveInit == Init => Exclusive
  BY DEF Init, Exclusive

\* A new handle is nobody's, and not the VMM's; no handle is no handle of the VMM.
LEMMA NewHandleId ==
  ASSUME TypeOK, NEW h \in MaybeHandle, IsNewHandle(h) PROVE h.id \notin exported
<1>1. CASE h = NoHandle
  <2>1. 0 \notin 1 .. MaxHandles
    BY CoreAssumption
  <2> QED
    BY <1>1, <2>1, NoHandleType DEF TypeOK
<1>2. CASE h # NoHandle
  BY <1>2 DEF IsNewHandle, HandleFree
<1> QED
  BY <1>1, <1>2

LEMMA NoHandleFree == ASSUME TypeOK PROVE NoHandle.id \notin exported
<1>1. 0 \notin 1 .. MaxHandles
  BY CoreAssumption
<1> QED
  BY <1>1, NoHandleType DEF TypeOK

\* The exported handles are as they were, and no table has a handle that it or
\* another did not have.
LEMMA ExclusiveSame ==
  ASSUME TypeOK, Exclusive, exported' = exported,
         \A s \in ResIds : resources'[s].handle = NoHandle \/ resources'[s].handle = resources[s].handle,
         \A d \in CtxIds, s \in ResIds :
             \/ contexts'[d].res[s].handle = NoHandle
             \/ contexts'[d].res[s].handle = contexts[d].res[s].handle
             \/ contexts'[d].res[s].handle = resources[s].handle
  PROVE  Exclusive'
  BY NoHandleFree DEF Exclusive

LEMMA ExclusiveCreation == ASSUME TypeOK, Exclusive, NEW r \in ResIds, Creation(r) PROVE Exclusive'
<1>1. exported' = exported /\ contexts' = contexts
  BY CreationStep DEF Rest
<1>2. PICK a \in Resource : SetResource(r, a) /\ Created(a)
  BY CreationStep
<1>3. a.handle.id \notin exported
  BY <1>2, NewHandleId DEF Created, Resource, MaybeHandle
<1>4. resources'[r] = a /\ \A s \in ResIds \ {r} : resources'[s] = resources[s]
  BY <1>2 DEF SetResource, TypeOK
<1> QED
  BY <1>1, <1>3, <1>4 DEF Exclusive

LEMMA ExclusiveExport == ASSUME TypeOK, Exclusive, NEW r \in ResIds, export_blob(r) PROVE Exclusive'
<1>1. /\ resources' = [resources EXCEPT ![r].handle = NoHandle] /\ contexts' = contexts
      /\ resources[r].handle # NoHandle
      /\ exported' = IF Holders(resources[r].handle.id) = {<<r>>}
                     THEN exported \cup {resources[r].handle.id} ELSE exported
  BY DEF export_blob
<1>2. resources'[r].handle = NoHandle /\ \A s \in ResIds \ {r} : resources'[s] = resources[s]
  BY <1>1 DEF TypeOK, Resource
<1>3. NoHandle.id \notin exported /\ NoHandle.id # resources[r].handle.id
  <2>1. resources[r].handle \in Handles
    BY <1>1 DEF TypeOK, Resource
  <2>2. resources[r].handle.id # 0
    BY <2>1, CoreAssumption DEF Handles
  <2> QED
    BY <2>2, NoHandleFree, NoHandleType
<1>4. ASSUME NEW h, h = resources[r].handle.id, Holders(h) = {<<r>>}
      PROVE  /\ \A s \in ResIds \ {r} : resources[s].handle.id # h
             /\ \A c \in CtxIds, s \in ResIds : contexts[c].res[s].handle.id # h
  <2>1. ASSUME NEW s \in ResIds \ {r}, resources[s].handle.id = h PROVE FALSE
    <3>1. <<s>> \in Holders(h)
      BY <2>1 DEF Holders
    <3>2. <<s>> = <<r>>
      BY <1>4, <3>1
    <3> QED
      BY <3>2
  <2>2. ASSUME NEW c \in CtxIds, NEW s \in ResIds, contexts[c].res[s].handle.id = h PROVE FALSE
    <3>1. <<c, s>> \in Holders(h)
      BY <2>2 DEF Holders
    <3>2. <<c, s>> = <<r>>
      BY <1>4, <3>1
    <3> QED
      BY <3>2
  <2> QED
    BY <2>1, <2>2
<1>5. CASE Holders(resources[r].handle.id) = {<<r>>}
  BY <1>1, <1>2, <1>3, <1>4, <1>5 DEF Exclusive
<1>6. CASE Holders(resources[r].handle.id) # {<<r>>}
  BY <1>1, <1>2, <1>3, <1>6 DEF Exclusive
<1> QED
  BY <1>5, <1>6

LEMMA ExclusiveOne ==
  ASSUME TypeOK, Exclusive, NEW r \in ResIds,
         attach_backing(r) \/ detach_backing(r) \/ set_scanout(r) \/ unref_resource(r) \/ map(r) \/ unmap(r)
  PROVE  Exclusive'
<1>1. exported' = exported /\ contexts' = contexts
  BY MapStep DEF attach_backing, detach_backing, set_scanout, unref_resource, Rest
<1>2. \A s \in ResIds : resources'[s].handle = NoHandle \/ resources'[s].handle = resources[s].handle
  <2>1. CASE map(r) \/ unmap(r)
    <3>1. PICK a \in Resource : SetResource(r, a) /\ Mapped(r, a)
      BY <2>1, MapStep
    <3> QED
      BY <3>1 DEF SetResource, Mapped, TypeOK
  <2>2. CASE unref_resource(r)
    BY <2>2 DEF unref_resource, SetResource, TypeOK, NoResource
  <2>3. CASE attach_backing(r)
    BY <2>3 DEF attach_backing, TypeOK, Resource
  <2>4. CASE detach_backing(r)
    BY <2>4 DEF detach_backing, TypeOK, Resource
  <2>5. CASE set_scanout(r)
    BY <2>5 DEF set_scanout, TypeOK, Resource
  <2> QED
    BY <2>1, <2>2, <2>3, <2>4, <2>5
<1> QED
  BY <1>1, <1>2, ExclusiveSame

\* attach and detach, as the tables see them: one entry of one context.
LEMMA AttachStep ==
  ASSUME TypeOK, NEW c \in CtxIds, NEW r \in ResIds,
         context_attach_resource(c, r) \/ context_detach_resource(c, r)
  PROVE  /\ UNCHANGED Rest
         /\ \A s \in ResIds : resources'[s].handle = resources[s].handle
         /\ \/ AttachVirgl(c, r)
            \/ \E a \in Attachment :
                  /\ contexts' = [contexts EXCEPT ![c].res[r] = a]
                  /\ a.handle \in {resources[r].handle, NoHandle}
                  /\ \/ a.backing = 0 /\ resources' = resources
                     \/ a.backing = resources[r].backing /\ resources' = [resources EXCEPT ![r].backing = 0]
<1>1. UNCHANGED Rest
  BY DEF context_attach_resource, context_detach_resource
<1>2. /\ 0 \in 0 .. MaxVecs /\ NoHandle \in Handles \cup {NoHandle}
      /\ resources[r].backing \in 0 .. MaxVecs /\ resources[r].handle \in Handles \cup {NoHandle}
  BY CoreAssumption DEF TypeOK, Resource
<1>3. CASE AttachGuest(c, r)
  <2>1. PICK a : a = [here |-> TRUE, handle |-> NoHandle, backing |-> resources[r].backing]
    OBVIOUS
  <2>2. a \in Attachment /\ a.handle = NoHandle /\ a.backing = resources[r].backing
    BY <1>2, <2>1 DEF Attachment
  <2>3. /\ contexts' = [contexts EXCEPT ![c].res[r] = a]
        /\ resources' = [resources EXCEPT ![r].backing = 0]
    BY <1>3, <2>1 DEF AttachGuest
  <2>4. \A s \in ResIds : resources'[s].handle = resources[s].handle
    BY <2>3 DEF TypeOK, Resource
  <2> QED
    BY <1>1, <2>2, <2>3, <2>4
<1>4. CASE AttachHandle(c, r)
  <2>1. PICK a : a = [here |-> TRUE, handle |-> resources[r].handle, backing |-> 0]
    OBVIOUS
  <2>2. a \in Attachment /\ a.handle = resources[r].handle /\ a.backing = 0
    BY <1>2, <2>1 DEF Attachment
  <2> QED
    BY <1>1, <1>4, <2>1, <2>2 DEF AttachHandle
<1>5. CASE context_detach_resource(c, r)
  <2>1. Unattached \in Attachment /\ Unattached.handle = NoHandle /\ Unattached.backing = 0
    BY ContextTypes DEF Unattached
  <2> QED
    BY <1>1, <1>5, <2>1 DEF context_detach_resource
<1>6. CASE AttachVirgl(c, r)
  <2>1. \A s \in ResIds : resources'[s].handle = resources[s].handle
    BY <1>6 DEF AttachVirgl, TypeOK, Resource
  <2> QED
    BY <1>1, <1>6, <2>1
<1> QED
  BY <1>3, <1>4, <1>5, <1>6 DEF context_attach_resource

\* The entries of the contexts after one of them was set.
LEMMA OneEntry ==
  ASSUME TypeOK, NEW c \in CtxIds, NEW r \in ResIds, NEW a,
         contexts' = [contexts EXCEPT ![c].res[r] = a]
  PROVE  /\ contexts'[c].res[r] = a
         /\ \A d \in CtxIds, s \in ResIds :
               ~(d = c /\ s = r) => contexts'[d].res[s] = contexts[d].res[s]
  BY DEF TypeOK

LEMMA ExclusiveAttach ==
  ASSUME TypeOK, Exclusive, NEW c \in CtxIds, NEW r \in ResIds,
         context_attach_resource(c, r) \/ context_detach_resource(c, r)
  PROVE  Exclusive'
<1>1. exported' = exported /\ \A s \in ResIds : resources'[s].handle = resources[s].handle
  BY AttachStep DEF Rest
<1>2. CASE AttachVirgl(c, r)
  BY <1>1, <1>2, ExclusiveSame DEF AttachVirgl
<1>3. ASSUME NEW a \in Attachment, contexts' = [contexts EXCEPT ![c].res[r] = a],
             a.handle \in {resources[r].handle, NoHandle}
      PROVE  Exclusive'
  BY <1>1, <1>3, OneEntry, ExclusiveSame
<1> QED
  BY <1>2, <1>3, AttachStep

\* A context that was opened or closed has nothing attached.
LEMMA ContextStep ==
  ASSUME TypeOK, NEW c \in CtxIds,
         destroy_context(c) \/ \E capset \in Capsets : create_context(c, capset)
  PROVE  /\ UNCHANGED <<Rest, resources>>
         /\ \A s \in ResIds : contexts'[c].res[s] = Unattached
         /\ \A d \in CtxIds \ {c}, s \in ResIds : contexts'[d].res[s] = contexts[d].res[s]
<1>1. UNCHANGED <<Rest, resources>>
  BY DEF destroy_context, create_context
<1>2. PICK x : contexts' = [contexts EXCEPT ![c] = x] /\ x.res = [r \in ResIds |-> Unattached]
  <2>1. NoContext.res = [r \in ResIds |-> Unattached]
    BY DEF NoContext
  <2>2. \A ty : NewContext(ty).res = [r \in ResIds |-> Unattached]
    BY DEF NoContext, NewContext
  <2> QED
    BY <2>1, <2>2 DEF destroy_context, create_context
<1> QED
  BY <1>1, <1>2 DEF TypeOK

\* However a restore ends, no table has a handle or iovecs.
LEMMA RestoreStep ==
  ASSUME TypeOK, SnapBare, restore \/ restore_fails \/ Restart
  PROVE  /\ exported' \subseteq exported
         /\ \A s \in ResIds : resources'[s].handle = NoHandle /\ resources'[s].backing = 0
         /\ \A d \in CtxIds, s \in ResIds : contexts'[d].res[s] = Unattached
<1>1. exported' \subseteq exported
  BY DEF restore, restore_fails, Restart
<1>2. \A s \in ResIds : resources'[s].handle = NoHandle /\ resources'[s].backing = 0
  BY DEF restore, restore_fails, Restart, SnapBare, NoResource
<1>3. \A d \in CtxIds, s \in ResIds : contexts'[d].res[s] = Unattached
  BY DEF restore, restore_fails, Restart, NewContext, NoContext
<1> QED
  BY <1>1, <1>2, <1>3

LEMMA ExclusiveNext == TypeOK /\ SnapBare /\ Exclusive /\ [Next]_vars => Exclusive'
<1> SUFFICES ASSUME TypeOK, SnapBare, Exclusive, [Next]_vars PROVE Exclusive'
  OBVIOUS
<1>1. Unattached.handle = NoHandle
  BY DEF Unattached
<1>2. ASSUME NEW c \in CtxIds, destroy_context(c) \/ \E capset \in Capsets : create_context(c, capset)
      PROVE  Exclusive'
  <2>1. exported' = exported /\ resources' = resources
    BY <1>2, ContextStep DEF Rest
  <2>2. \A d \in CtxIds, s \in ResIds : contexts'[d].res[s] \in {Unattached, contexts[d].res[s]}
    BY <1>2, ContextStep
  <2> QED
    BY <1>1, <2>1, <2>2, ExclusiveSame
<1>3. CASE restore \/ restore_fails \/ Restart
  BY <1>1, <1>3, RestoreStep, NoHandleFree DEF Exclusive
<1>4. CASE UNCHANGED <<resources, contexts, exported>>
  BY <1>4 DEF Exclusive
<1>5. CASE snapshot
  BY <1>4, <1>5 DEF snapshot
<1> QED
  BY <1>2, <1>3, <1>4, <1>5, Steps, ExclusiveCreation, ExclusiveExport, ExclusiveOne, ExclusiveAttach

\* A handle that was given to the VMM for good is held by no resource and no
\* context ("Exactly one strong reference", export_blob), although attachments
\* share handles.
THEOREM ExportedAlwaysExclusive == Spec => []ExportedExclusive
<1>1. Spec => []Exclusive
  BY TypeCorrect, BareAlways, ExclusiveInit, ExclusiveNext, PTL DEF Spec
<1> QED
  BY <1>1, TypeCorrect, ExclusiveImplies, PTL

\* IovecsHaveOneOwner, owner by owner.
OneOwner ==
    /\ \A r, s \in ResIds :
          resources[r].backing = resources[s].backing /\ resources[r].backing # 0 => r = s
    /\ \A c, d \in CtxIds, r, s \in ResIds :
          contexts[c].res[r].backing = contexts[d].res[s].backing /\ contexts[c].res[r].backing # 0
             => c = d /\ r = s
    /\ \A c \in CtxIds, r, s \in ResIds :
          contexts[c].res[r].backing = resources[s].backing => resources[s].backing = 0

LEMMA OwnerImplies == TypeOK /\ OneOwner => IovecsHaveOneOwner
<1> SUFFICES ASSUME TypeOK, OneOwner, NEW id \in 1 .. MaxVecs PROVE Cardinality(Owners(id)) <= 1
  BY DEF IovecsHaveOneOwner
<1>1. id # 0
  BY CoreAssumption
<1>2. ASSUME NEW x \in Owners(id), NEW y \in Owners(id) PROVE x = y
  <2>1. /\ \/ \E r \in ResIds : x = <<r>> /\ resources[r].backing = id
           \/ \E c \in CtxIds, r \in ResIds : x = <<c, r>> /\ contexts[c].res[r].backing = id
        /\ \/ \E r \in ResIds : y = <<r>> /\ resources[r].backing = id
           \/ \E c \in CtxIds, r \in ResIds : y = <<c, r>> /\ contexts[c].res[r].backing = id
    BY <1>2 DEF Owners
  <2> QED
    BY <1>1, <2>1 DEF OneOwner
<1>3. CASE Owners(id) = {}
  BY <1>3, FS_EmptySet
<1>4. CASE Owners(id) # {}
  <2>1. PICK x : Owners(id) = {x}
    BY <1>2, <1>4
  <2>2. Cardinality({x}) = 1
    BY FS_Singleton
  <2> QED
    BY <2>1, <2>2
<1> QED
  BY <1>3, <1>4

LEMMA OwnerInit == Init => OneOwner
  BY DEF Init, OneOwner, NoResource, NoContext, Unattached

\* A new iovec list is in no table.
LEMMA NewVec ==
  ASSUME NEW id, IsNewVec(id)
  PROVE  /\ \A s \in ResIds : resources[s].backing # id
         /\ \A c \in CtxIds, s \in ResIds : contexts[c].res[s].backing # id
<1>1. Owners(id) = {}
  BY DEF IsNewVec, VecFree
<1>2. \A s \in ResIds : resources[s].backing = id => <<s>> \in Owners(id)
  BY DEF Owners
<1>3. \A c \in CtxIds, s \in ResIds : contexts[c].res[s].backing = id => <<c, s>> \in Owners(id)
  BY DEF Owners
<1> QED
  BY <1>1, <1>2, <1>3

\* An operation that gives a resource new iovecs, its own or none.
LEMMA OwnerOne ==
  ASSUME TypeOK, OneOwner, NEW r \in ResIds, NEW id,
         id = 0 \/ id = resources[r].backing \/ IsNewVec(id),
         resources'[r].backing = id, contexts' = contexts,
         \A s \in ResIds \ {r} : resources'[s].backing = resources[s].backing
  PROVE  OneOwner'
<1>1. CASE id = 0 \/ id = resources[r].backing
  BY <1>1 DEF OneOwner
<1>2. CASE IsNewVec(id)
  <2>1. /\ \A s \in ResIds : resources[s].backing # id
        /\ \A c \in CtxIds, s \in ResIds : contexts[c].res[s].backing # id
    BY <1>2, NewVec
  <2> QED
    BY <2>1 DEF OneOwner
<1> QED
  BY <1>1, <1>2

LEMMA OwnerResource ==
  ASSUME TypeOK, OneOwner, NEW r \in ResIds, NEW a \in Resource, SetResource(r, a), contexts' = contexts,
         a.backing = 0 \/ a.backing = resources[r].backing \/ IsNewVec(a.backing)
  PROVE  OneOwner'
<1>1. resources'[r] = a /\ \A s \in ResIds \ {r} : resources'[s] = resources[s]
  BY DEF SetResource, TypeOK
<1> QED
  BY <1>1, OwnerOne

LEMMA OwnerCreation == ASSUME TypeOK, OneOwner, NEW r \in ResIds, Creation(r) PROVE OneOwner'
<1>1. contexts' = contexts
  BY CreationStep
<1>2. PICK a \in Resource : SetResource(r, a) /\ Created(a)
  BY CreationStep
<1> QED
  BY <1>1, <1>2, OwnerResource DEF Created

LEMMA OwnerOther ==
  ASSUME TypeOK, OneOwner, NEW r \in ResIds,
         attach_backing(r) \/ detach_backing(r) \/ set_scanout(r) \/ unref_resource(r) \/ map(r) \/ unmap(r)
         \/ export_blob(r)
  PROVE  OneOwner'
<1>1. contexts' = contexts
  BY MapStep DEF attach_backing, detach_backing, set_scanout, unref_resource, export_blob
<1>2. CASE attach_backing(r) \/ detach_backing(r)
  <2>1. PICK id \in 0 .. MaxVecs : /\ SetResource(r, [resources[r] EXCEPT !.backing = id])
                                   /\ id # 0 => IsNewVec(id)
    BY <1>2, BackingStep
  <2>2. resources'[r].backing = id /\ \A s \in ResIds \ {r} : resources'[s] = resources[s]
    BY <2>1 DEF SetResource, TypeOK, Resource
  <2> QED
    BY <1>1, <2>1, <2>2, OwnerOne
<1>3. CASE map(r) \/ unmap(r)
  <2>1. PICK a \in Resource : SetResource(r, a) /\ Mapped(r, a)
    BY <1>3, MapStep
  <2> QED
    BY <1>1, <2>1, OwnerResource DEF Mapped
<1>4. CASE unref_resource(r)
  <2>1. SetResource(r, NoResource) /\ NoResource.backing = 0
    BY <1>4 DEF unref_resource, NoResource
  <2> QED
    BY <1>1, <2>1, NewResourceType, OwnerResource
<1>5. CASE set_scanout(r) \/ export_blob(r)
  <2>1. \A s \in ResIds : resources'[s].backing = resources[s].backing
    BY <1>5 DEF set_scanout, export_blob, TypeOK, Resource
  <2> QED
    BY <1>1, <2>1, OwnerOne
<1> QED
  BY <1>2, <1>3, <1>4, <1>5

LEMMA OwnerAttach ==
  ASSUME TypeOK, OneOwner, NEW c \in CtxIds, NEW r \in ResIds,
         context_attach_resource(c, r) \/ context_detach_resource(c, r)
  PROVE  OneOwner'
<1>1. CASE AttachVirgl(c, r)
  <2>1. contexts' = contexts /\ \A s \in ResIds : resources'[s].backing = resources[s].backing
    BY <1>1 DEF AttachVirgl, TypeOK, Resource
  <2> QED
    BY <2>1, OwnerOne
<1>2. ASSUME NEW a \in Attachment, contexts' = [contexts EXCEPT ![c].res[r] = a],
             a.backing = 0, resources' = resources
      PROVE  OneOwner'
  <2>1. /\ contexts'[c].res[r] = a
        /\ \A d \in CtxIds, s \in ResIds : ~(d = c /\ s = r) => contexts'[d].res[s] = contexts[d].res[s]
    BY <1>2 DEF TypeOK
  <2> QED
    BY <1>2, <2>1 DEF OneOwner
<1>3. ASSUME NEW a \in Attachment, contexts' = [contexts EXCEPT ![c].res[r] = a],
             a.backing = resources[r].backing, resources' = [resources EXCEPT ![r].backing = 0]
      PROVE  OneOwner'
  <2>1. /\ contexts'[c].res[r] = a
        /\ \A d \in CtxIds, s \in ResIds : ~(d = c /\ s = r) => contexts'[d].res[s] = contexts[d].res[s]
    BY <1>3 DEF TypeOK
  <2>2. resources'[r].backing = 0 /\ \A s \in ResIds \ {r} : resources'[s] = resources[s]
    BY <1>3 DEF TypeOK, Resource
  <2>3. \A s, t \in ResIds :
          resources'[s].backing = resources'[t].backing /\ resources'[s].backing # 0 => s = t
    BY <2>2 DEF OneOwner
  <2>4. \A d \in CtxIds, s, t \in ResIds :
          contexts'[d].res[s].backing = resources'[t].backing => resources'[t].backing = 0
    BY <1>3, <2>1, <2>2 DEF OneOwner
  <2>5. ASSUME NEW d \in CtxIds, NEW e \in CtxIds, NEW s \in ResIds, NEW t \in ResIds,
               contexts'[d].res[s].backing = contexts'[e].res[t].backing, contexts'[d].res[s].backing # 0
        PROVE  d = e /\ s = t
    <3>1. CASE d = c /\ s = r
      BY <1>3, <2>1, <2>5, <3>1 DEF OneOwner
    <3>2. CASE e = c /\ t = r
      BY <1>3, <2>1, <2>5, <3>2 DEF OneOwner
    <3>3. CASE ~(d = c /\ s = r) /\ ~(e = c /\ t = r)
      <4>1. contexts'[d].res[s] = contexts[d].res[s] /\ contexts'[e].res[t] = contexts[e].res[t]
        BY <2>1, <3>3
      <4>2. contexts[d].res[s].backing = contexts[e].res[t].backing /\ contexts[d].res[s].backing # 0
        BY <2>5, <4>1
      <4> QED
        BY <4>2 DEF OneOwner
    <3> QED
      BY <3>1, <3>2, <3>3
  <2> QED
    BY <2>3, <2>4, <2>5 DEF OneOwner
<1> QED
  BY <1>1, <1>2, <1>3, AttachStep

LEMMA OwnerNext == TypeOK /\ SnapBare /\ OneOwner /\ [Next]_vars => OneOwner'
<1> SUFFICES ASSUME TypeOK, SnapBare, OneOwner, [Next]_vars PROVE OneOwner'
  OBVIOUS
<1>1. Unattached.backing = 0
  BY DEF Unattached
<1>2. ASSUME NEW c \in CtxIds, destroy_context(c) \/ \E capset \in Capsets : create_context(c, capset)
      PROVE  OneOwner'
  <2>1. /\ resources' = resources
        /\ \A s \in ResIds : contexts'[c].res[s].backing = 0
        /\ \A d \in CtxIds \ {c}, s \in ResIds : contexts'[d].res[s] = contexts[d].res[s]
    BY <1>1, <1>2, ContextStep
  <2>2. ASSUME NEW d \in CtxIds, NEW e \in CtxIds, NEW s \in ResIds, NEW t \in ResIds,
               contexts'[d].res[s].backing = contexts'[e].res[t].backing, contexts'[d].res[s].backing # 0
        PROVE  d = e /\ s = t
    <3>1. d # c /\ e # c
      BY <2>1, <2>2
    <3>2. contexts[d].res[s].backing = contexts[e].res[t].backing /\ contexts[d].res[s].backing # 0
      BY <2>1, <2>2, <3>1
    <3> QED
      BY <3>2 DEF OneOwner
  <2>3. \A d \in CtxIds, s, t \in ResIds :
          contexts'[d].res[s].backing = resources'[t].backing => resources'[t].backing = 0
    BY <2>1 DEF OneOwner
  <2> QED
    BY <2>1, <2>2, <2>3 DEF OneOwner
<1>3. CASE restore \/ restore_fails \/ Restart
  BY <1>1, <1>3, RestoreStep DEF OneOwner
<1>4. CASE UNCHANGED <<resources, contexts>>
  BY <1>4 DEF OneOwner
<1>5. CASE snapshot
  BY <1>4, <1>5 DEF snapshot
<1> QED
  BY <1>2, <1>3, <1>4, <1>5, Steps, OwnerCreation, OwnerOther, OwnerAttach

\* An iovec list has one owner, in the table or in a context.
THEOREM IovecsAlwaysOwned == Spec => []IovecsHaveOneOwner
<1>1. Spec => []OneOwner
  BY TypeCorrect, BareAlways, OwnerInit, OwnerNext, PTL DEF Spec
<1> QED
  BY <1>1, TypeCorrect, OwnerImplies, PTL

-----------------------------------------------------------------------------
(* Restoring                                                               *)

\* The snapshot's resources, with backing again, do what worked.
Rebacked(table) == [r \in ResIds |-> [table[r] EXCEPT !.backing = 1]]
SnapWorks == {w \in snap.works : w[1] \notin snap.resized} \subseteq Works(Rebacked(snap.resources))

LEMMA WorksInit == Init => SnapWorks
  BY DEF Init, SnapWorks, NoSnapshot

\* Works, entry by entry.
LEMMA WorksEntry ==
  ASSUME NEW table, NEW w
  PROVE  w \in Works(table) <=>
            \E r \in ResIds : \/ w = <<r, "write">> /\ transfer_write(table[r])
                              \/ w = <<r, "read">> /\ transfer_read(table[r])
  BY DEF Works

\* A resource whose host buffer comes back in its size keeps its transfers, once
\* it has backing again.
LEMMA PreservedWorks ==
  ASSUME NEW a \in Resource, a.host_mem \notin {"none", "huge"}
  PROVE  /\ transfer_write(a) => transfer_write([Preserved(a) EXCEPT !.backing = 1])
         /\ transfer_read(a) => transfer_read([Preserved(a) EXCEPT !.backing = 1])
<1>1. /\ [Preserved(a) EXCEPT !.backing = 1].backing = 1
      /\ [Preserved(a) EXCEPT !.backing = 1].host_mem = RestoredMemory(a.host_mem)
  BY DEF Preserved, Resource
<1>2. RestoredMemory(a.host_mem) = a.host_mem
  BY DEF RestoredMemory
<1> QED
  BY <1>1, <1>2 DEF transfer_write, transfer_read

LEMMA WorksNext == TypeOK /\ SnapWorks /\ [Next]_vars => SnapWorks'
<1> SUFFICES ASSUME TypeOK, SnapWorks, [Next]_vars PROVE SnapWorks'
  OBVIOUS
<1>1. CASE UNCHANGED snap
  BY <1>1 DEF SnapWorks
<1>2. CASE snapshot
  <2> SUFFICES ASSUME NEW w \in Works(resources), 
                      w[1] \notin {r \in ResIds : resources[r].host_mem \in {"none", "huge"}}
               PROVE  w \in Works(Rebacked(snap'.resources))
    BY <1>2 DEF snapshot, SnapWorks
  <2>1. PICK r \in ResIds : \/ w = <<r, "write">> /\ transfer_write(resources[r])
                            \/ w = <<r, "read">> /\ transfer_read(resources[r])
    BY WorksEntry
  <2>2. resources[r] \in Resource /\ resources[r].host_mem \notin {"none", "huge"}
    BY <2>1 DEF TypeOK
  <2>3. Rebacked(snap'.resources)[r] = [Preserved(resources[r]) EXCEPT !.backing = 1]
    BY <1>2 DEF snapshot, Rebacked
  <2>4. \/ w = <<r, "write">> /\ transfer_write(Rebacked(snap'.resources)[r])
        \/ w = <<r, "read">> /\ transfer_read(Rebacked(snap'.resources)[r])
    BY <2>1, <2>2, <2>3, PreservedWorks
  <2> QED
    BY <2>4, WorksEntry
<1> QED
  BY <1>1, <1>2, SnapKept

\* A restore gives back what the snapshot was taken of, whatever happened in
\* between, but for host buffers that come back with another size.
THEOREM RestoresAlike == Spec => RestoredAlike
<1>1. Spec => []SnapWorks
  BY TypeCorrect, WorksInit, WorksNext, PTL DEF Spec
<1>2. SnapWorks /\ [Next]_vars =>
         [restore => {w \in snap.works : w[1] \notin snap.resized} \subseteq WorksBacked(resources')]_vars
  <2> SUFFICES ASSUME SnapWorks, restore
               PROVE  {w \in snap.works : w[1] \notin snap.resized} \subseteq WorksBacked(resources')
    OBVIOUS
  <2>1. resources' = snap.resources
    BY DEF restore
  <2> QED
    BY <2>1 DEF SnapWorks, Rebacked, WorksBacked
<1> QED
  BY <1>1, <1>2, PTL DEF Spec, RestoredAlike
=============================================================================
