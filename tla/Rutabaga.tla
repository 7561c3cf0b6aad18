------------------------------ MODULE Rutabaga ------------------------------
(***************************************************************************)
(* The core of rutabaga_gfx (src/src/rutabaga_core.rs): the builder, the   *)
(* tables of resources and contexts, and the components behind them.       *)
(*                                                                         *)
(* One thread calls the core, so an operation is one step; an operation    *)
(* that fails without an effect is no step.  The 2D, cross-domain and      *)
(* Magma components are this repository's; virglrenderer and gfxstream are *)
(* C libraries, of which the model keeps what the core tells them.         *)
(*                                                                         *)
(* An Arc<RutabagaHandle> and a Vec<RutabagaIovec> are tokens, so that it  *)
(* can be said who owns them.                                              *)
(***************************************************************************)
EXTENDS Naturals, FiniteSets

CONSTANTS
    ResIds, CtxIds, FenceIds,  \* ids the guest and the VMM choose
    Builds,        \* what RutabagaBuilder is given, see BuildType
    BlobCmds,      \* blobs the guest asks for: memory, shareable flag
    Capsets,       \* capsets the guest asks contexts for
    MaxHandles,    \* bound: handles at one time
    MaxVecs        \* bound: iovec lists at one time

Virgl     == {"virgl", "virgl2", "venus", "drm"}
Gfxstream == {"gfxstream-vulkan", "gfxstream-gles", "gfxstream-composer"}
AllCapsets == Virgl \cup Gfxstream \cup {"cross-domain", "magma"}
Renderers == {"VirglRenderer", "Gfxstream"}
ComponentTypes == Renderers \cup {"NoneSelected", "Rutabaga2D", "CrossDomain", "Magma"}

\* RUTABAGA_CAPSETS
CapsetComponent(capset) ==
    CASE capset \in Virgl -> "VirglRenderer"
      [] capset \in Gfxstream -> "Gfxstream"
      [] capset = "cross-domain" -> "CrossDomain"
      [] capset = "magma" -> "Magma"

\* Shared memory, which the core can map; dmabufs, which virglrenderer imports.
HandleTypes == {"shm", "dmabuf", "other"}

\* The arguments of the builder, the features that were compiled in, whether
\* virglrenderer can be initialised on this host, and the types of the handles
\* that its allocators, renderers and peers give out.
BuildType == [capset_mask : SUBSET AllCapsets, default_component : ComponentTypes,
              features : SUBSET (Renderers \cup {"unstable"}), virgl_ok : BOOLEAN,
              handles : SUBSET HandleTypes]

ASSUME CoreAssumption ==
    /\ Builds \subseteq BuildType
    /\ BlobCmds \subseteq [mem : {"guest", "host"}, share : BOOLEAN]
    /\ Capsets \subseteq AllCapsets
    /\ {MaxHandles, MaxVecs} \subseteq Nat

VARIABLES
    build,             \* the builder's input
    resources,         \* the resource table
    contexts,          \* the context table, with the resources attached to each
    shareable_fences,
    renderer,          \* what the default component's C library knows
    exported,          \* handles the VMM owns alone
    snap,              \* the last complete snapshot
    torn,              \* a restore failed after the C library's part of it
    panicked

vars == <<build, resources, contexts, shareable_fences, renderer, exported, snap, torn, panicked>>

-----------------------------------------------------------------------------
(* RutabagaBuilder::build                                                  *)

requested_component(b) ==
    IF b.capset_mask = {} THEN b.default_component
    ELSE IF b.capset_mask \cap Gfxstream # {} THEN "Gfxstream"
    ELSE IF b.capset_mask \cap (Virgl \ {"virgl"}) # {} THEN "VirglRenderer"
    ELSE "CrossDomain"

\* Disabled components are not used as default.
Buildable(b) ==
    requested_component(b) \in Renderers => requested_component(b) \in b.features

default_component(b) ==
    IF requested_component(b) = "VirglRenderer" /\ ~b.virgl_ok
    THEN "Rutabaga2D" ELSE requested_component(b)

Components(b) ==
    (IF requested_component(b) = "Rutabaga2D" THEN {}
     ELSE {"CrossDomain"}
          \cup ({default_component(b)} \cap Renderers)
          \cup {c \in {"Magma"} : "magma" \in b.capset_mask})
    \cup ({default_component(b)} \cap {"Rutabaga2D"})

\* push_capset
capset_info(b) ==
    LET pushed == {c \in AllCapsets \ {"magma"} : CapsetComponent(c) \in Components(b)}
    IN  IF b.capset_mask = {} THEN pushed ELSE pushed \cap b.capset_mask

default    == default_component(build)
components == Components(build)
InRenderer == default \in Renderers
Unstable   == "unstable" \in build.features

\* fence_passing_option1 of build.rs
FencePassing == "VirglRenderer" \notin build.features

-----------------------------------------------------------------------------
(* State                                                                   *)

NoHandle == [id |-> 0, type |-> "none"]
NoResource == [mask |-> {}, mem |-> "free", share |-> FALSE, handle |-> NoHandle,
               host_mem |-> "no2d", stride |-> FALSE, backing |-> 0,
               mapping |-> FALSE]
\* What the trait's create_3d returns: not a blob, and nothing in it.
PlainResource == [NoResource EXCEPT !.mem = "none", !.share = TRUE]

\* A resource attached to a cross-domain or Magma context.
Unattached == [here |-> FALSE, handle |-> NoHandle, backing |-> 0]
NoContext  == [type |-> "free", res |-> [r \in ResIds |-> Unattached]]
NewContext(ty) == [NoContext EXCEPT !.type = ty]

NoRenderer == [res |-> {}, iov |-> [r \in ResIds |-> 0], map |-> {}, ctx |-> {}]
NoSnapshot == [taken |-> FALSE, resources |-> [r \in ResIds |-> NoResource], contexts |-> {},
               renderer |-> NoRenderer, works |-> {}, resized |-> {}]

\* A VMM that could not restore tries again or ends.
Running   == ~panicked /\ ~torn
Exists(r) == resources[r].mem # "free"
Open(c)   == contexts[c].type # "free"

\* Who has a handle or an iovec list: resources r are <<r>>, attachments <<c, r>>.
Holders(id) ==
    {<<r>> : r \in {x \in ResIds : resources[x].handle.id = id}}
    \cup {a \in CtxIds \X ResIds : contexts[a[1]].res[a[2]].handle.id = id}
Owners(id) ==
    {<<r>> : r \in {x \in ResIds : resources[x].backing = id}}
    \cup {a \in CtxIds \X ResIds : contexts[a[1]].res[a[2]].backing = id}

\* A new token is the least that nobody has.
HandleFree(id) == id \notin exported /\ Holders(id) = {}
VecFree(id) == Owners(id) = {} /\ \A r \in ResIds : renderer.iov[r] # id
IsNewVec(id) == VecFree(id) /\ \A n \in 1 .. id - 1 : ~VecFree(n)

\* A handle an allocator, a peer or a renderer gives to a new resource, or none.
Handles == [id : 1 .. MaxHandles, type : HandleTypes]
HostHandles == {h \in Handles : h.type \in build.handles}
IsNewHandle(h) ==
    h # NoHandle => HandleFree(h.id) /\ \A n \in 1 .. h.id - 1 : ~HandleFree(n)

Init ==
    /\ build \in {b \in Builds : Buildable(b)}
    /\ resources = [r \in ResIds |-> NoResource]
    /\ contexts = [c \in CtxIds |-> NoContext]
    /\ shareable_fences = {} /\ renderer = NoRenderer /\ exported = {}
    /\ snap = NoSnapshot /\ torn = FALSE /\ panicked = FALSE

SetResource(r, res) == resources' = [resources EXCEPT ![r] = res]
Rest == <<build, shareable_fences, exported, snap, torn, panicked>>

-----------------------------------------------------------------------------
(* Resources                                                               *)

\* component.create_3d of the default component.  An image of 2D is huge when
\* it has 2^32 bytes or more, which its usize product (rutabaga_2d.rs:183) allows.
resource_create_3d(r) ==
    /\ Running /\ default \in components /\ ~Exists(r)
    /\ \/ /\ default = "Rutabaga2D"
          /\ \E m \in {"full", "huge"} :
                SetResource(r, [PlainResource EXCEPT !.mask = {default}, !.host_mem = m])
          /\ UNCHANGED renderer
       \/ /\ InRenderer
          /\ \E h \in HostHandles \cup {NoHandle} :
                /\ IsNewHandle(h)
                /\ SetResource(r, [PlainResource EXCEPT !.mask = {default}, !.handle = h])
          /\ renderer' = [renderer EXCEPT !.res = @ \cup {r}]
       \/ /\ default = "CrossDomain"
          /\ SetResource(r, PlainResource)
          /\ UNCHANGED renderer
    /\ UNCHANGED <<Rest, contexts>>

\* Only gfxstream imports.  With RESOURCE_EXISTS the tables stay as they are;
\* without it the id may be a cross-domain resource's, which is replaced.
resource_import(r) ==
    /\ Running /\ default = "Gfxstream" /\ Unstable /\ r \notin renderer.res
    /\ SetResource(r, [PlainResource EXCEPT !.mask = {default}])
    /\ renderer' = [renderer EXCEPT !.res = @ \cup {r}]
    /\ UNCHANGED <<Rest, contexts>>

\* The component's attach_backing comes first and may refuse.
attach_backing(r) ==
    /\ Running /\ default \in components /\ Exists(r)
    /\ InRenderer => r \in renderer.res
    /\ \E id \in 1 .. MaxVecs :
          /\ IsNewVec(id)
          /\ resources' = [resources EXCEPT ![r].backing = id]
          /\ renderer' = IF InRenderer THEN [renderer EXCEPT !.iov[r] = id] ELSE renderer
    /\ UNCHANGED <<Rest, contexts>>

detach_backing(r) ==
    /\ Running /\ default \in components /\ Exists(r)
    /\ resources' = [resources EXCEPT ![r].backing = 0]
    /\ renderer' = [renderer EXCEPT !.iov[r] = 0]
    /\ UNCHANGED <<Rest, contexts>>

\* unref_resource of the C libraries.
Released(rd, r) ==
    [rd EXCEPT !.res = @ \ {r}, !.iov[r] = 0, !.map = @ \ {r}]

\* Plausible bug: only the component that made the resource is told.
UnrefMaker(r) ==
    /\ Running /\ default \in components /\ Exists(r)
    /\ SetResource(r, NoResource)
    /\ renderer' = IF resources[r].mask = {default} THEN Released(renderer, r) ELSE renderer
    /\ UNCHANGED <<Rest, contexts>>

\* The default component is told, whichever component made the resource; a
\* context the resource is attached to is not.
unref_resource(r) ==
    /\ Running /\ default \in components /\ Exists(r)
    /\ SetResource(r, NoResource)
    /\ renderer' = Released(renderer, r)
    /\ UNCHANGED <<Rest, contexts>>

set_scanout(r) ==
    /\ Running /\ Exists(r) /\ resources[r].host_mem # "no2d" /\ ~resources[r].stride
    /\ resources' = [resources EXCEPT ![r].stride = TRUE]
    /\ UNCHANGED <<Rest, contexts, renderer>>

\* A blob with or without iovecs, as the guest has it.
NewBacking(mem, id) == id = 0 \/ (mem = "guest" /\ IsNewVec(id))

Blob(cmd, ty) == [NoResource EXCEPT !.mem = cmd.mem, !.share = cmd.share, !.mask = {ty}]

\* Rutabaga2D::create_blob
Blob2D(r, cmd) ==
    /\ default = "Rutabaga2D" /\ cmd.mem = "guest"
    /\ \E id \in 0 .. MaxVecs :
          /\ NewBacking(cmd.mem, id)
          /\ SetResource(r, [Blob(cmd, default) EXCEPT !.host_mem = "none", !.backing = id])
    /\ UNCHANGED renderer

\* VirglRenderer::create_blob and Gfxstream::create_blob
RendererBlob(r, cmd) ==
    /\ InRenderer
    /\ \E id \in 0 .. MaxVecs, h \in HostHandles \cup {NoHandle} :
          /\ NewBacking(cmd.mem, id) /\ IsNewHandle(h)
          /\ SetResource(r, [Blob(cmd, default) EXCEPT !.backing = id, !.handle = h])
          /\ renderer' = [renderer EXCEPT !.res = @ \cup {r}, !.iov[r] = id]

\* CrossDomain::create_blob: guest memory, or no flag but MAPPABLE.
CrossDomainBlob(r, cmd) ==
    /\ cmd.mem = "guest" \/ ~cmd.share
    /\ \E id \in 0 .. MaxVecs :
          /\ NewBacking(cmd.mem, id)
          /\ SetResource(r, [Blob(cmd, "CrossDomain") EXCEPT !.backing = id])
    /\ UNCHANGED renderer

\* CrossDomainContext::context_create_blob of an item that CrossDomain has.
ContextBlob(r, cmd) ==
    /\ \E h \in HostHandles :
          /\ IsNewHandle(h)
          /\ SetResource(r, [Blob(cmd, "CrossDomain") EXCEPT !.handle = h])
    /\ UNCHANGED renderer

\* ctx_id 0, or a context that is not cross-domain: the default component.
resource_create_blob(r, cmd) ==
    /\ Running /\ ~Exists(r) /\ default \in components
    /\ \/ Blob2D(r, cmd)
       \/ RendererBlob(r, cmd)
       \/ default = "CrossDomain" /\ CrossDomainBlob(r, cmd)
    /\ UNCHANGED <<Rest, contexts>>

\* A cross-domain context: its items, or blob_id 0 and its component.
context_create_blob(c, r, cmd) ==
    /\ Running /\ ~Exists(r) /\ default \in components /\ contexts[c].type = "CrossDomain"
    /\ ContextBlob(r, cmd) \/ CrossDomainBlob(r, cmd)
    /\ UNCHANGED <<Rest, contexts>>

-----------------------------------------------------------------------------
(* Mapping and export                                                      *)

\* calculate_component, which knows all components but Magma.
IsComponent(r, ty) == resources[r].mask = {ty} /\ ty # "Magma"

\* map of a cross-domain resource takes the handle out and puts it back when
\* it is shared memory and could be mapped (map_info is there if a handle is).
MapHandle(r) ==
    /\ IsComponent(r, "CrossDomain") /\ resources[r].handle # NoHandle
    /\ \/ /\ resources[r].handle.type = "shm"
          /\ resources' = [resources EXCEPT ![r].mapping = TRUE]
       \/ resources' = [resources EXCEPT ![r].handle = NoHandle]
    /\ UNCHANGED renderer

MapInRenderer(r) ==
    /\ IsComponent(r, default) /\ InRenderer
    /\ renderer' = [renderer EXCEPT !.map = @ \cup {r}]
    /\ UNCHANGED resources

map(r) ==
    /\ Running /\ Exists(r)
    /\ MapHandle(r) \/ MapInRenderer(r)
    /\ UNCHANGED <<Rest, contexts>>

unmap(r) ==
    /\ Running /\ Exists(r)
    /\ \/ /\ IsComponent(r, "CrossDomain")
          /\ resources' = [resources EXCEPT ![r].mapping = FALSE]
          /\ UNCHANGED renderer
       \/ /\ IsComponent(r, default) /\ InRenderer
          /\ renderer' = [renderer EXCEPT !.map = @ \ {r}]
          /\ UNCHANGED resources
    /\ UNCHANGED <<Rest, contexts>>

\* Plausible bug: the export goes ahead with no handle.
ExportUnchecked(r) ==
    /\ Running /\ Exists(r) /\ ~resources[r].share
    /\ exported' = exported \cup {resources[r].handle.id}
    /\ resources' = [resources EXCEPT ![r].handle = NoHandle]
    /\ UNCHANGED <<build, contexts, shareable_fences, renderer, snap, torn, panicked>>

\* Plausible bug: the handle is duplicated instead of unwrapped.
ExportAnyway(r) ==
    /\ Running /\ Exists(r) /\ ~resources[r].share /\ resources[r].handle # NoHandle
    /\ exported' = exported \cup {resources[r].handle.id}
    /\ resources' = [resources EXCEPT ![r].handle = NoHandle]
    /\ UNCHANGED <<build, contexts, shareable_fences, renderer, snap, torn, panicked>>

\* A shareable handle is cloned and stays.  Any other is taken out; it goes to
\* the VMM if the resource had the only reference, and is dropped if not.
export_blob(r) ==
    /\ Running /\ Exists(r) /\ ~resources[r].share /\ resources[r].handle # NoHandle
    /\ exported' = IF Holders(resources[r].handle.id) = {<<r>>}
                   THEN exported \cup {resources[r].handle.id} ELSE exported
    /\ resources' = [resources EXCEPT ![r].handle = NoHandle]
    /\ UNCHANGED <<build, contexts, shareable_fences, renderer, snap, torn, panicked>>
-----------------------------------------------------------------------------
(* Contexts                                                                *)

\* A capset that is not advertised gets a context of the default component.
create_context(c, capset) ==
    LET ty == IF capset \in capset_info(build) THEN CapsetComponent(capset) ELSE default
    IN  /\ Running /\ ty \in components \ {"Rutabaga2D"} /\ ~Open(c)
        /\ contexts' = [contexts EXCEPT ![c] = NewContext(ty)]
        /\ renderer' = IF ty \in Renderers THEN [renderer EXCEPT !.ctx = @ \cup {c}] ELSE renderer
        /\ UNCHANGED <<Rest, resources>>

\* A renderer's context is destroyed by its drop.
Closed(rd, c) == [rd EXCEPT !.ctx = @ \ {c}]

destroy_context(c) ==
    /\ Running /\ Open(c)
    /\ contexts' = [contexts EXCEPT ![c] = NoContext]
    /\ renderer' = IF contexts[c].type \in Renderers THEN Closed(renderer, c) ELSE renderer
    /\ UNCHANGED <<Rest, resources>>

\* Plausible bug: the iovecs are copied.
KeepCopy(c, r) ==
    /\ contexts[c].type \in {"CrossDomain", "Magma"}
    /\ resources[r].mem = "guest"
    /\ contexts' = [contexts EXCEPT ![c].res[r] =
          [here |-> TRUE, handle |-> NoHandle, backing |-> resources[r].backing]]
    /\ UNCHANGED <<resources, renderer>>

\* CrossDomainContext::attach and MagmaVirtioGpuContext::attach: the context
\* takes the iovecs of guest memory, or shares the handle.
AttachGuest(c, r) ==
    /\ contexts[c].type \in {"CrossDomain", "Magma"}
    /\ resources[r].mem = "guest"
    /\ contexts' = [contexts EXCEPT ![c].res[r] =
          [here |-> TRUE, handle |-> NoHandle, backing |-> resources[r].backing]]
    /\ resources' = [resources EXCEPT ![r].backing = 0]
    /\ UNCHANGED renderer

AttachHandle(c, r) ==
    /\ contexts[c].type \in {"CrossDomain", "Magma"}
    /\ resources[r].mem # "guest" /\ resources[r].handle # NoHandle
    /\ contexts' = [contexts EXCEPT ![c].res[r] =
          [here |-> TRUE, handle |-> resources[r].handle, backing |-> 0]]
    /\ UNCHANGED <<resources, renderer>>

\* Plausible bug: any handle is imported.
ImportAny(r) == resources[r].handle # NoHandle

\* import_resource: virglrenderer learns of a dmabuf another component made.
Importable(r) == resources[r].handle.type = "dmabuf"

AttachVirgl(c, r) ==
    /\ contexts[c].type = "VirglRenderer"
    /\ "VirglRenderer" \notin resources[r].mask /\ Importable(r)
    /\ resources' = [resources EXCEPT ![r].mask = @ \cup {"VirglRenderer"}]
    /\ renderer' = [renderer EXCEPT !.res = @ \cup {r}]
    /\ UNCHANGED contexts

\* What a renderer's contexts do with resources it has is its own business.
context_attach_resource(c, r) ==
    /\ Running /\ Open(c) /\ Exists(r)
    /\ AttachGuest(c, r) \/ AttachHandle(c, r) \/ AttachVirgl(c, r)
    /\ UNCHANGED Rest

\* The resource must still be in the table.
context_detach_resource(c, r) ==
    /\ Running /\ Exists(r) /\ contexts[c].res[r].here
    /\ contexts' = [contexts EXCEPT ![c].res[r] = Unattached]
    /\ UNCHANGED <<Rest, resources, renderer>>

\* A fence with RUTABAGA_FLAG_FENCE_HOST_SHAREABLE on a ring of a context:
\* gfxstream returns a handle, but for ring 1; the others never do, and the
\* core unwraps what is not there.
create_fence(f, c, ring) ==
    /\ Running /\ FencePassing /\ Open(c)
    /\ IF contexts[c].type = "Gfxstream" /\ ring # 1
       THEN /\ Unstable
            /\ shareable_fences' = shareable_fences \cup {f}
            /\ UNCHANGED panicked
       ELSE panicked' = TRUE /\ UNCHANGED shareable_fences
    /\ UNCHANGED <<build, resources, contexts, renderer, exported, snap, torn>>

\* The first id that is unknown ends destroy_fences; what came before is gone.
destroy_fences(f) ==
    /\ Running /\ f \in shareable_fences
    /\ shareable_fences' = shareable_fences \ {f}
    /\ UNCHANGED <<build, resources, contexts, renderer, exported, snap, torn, panicked>>

-----------------------------------------------------------------------------
(* Snapshot and restore                                                    *)

Image == {"full", "huge"}

\* Whether Rutabaga2D::transfer_write and transfer_read copy every rectangle
\* inside the resource.  A host buffer shorter than the image refuses a write
\* behind its end, and a read there returns Ok without a byte.
transfer_write(a) ==
    \/ a.host_mem = "none" /\ a.mem = "guest"
    \/ a.host_mem \in Image /\ a.backing # 0
transfer_read(a) ==
    \/ a.host_mem = "none" /\ a.stride /\ a.backing # 0
    \/ a.host_mem \in Image

Works(table) ==
    {<<r, "write">> : r \in {x \in ResIds : transfer_write(table[x])}}
    \cup {<<r, "read">> : r \in {x \in ResIds : transfer_read(table[x])}}

\* Plausible bug: the host memory is not allocated again.
PreservedWithoutMemory(a) ==
    [a EXCEPT !.handle = NoHandle, !.backing = 0, !.mapping = FALSE,
              !.stride = FALSE, !.host_mem = IF @ = "no2d" THEN @ ELSE "empty"]

\* The host buffer TryFrom<RutabagaResourceSnapshot> allocates: there is one
\* for every 2D resource, and its size is a product of u32 (line 173).
RestoredMemory(m) == CASE m = "none" -> "empty" [] m = "huge" -> "short" [] OTHER -> m

\* RutabagaResourceSnapshot: what is not kept is what a restored resource lacks.
Preserved(a) == [a EXCEPT !.handle = NoHandle, !.backing = 0, !.mapping = FALSE,
                          !.stride = FALSE, !.host_mem = RestoredMemory(@)]

\* Contexts of gfxstream are the only ones that can be serialised.  Of the C
\* library's state the addresses are not kept.
snapshot ==
    /\ Running /\ default \in {"Rutabaga2D", "Gfxstream"} /\ (default = "Gfxstream" => Unstable)
    /\ default \in components
    /\ \A c \in CtxIds : contexts[c].type \in {"free", "Gfxstream"}
    /\ snap' = [taken |-> TRUE,
                resources |-> [r \in ResIds |-> Preserved(resources[r])],
                contexts |-> {c \in CtxIds : Open(c)},
                renderer |-> [renderer EXCEPT !.iov = NoRenderer.iov, !.map = {}],
                works |-> Works(resources),
                resized |-> {r \in ResIds : resources[r].host_mem \in {"none", "huge"}}]
    /\ UNCHANGED <<build, resources, contexts, shareable_fences, renderer, exported, torn, panicked>>

\* destroy_objects, then the component's restore, then the tables.
restore ==
    /\ ~panicked /\ snap.taken /\ default \in components
    /\ resources' = snap.resources
    /\ contexts' = [c \in CtxIds |-> IF c \in snap.contexts THEN NewContext(default) ELSE NoContext]
    /\ renderer' = snap.renderer /\ torn' = FALSE
    /\ UNCHANGED <<build, shareable_fences, exported, snap, panicked>>

\* The objects are gone before anything is read.  The component's part of the
\* snapshot cannot be read; or its part is restored and the tables cannot be
\* read; or the resources are there and one of the contexts cannot be read,
\* which destroys those that came before it; or the build checks overflow, and
\* the size of a large image panics before there are tables.
restore_fails ==
    /\ ~panicked /\ snap.taken /\ default \in components
    /\ contexts' = [c \in CtxIds |-> NoContext]
    /\ \/ /\ resources' = [r \in ResIds |-> NoResource]
          /\ renderer' = NoRenderer /\ torn' = FALSE /\ UNCHANGED panicked
       \/ /\ resources' = [r \in ResIds |-> NoResource]
          /\ renderer' = snap.renderer /\ torn' = TRUE /\ UNCHANGED panicked
       \/ \E first \in SUBSET snap.contexts :
             /\ first # snap.contexts
             /\ resources' = snap.resources
             /\ renderer' = [snap.renderer EXCEPT !.ctx = @ \ first] /\ torn' = TRUE
             /\ UNCHANGED panicked
       \/ /\ \E r \in ResIds : snap.resources[r].host_mem = "short"
          /\ resources' = [r \in ResIds |-> NoResource]
          /\ renderer' = snap.renderer /\ torn' = TRUE /\ panicked' = TRUE
    /\ UNCHANGED <<build, shareable_fences, exported, snap>>

\* The VMM ends and starts again with the same arguments.
Restart ==
    /\ snap.taken
    /\ resources' = [r \in ResIds |-> NoResource]
    /\ contexts' = [c \in CtxIds |-> NoContext]
    /\ shareable_fences' = {} /\ renderer' = NoRenderer /\ exported' = {}
    /\ torn' = FALSE /\ panicked' = FALSE
    /\ UNCHANGED <<build, snap>>

-----------------------------------------------------------------------------
Next ==
    \/ \E r \in ResIds :
          \/ resource_create_3d(r) \/ resource_import(r)
          \/ attach_backing(r) \/ detach_backing(r)
          \/ unref_resource(r) \/ set_scanout(r)
          \/ map(r) \/ unmap(r) \/ export_blob(r)
    \/ \E r \in ResIds, cmd \in BlobCmds :
          \/ resource_create_blob(r, cmd)
          \/ \E c \in CtxIds : context_create_blob(c, r, cmd)
    \/ \E c \in CtxIds, capset \in Capsets : create_context(c, capset)
    \/ \E c \in CtxIds : destroy_context(c)
    \/ \E c \in CtxIds, r \in ResIds :
          context_attach_resource(c, r) \/ context_detach_resource(c, r)
    \/ \E f \in FenceIds :
          destroy_fences(f) \/ \E c \in CtxIds, ring \in {0, 1} : create_fence(f, c, ring)
    \/ snapshot \/ restore \/ restore_fails \/ Restart

Spec == Init /\ [][Next]_vars

-----------------------------------------------------------------------------
(* Properties                                                              *)

Resource ==
    [mask : SUBSET ComponentTypes, mem : {"free", "none", "guest", "host"}, share : BOOLEAN,
     handle : Handles \cup {NoHandle}, host_mem : {"no2d", "none", "empty", "short"} \cup Image,
     stride : BOOLEAN, backing : 0 .. MaxVecs, mapping : BOOLEAN]
Attachment == [here : BOOLEAN, handle : Handles \cup {NoHandle}, backing : 0 .. MaxVecs]
RendererState ==
    [res : SUBSET ResIds, iov : [ResIds -> 0 .. MaxVecs], map : SUBSET ResIds,
     ctx : SUBSET CtxIds]

\* Every variable keeps its type.
TypeOK ==
    /\ build \in Builds
    /\ resources \in [ResIds -> Resource]
    /\ contexts \in [CtxIds -> [type : ComponentTypes \cup {"free"}, res : [ResIds -> Attachment]]]
    /\ shareable_fences \subseteq FenceIds /\ renderer \in RendererState
    /\ exported \subseteq 1 .. MaxHandles /\ torn \in BOOLEAN /\ panicked \in BOOLEAN
    /\ snap \in [taken : BOOLEAN, resources : [ResIds -> Resource], contexts : SUBSET CtxIds,
                  renderer : RendererState, works : SUBSET (ResIds \X {"read", "write"}), resized : SUBSET ResIds]

\* The C library has the resources whose mask says that it made or imported
\* them, and the contexts of the table, through unref, import, snapshots and
\* failed restores.  It has no others, so that a free id can be used again,
\* unless a restore failed late.
RendererAgrees ==
    LET res == {r \in ResIds : InRenderer /\ default \in resources[r].mask}
        ctx == {c \in CtxIds : contexts[c].type \in Renderers}
    IN  /\ res \subseteq renderer.res /\ ctx \subseteq renderer.ctx
        /\ ~torn => renderer.res = res /\ renderer.ctx = ctx

\* What is mapped can be unmapped: calculate_component still finds the one
\* component that mapped it, although an attachment may have added another.
MappedCanBeUnmapped ==
    \A r \in ResIds :
        /\ resources[r].mapping => IsComponent(r, "CrossDomain")
        /\ r \in renderer.map => IsComponent(r, default)

\* A handle that was given to the VMM for good ("Exactly one strong reference",
\* export_blob) is held by no resource and no context.
ExportedExclusive == \A id \in exported : Holders(id) = {}

\* An iovec list has one owner: attaching guest memory to a context takes it
\* away from the resource and from every other context.
IovecsHaveOneOwner == \A id \in 1 .. MaxVecs : Cardinality(Owners(id)) <= 1

\* What the transfers are once the VMM has attached backing to all of a table.
WorksBacked(table) == Works([r \in ResIds |-> [table[r] EXCEPT !.backing = 1]])

\* "Restore Rutabaga to a previously snapshot'd state" (restore): once the VMM
\* has attached backing again, the 2D transfers that worked work, whatever
\* became of the resource meanwhile and however often it was saved.  Those whose
\* host buffer comes back with another size are excepted: blobs of guest memory,
\* which had none, and images of 2^32 bytes and more (rutabaga_core.rs:173).
RestoredAlike ==
    [][restore => {w \in snap.works : w[1] \notin snap.resized} \subseteq WorksBacked(resources')]_vars
=============================================================================
