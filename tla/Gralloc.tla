------------------------------ MODULE Gralloc -------------------------------
(***************************************************************************)
(* Allocation of images (src/src/rutabaga_gralloc) by the cross-domain     *)
(* contexts that share one RutabagaGralloc: a guest asks for the           *)
(* requirements of an image, which its context keeps as an item, and       *)
(* creates blobs from the item as often as it likes.                       *)
(*                                                                         *)
(* The requirements come from system memory, from minigbm, which makes the *)
(* buffer at once and stashes it away, or from Vulkan, by features and     *)
(* host.  What the drivers return is external: layouts with padded rows,   *)
(* memory types in any order.  Numbers are scaled down: u32 is 0..Word-1.  *)
(***************************************************************************)
EXTENDS Naturals, Sequences, FiniteSetsExt

CONSTANTS
    Contexts,
    Infos,        \* images guests ask for
    Hosts,        \* machines, see HostType
    Word,         \* 2^32
    PageSize,
    Tile,         \* Vulkan's images have their rows padded to this
    GbmPad,       \* what minigbm pads rows to, a function of the use flags
    MaxDim,       \* 4096, the largest dimension of a Vulkan image
    MaxItems      \* bound: requirements a context keeps

Formats == {"R8", "RGB565", "BGR888", "XRGB8888", "ABGR16161616F", "NV12", "YVU420", "other"}
Flags == {"RENDERING", "LINEAR", "TEXTURING", "CAMERA_WRITE", "CAMERA_READ",
          "SW_READ_OFTEN", "SW_WRITE_OFTEN"}
Properties == {"DEVICE_LOCAL", "HOST_VISIBLE", "HOST_COHERENT", "HOST_CACHED"}
InfoType == [width : Nat, height : Nat, format : Formats, flags : SUBSET Flags]
\* A Vulkan device: whether init() could use it, its extensions, its memory
\* types and the ones that images may have.
DeviceType == [usable : BOOLEAN, type : {"Integrated", "Discrete", "Cpu"}, id : Nat,
               dmabuf : BOOLEAN, external : BOOLEAN,
               memory_types : Seq(SUBSET Properties), type_bits : SUBSET Nat]
HostType == [render_node : BOOLEAN, phys : Seq(DeviceType)]

ASSUME GrallocAssumption ==
    /\ Infos \subseteq InfoType /\ Word \in Nat /\ PageSize \in Nat \ {0} /\ Tile \in Nat \ {0}
    /\ GbmPad \in [SUBSET Flags -> Nat \ {0}]
    /\ MaxItems \in Nat /\ MaxDim \in Nat /\ Hosts \subseteq HostType
    \* Vulkan: memory the host can map is coherent or cached.
    /\ \A h \in Hosts : \A i \in DOMAIN h.phys :
           LET types == h.phys[i].memory_types
           IN  /\ h.phys[i].type_bits \subseteq DOMAIN types
               /\ \A k \in DOMAIN types : "HOST_VISIBLE" \in types[k] =>
                      types[k] \cap {"HOST_COHERENT", "HOST_CACHED"} # {}
    \* An image within the bounds is far below 2^32 bytes.
    /\ (8 * MaxDim + Tile) * MaxDim * 3 < Word

VARIABLES
    features,     \* cargo features the crate was built with
    host,
    grallocs,     \* the backends that could be initialised
    last_buffer,  \* minigbm's stash
    initialized,  \* contexts with a state, after CMD_INIT
    items,        \* the ImageRequirements items of each context
    result        \* of the last operation

vars == <<features, host, grallocs, last_buffer, initialized, items, result>>

-----------------------------------------------------------------------------
(* Formats                                                                 *)

Plane(sub, bpp) == [sub |-> sub, bpp |-> bpp]

planar_layout(format) ==
    CASE format = "R8"            -> <<Plane(1, 1)>>
      [] format = "RGB565"        -> <<Plane(1, 2)>>
      [] format = "BGR888"        -> <<Plane(1, 3)>>
      [] format = "XRGB8888"      -> <<Plane(1, 4)>>
      [] format = "ABGR16161616F" -> <<Plane(1, 8)>>
      [] format = "NV12"          -> <<Plane(1, 1), Plane(2, 2)>>
      [] format = "YVU420"        -> <<Plane(1, 1), Plane(2, 1), Plane(2, 1)>>
      [] OTHER                    -> <<>>

\* vulkan_image_aspect has no case for ABGR16161616F, which vulkan_format has.
HasAspect(format) == format \notin {"ABGR16161616F", "other"}

RoundUp(n, m) == ((n + m - 1) \div m) * m

stride_from_layout(layout, width, p) == layout[p].bpp * (width \div layout[p].sub)

\* The planes one after the other, with rows padded to a multiple of pad.
Layout(format, width, height, pad) ==
    LET layout == planar_layout(format)
        stride(p) == RoundUp(stride_from_layout(layout, width, p), pad)
        end[p \in 0..Len(layout)] ==
            IF p = 0 THEN 0 ELSE end[p - 1] + (height \div layout[p].sub) * stride(p)
    IN  [strides |-> [p \in DOMAIN layout |-> stride(p)],
         offsets |-> [p \in DOMAIN layout |-> end[p - 1]],
         size    |-> end[Len(layout)]]
Planes(info, pad) == Layout(info.format, info.width, info.height, pad)

-----------------------------------------------------------------------------
(* Requirements; err is "ok" or the error returned                         *)

NoLayout == [strides |-> <<>>, offsets |-> <<>>, size |-> 0]
Requirements(backend, info, layout, map_info, device, memory_idx) ==
    [err |-> "ok", backend |-> backend, info |-> info,
     strides |-> layout.strides, offsets |-> layout.offsets, size |-> RoundUp(layout.size, PageSize),
     map_info |-> map_info, device |-> device, memory_idx |-> memory_idx]
NoInfo == [width |-> 0, height |-> 0, format |-> "other", flags |-> {}]
Failed(err) == [Requirements("none", NoInfo, NoLayout, "none", 0, 0) EXCEPT !.err = err]

\* Plausible bug: the products are not checked and wrap.
WrappingRequirements(info) ==
    LET layout == Planes(info, 1) IN
    IF info.format = "other" THEN Failed("InvalidGrallocDrmFormat")
    ELSE Requirements("System", info, [layout EXCEPT !.size = @ % Word], "CACHED", 0, 0)

\* Every product and sum is checked; size and offsets are u32.
canonical_image_requirements(info) ==
    LET layout == Planes(info, 1) IN
    IF info.format = "other" THEN Failed("InvalidGrallocDrmFormat")
    ELSE IF layout.size >= Word \/ \E p \in DOMAIN layout.strides : layout.strides[p] >= Word
    THEN Failed("CheckedArithmetic")
    ELSE Requirements("System", info, layout, "CACHED", 0, 0)

\* A buffer of minigbm has the layout that the driver gives to the flags it
\* was created with.
Buffer(info, flags) == [info EXCEPT !.flags = flags]
NoBuffer == Buffer(NoInfo, {})
flags_no_tex(info) == info.flags \ {"TEXTURING"}

minigbm_requirements(info) ==
    IF info.format = "other" \/ info.width = 0 \/ info.height = 0 THEN Failed("IoError")
    ELSE IF last_buffer # NoBuffer THEN Failed("AlreadyInUse")
    ELSE Requirements("Minigbm", info, Planes(info, GbmPad[flags_no_tex(info)]), "WC", 0, 0)

Usable(h) == {i \in DOMAIN h.phys : h.phys[i].usable}
\* devices: of two devices of a type the later one stays.
OfType(t) == {i \in Usable(host) : host.phys[i].type = t}
device_type == IF OfType("Integrated") # {} THEN "Integrated" ELSE "Discrete"
device == Max(OfType(device_type))

create_image(info) ==
    IF OfType(device_type) = {} THEN "InvalidGrallocGpuType"
    ELSE IF info.width \notin 1..MaxDim \/ info.height \notin 1..MaxDim THEN "InvalidGrallocDimensions"
    ELSE IF info.format = "other" THEN "InvalidGrallocDrmFormat" ELSE "ok"

host_visible(flags) == flags \cap {"SW_READ_OFTEN", "SW_WRITE_OFTEN", "CAMERA_WRITE", "CAMERA_READ"} # {}
host_cached(flags) == flags \cap {"CAMERA_READ", "SW_READ_OFTEN"} # {}

\* Plausible bug: device-local memory is preferred whoever uses the image.
PreferLocal(flags, props) ==
    IF "DEVICE_LOCAL" \in props THEN "Preferred" ELSE "Allowed"

filter(flags, props) ==
    IF host_visible(flags) /\ "HOST_VISIBLE" \notin props THEN "Forbidden"
    ELSE IF \/ ~host_visible(flags) /\ "DEVICE_LOCAL" \in props
            \/ host_visible(flags) /\ host_cached(flags) /\ "HOST_CACHED" \in props
            \/ /\ host_visible(flags) /\ ~host_cached(flags)
               /\ "HOST_COHERENT" \in props /\ "HOST_CACHED" \notin props
    THEN "Preferred" ELSE "Allowed"

\* The first preferred type, or else the first allowed one.
Found(flags, wanted) ==
    {i \in host.phys[device].type_bits : filter(flags, host.phys[device].memory_types[i]) = wanted}
memory_type(flags) ==
    Min(IF Found(flags, "Preferred") # {} THEN Found(flags, "Preferred") ELSE Found(flags, "Allowed"))

map_info_of(props) ==
    IF {"HOST_VISIBLE", "HOST_CACHED"} \subseteq props THEN "CACHED"
    ELSE IF {"HOST_VISIBLE", "HOST_COHERENT"} \subseteq props THEN "WC" ELSE "none"

\* row_pitch and offset are cut to u32.
AsU32(layout) ==
    [layout EXCEPT !.strides = [p \in DOMAIN @ |-> @[p] % Word],
                   !.offsets = [p \in DOMAIN @ |-> @[p] % Word]]

vulkano_requirements(info) ==
    IF create_image(info) # "ok" THEN Failed(create_image(info))
    ELSE IF ~HasAspect(info.format) THEN Failed("InvalidGrallocDrmFormat")
    ELSE IF Found(info.flags, "Preferred") \cup Found(info.flags, "Allowed") = {}
    THEN Failed("unable to find required memory type")
    ELSE Requirements("Vulkano", info, AsU32(Planes(info, Tile)),
                      map_info_of(host.phys[device].memory_types[memory_type(info.flags)]),
                      host.phys[device].id, memory_type(info.flags))

-----------------------------------------------------------------------------
(* RutabagaGralloc                                                         *)

\* RutabagaGralloc::new with all flags.
new(f, h) ==
    {"System"} \cup {b \in {"Minigbm"} : "gbm" \in f /\ h.render_node}
    \cup {b \in {"Vulkano"} : "vulkano" \in f /\ Usable(h) # {}}

\* Minigbm only if it is there, Vulkano whether it is there or not.
determine_optimal_backend ==
    IF "vulkano" \in features THEN "Vulkano"
    ELSE IF "Minigbm" \in grallocs THEN "Minigbm" ELSE "System"

\* Plausible bug: one device is enough.
AnyDeviceDmabuf(b) ==
    b = "Minigbm" \/ (b = "Vulkano" /\ \E i \in Usable(host) : host.phys[i].dmabuf)

\* The last device of each type has the extension.
DmabufBackend(b) ==
    \/ b = "Minigbm"
    \/ b = "Vulkano" /\ \A i \in Usable(host) :
           i = Max(OfType(host.phys[i].type)) => host.phys[i].dmabuf
ExternalBackend(b) ==
    \/ b = "Minigbm"
    \/ b = "Vulkano" /\ \A i \in Usable(host) :
           i = Max(OfType(host.phys[i].type)) => host.phys[i].external

\* CrossDomain::get_capset
supports_dmabuf == \E b \in grallocs : DmabufBackend(b)
supports_external_gpu_memory == \E b \in grallocs : ExternalBackend(b)

get_image_memory_requirements(info) ==
    IF determine_optimal_backend \notin grallocs THEN Failed("InvalidGrallocBackend")
    ELSE
    CASE determine_optimal_backend = "System"  -> canonical_image_requirements(info)
      [] determine_optimal_backend = "Minigbm" -> minigbm_requirements(info)
      [] determine_optimal_backend = "Vulkano" -> vulkano_requirements(info)

NoMemory == [handle |-> "none", buffer |-> NoBuffer, strides |-> <<>>, size |-> 0,
             device |-> 0, memory_idx |-> 0]
Result(op, reqs, err, memory) == [op |-> op, reqs |-> reqs, err |-> err, memory |-> memory]

Init ==
    /\ features \in SUBSET {"gbm", "vulkano"}
    /\ host \in Hosts
    /\ grallocs = new(features, host)
    /\ last_buffer = NoBuffer
    /\ initialized = {}
    /\ items = [c \in Contexts |-> {}]
    /\ result = [op |-> "none"]

-----------------------------------------------------------------------------
(* Cross-domain contexts                                                   *)

\* CMD_INIT; a context that is destroyed comes back as a new one.
Initialize(c) ==
    /\ c \notin initialized
    /\ initialized' = initialized \cup {c}
    /\ result' = [op |-> "none"]
    /\ UNCHANGED <<features, host, grallocs, last_buffer, items>>

\* Minigbm's stash is no part of the context.
Drop(c) ==
    /\ c \in initialized
    /\ initialized' = initialized \ {c}
    /\ items' = [items EXCEPT ![c] = {}]
    /\ result' = [op |-> "none"]
    /\ UNCHANGED <<features, host, grallocs, last_buffer>>

\* CMD_GET_IMAGE_REQUIREMENTS.  The buffer is made and stashed before the
\* context looks whether it has a state.  The driver may fail.
get_image_requirements(c, info) ==
    /\ Cardinality(items[c]) < MaxItems
    /\ \E driver \in {"ok", "fails"} :
       LET reqs == IF driver = "fails" /\ determine_optimal_backend \in grallocs \ {"System"}
                   THEN Failed("driver") ELSE get_image_memory_requirements(info)
           done == reqs.err = "ok" /\ c \in initialized
       IN  /\ last_buffer' = IF reqs.err = "ok" /\ reqs.backend = "Minigbm"
                             THEN Buffer(info, flags_no_tex(info)) ELSE last_buffer
           /\ items' = IF done THEN [items EXCEPT ![c] = @ \cup {reqs}] ELSE items
           /\ result' = Result("reqs", reqs, IF reqs.err # "ok" THEN reqs.err
                               ELSE IF done THEN "ok" ELSE "InvalidCrossDomainState", NoMemory)
    /\ UNCHANGED <<features, host, grallocs, initialized>>

\* The guest must name the size that the item has.
BlobSizeMismatch(c, reqs) ==
    /\ reqs \in items[c]
    /\ result' = Result("blob", reqs, "blob size mismatch", NoMemory)
    /\ UNCHANGED <<features, host, grallocs, last_buffer, initialized, items>>

\* A handle from the VMM is used as it is; nothing is allocated.
BlobOfHandle(c, reqs) ==
    /\ reqs \in items[c]
    /\ result' = Result("handle", reqs, "ok", NoMemory)
    /\ UNCHANGED <<features, host, grallocs, last_buffer, initialized, items>>

\* A blob of the size in the item, from memory of the given outcome.
CreateBlob(reqs, err, memory) ==
    /\ result' = Result("blob", reqs, err, IF err = "ok" THEN memory ELSE NoMemory)
    /\ UNCHANGED <<features, host, grallocs, initialized, items>>

system_allocate_memory(c, reqs) ==
    /\ reqs \in items[c] /\ determine_optimal_backend = "System"
    /\ CreateBlob(reqs, "ok", [NoMemory EXCEPT !.handle = "SHM", !.size = reqs.size,
                                                  !.strides = reqs.strides])
    /\ UNCHANGED last_buffer

GbmMemory(buffer) ==
    [NoMemory EXCEPT !.handle = "DMABUF", !.buffer = buffer,
                     !.strides = Planes(buffer, GbmPad[buffer.flags]).strides,
                     !.size = RoundUp(Planes(buffer, GbmPad[buffer.flags]).size, PageSize)]

\* Plausible bug: whatever is stashed is handed out.
AnyStash(info) == TRUE

\* Of the stash only these are compared, not the flags.
SameImage(info) ==
    /\ last_buffer.width = info.width /\ last_buffer.height = info.height
    /\ last_buffer.format = info.format

\* The stash is taken out in any case; a new buffer has all the flags.
minigbm_allocate_memory(c, reqs) ==
    /\ reqs \in items[c] /\ determine_optimal_backend = "Minigbm"
    /\ last_buffer' = NoBuffer
    /\ \E driver \in {"ok", "fails"} :
       IF last_buffer = NoBuffer
       THEN CreateBlob(reqs, driver, GbmMemory(reqs.info))
       ELSE IF ~SameImage(reqs.info)
       THEN CreateBlob(reqs, "InvalidGrallocDimensions", NoMemory)
       ELSE CreateBlob(reqs, driver, GbmMemory(last_buffer))

vulkano_allocate_memory(c, reqs) ==
    /\ reqs \in items[c] /\ determine_optimal_backend = "Vulkano"
    /\ \E driver \in {"ok", "fails"} :
       LET err == IF create_image(reqs.info) # "ok" THEN create_image(reqs.info)
                  ELSE IF reqs.memory_idx \notin DOMAIN host.phys[device].memory_types
                  THEN "InvalidVulkanInfo" ELSE driver
       IN  CreateBlob(reqs, err,
               [NoMemory EXCEPT !.handle = IF host.phys[device].dmabuf THEN "DMABUF" ELSE "OPAQUE_FD",
                                !.strides = Planes(reqs.info, Tile).strides,
                                !.size = reqs.size, !.device = host.phys[device].id,
                                !.memory_idx = reqs.memory_idx])
    /\ UNCHANGED last_buffer

Next ==
    \E c \in Contexts :
        \/ Initialize(c) \/ Drop(c)
        \/ \E info \in Infos : get_image_requirements(c, info)
        \/ \E reqs \in items[c] :
               \/ BlobSizeMismatch(c, reqs) \/ BlobOfHandle(c, reqs)
               \/ system_allocate_memory(c, reqs)
               \/ minigbm_allocate_memory(c, reqs)
               \/ vulkano_allocate_memory(c, reqs)

Spec == Init /\ [][Next]_vars

-----------------------------------------------------------------------------
(* Properties                                                              *)

Both == {"gbm", "vulkano"}
NewRequirements == result.op = "reqs" /\ result.reqs.err = "ok"
NewMemory == result.op = "blob" /\ result.err = "ok"

\* Whatever size, format and backend: the rows of the planes that a guest is
\* told of (strides and offsets in u32) lie inside the allocation, and no two
\* of them share a byte (canonical_image_requirements, the layout that
\* VulkanoGralloc reads from the driver).  Odd images of YUV formats have one
\* row and one column of chroma less, as the subsampled sizes are rounded down.
PlanesFit ==
    NewRequirements =>
        LET q      == result.reqs
            layout == planar_layout(q.info.format)
            Rows   == UNION {{p} \X (0..(q.info.height \div layout[p].sub) - 1) : p \in DOMAIN layout}
            start(r) == q.offsets[r[1]] + r[2] * q.strides[r[1]]
            bytes(r) == layout[r[1]].bpp * (q.info.width \div layout[r[1]].sub)
        IN  \A r \in Rows :
                /\ start(r) + bytes(r) <= q.size
                /\ \A t \in Rows \ {r} : \/ start(r) + bytes(r) <= start(t)
                                         \/ start(t) + bytes(t) <= start(r)

\* Minigbm stashed this buffer for a request with other use flags, which
\* allocate_memory does not compare, and the driver lays them out differently.
OthersStash(q, m) ==
    /\ q.backend = "Minigbm" /\ m.buffer.flags \notin {q.info.flags, flags_no_tex(q.info)}
    /\ GbmPad[m.buffer.flags] # GbmPad[flags_no_tex(q.info)]

\* Minigbm made this buffer when the blob was created, with the flag TEXTURING
\* that the query had removed, and the driver lays out textures differently.
TexturedAfresh(q, m) ==
    /\ q.backend = "Minigbm" /\ m.buffer.flags = q.info.flags /\ "TEXTURING" \in q.info.flags
    /\ GbmPad[m.buffer.flags] # GbmPad[flags_no_tex(q.info)]

\* "(1) Get memory requirements ... (2) Allocate using those requirements"
\* (gralloc.rs): through queries and allocations of several contexts in any
\* order, failures included, the memory of a blob is the memory its
\* requirements described, but for OthersStash and TexturedAfresh, and always
\* the same image.
PromiseKept ==
    NewMemory =>
        LET q == result.reqs
            m == result.memory
        IN  /\ OthersStash(q, m) \/ TexturedAfresh(q, m) \/ (m.strides = q.strides /\ m.size = q.size)
            /\ q.backend = "Minigbm" => m.buffer = Buffer(q.info, m.buffer.flags)
            /\ q.backend = "Vulkano" =>
                   /\ m.device = q.device
                   /\ m.memory_idx \in host.phys[device].type_bits

\* An image that the CPU or a camera uses is in memory the host can map, with
\* the caching that map_info says, cached if it is read and there is such
\* memory; any other image is in device memory if there is some (the two
\* passes of the filter in VulkanoGralloc).
MemoryTypeRight ==
    NewRequirements /\ result.reqs.backend = "Vulkano" =>
        LET q     == result.reqs
            types == host.phys[device].memory_types
            mine  == types[q.memory_idx]
            Some(props) == \E i \in host.phys[device].type_bits : props \subseteq types[i]
            reads == {"SW_READ_OFTEN", "CAMERA_READ"} \cap q.info.flags # {}
            cpu   == reads \/ {"SW_WRITE_OFTEN", "CAMERA_WRITE"} \cap q.info.flags # {}
        IN  /\ q.memory_idx \in host.phys[device].type_bits
            /\ cpu => "HOST_VISIBLE" \in mine /\ q.map_info # "none"
            /\ reads /\ Some({"HOST_VISIBLE", "HOST_CACHED"}) => q.map_info = "CACHED"
            /\ ~cpu /\ Some({"DEVICE_LOCAL"}) => "DEVICE_LOCAL" \in mine

\* What get_capset tells the guest is true of the memory it gets: dmabufs, GPU
\* memory.  A build with both GPU backends is excepted: the capset asks all
\* backends, and only Vulkano allocates.
CapsHonoured ==
    NewMemory /\ features # Both =>
        /\ supports_dmabuf => result.memory.handle = "DMABUF"
        /\ supports_external_gpu_memory => result.memory.handle # "SHM"
=============================================================================
