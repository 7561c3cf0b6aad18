--------------------------- MODULE GrallocProofs ---------------------------
(***************************************************************************)
(* Proofs about the allocation of images, for any contexts, images, hosts  *)
(* and builds: what a guest is promised is what it gets.                   *)
(***************************************************************************)
EXTENDS Gralloc, WellFoundedInduction, TLAPS

-----------------------------------------------------------------------------
(* Least and greatest elements                                             *)

LEMMA LeastNatural ==
  ASSUME NEW T \in SUBSET Nat, T # {}
  PROVE  \E x \in T : \A y \in T : x <= y
<1> DEFINE R == OpToRel(<, Nat)
<1>1. IsWellFoundedOn(R, Nat)
  BY NatLessThanWellFounded
<1>2. \A x, y \in Nat : <<y, x>> \in R <=> y < x
  BY DEF OpToRel
<1> HIDE DEF R
<1>3. PICK x \in T : \A y \in T : ~(<<y, x>> \in R)
  BY <1>1, WFMin
<1>4. ASSUME NEW y \in T PROVE x <= y
  <2>1. x \in Nat /\ y \in Nat /\ ~(y < x)
    BY <1>2, <1>3
  <2> QED
    BY <2>1
<1> QED
  BY <1>4

LEMMA MinIsLeast ==
  ASSUME NEW T \in SUBSET Nat, T # {}
  PROVE  Min(T) \in T /\ \A y \in T : Min(T) <= y
  BY LeastNatural DEF Min

LEMMA MaxIsGreatest ==
  ASSUME NEW n \in Nat, NEW T \in SUBSET (0..n), T # {}
  PROVE  Max(T) \in T /\ \A y \in T : y <= Max(T)
<1> DEFINE D == {n - x : x \in T}
<1>1. D \in SUBSET Nat /\ D # {}
  <2>1. \A x \in T : n - x \in Nat
    OBVIOUS
  <2> QED
    BY <2>1
<1>2. PICK d \in D : \A e \in D : d <= e
  BY <1>1, LeastNatural
<1>3. PICK x \in T : d = n - x
  BY <1>2
<1>4. ASSUME NEW y \in T PROVE x >= y
  <2>1. n - x <= n - y
    BY <1>2, <1>3
  <2> QED
    BY <2>1
<1> QED
  BY <1>4 DEF Max

-----------------------------------------------------------------------------
(* Rows of Vulkan images                                                   *)

\* Padding adds less than a tile.
LEMMA RoundUpBound ==
  ASSUME NEW n \in Nat, NEW m \in Nat \ {0}
  PROVE  RoundUp(n, m) \in Nat /\ RoundUp(n, m) <= n + m - 1
<1> DEFINE k == n + m - 1
           d == k \div m
<1>1. k \in Nat /\ d \in Nat /\ k = m * d + (k % m) /\ k % m \in Nat
  OBVIOUS
<1>2. d * m = m * d /\ m * d \in Nat
  BY <1>1
<1>3. RoundUp(n, m) = m * d
  BY <1>2 DEF RoundUp
<1> HIDE DEF k, d
<1>4. m * d <= k
  BY <1>1, <1>2
<1> QED
  BY <1>2, <1>3, <1>4 DEF k

\* The formats have at most 8 bytes in a pixel.
LEMMA LayoutBound ==
  ASSUME NEW format \in Formats, NEW p \in DOMAIN planar_layout(format)
  PROVE  /\ planar_layout(format)[p].bpp \in 1..8
         /\ planar_layout(format)[p].sub \in 1..2
  BY DEF Formats, planar_layout, Plane

\* A row of an image that Vulkan accepts has at most 8 * MaxDim bytes, and padding.
LEMMA RowBound ==
  ASSUME NEW format \in Formats, NEW width \in 1..MaxDim, NEW p \in DOMAIN planar_layout(format)
  PROVE  LET row == RoundUp(stride_from_layout(planar_layout(format), width, p), Tile)
         IN  row \in Nat /\ row <= 8 * MaxDim + Tile
<1> DEFINE bpp == planar_layout(format)[p].bpp
           sub == planar_layout(format)[p].sub
           w == width \div sub
<1>1. MaxDim \in Nat /\ Tile \in Nat \ {0} /\ width \in Nat /\ width <= MaxDim
  BY GrallocAssumption
<1>2. bpp \in 1..8 /\ sub \in 1..2
  BY LayoutBound
<1> HIDE DEF bpp, sub
<1>3. w \in Nat /\ w <= width
  BY <1>1, <1>2
<1> HIDE DEF w
<1>4. bpp * w \in Nat /\ bpp * w <= 8 * MaxDim
  <2>1. bpp \in {1, 2, 3, 4, 5, 6, 7, 8}
    BY <1>2
  <2> QED
    BY <1>1, <1>3, <2>1
<1>5. RoundUp(bpp * w, Tile) \in Nat /\ RoundUp(bpp * w, Tile) <= bpp * w + Tile - 1
  BY <1>1, <1>4, RoundUpBound
<1>6. stride_from_layout(planar_layout(format), width, p) = bpp * w
  BY DEF stride_from_layout, bpp, w, sub
<1> QED
  BY <1>1, <1>4, <1>5, <1>6

\* Such a row is not cut by the conversion to u32.
LEMMA RowFits ==
  ASSUME NEW format \in Formats, NEW width \in 1..MaxDim, NEW p \in DOMAIN planar_layout(format)
  PROVE  LET row == RoundUp(stride_from_layout(planar_layout(format), width, p), Tile)
         IN  row \in Nat /\ row < Word
<1>1. MaxDim \in Nat /\ Tile \in Nat \ {0} /\ Word \in Nat /\ 1 <= MaxDim
  BY GrallocAssumption
<1>2. 8 * MaxDim + Tile < Word
  <2>1. PICK a \in Nat : a = 8 * MaxDim + Tile
    BY <1>1
  <2>2. a * MaxDim * 3 < Word
    BY <2>1, GrallocAssumption
  <2>3. a <= a * MaxDim /\ a * MaxDim \in Nat
    BY <1>1, <2>1
  <2> QED
    BY <1>1, <2>1, <2>2, <2>3
<1> QED
  BY <1>1, <1>2, RowBound

-----------------------------------------------------------------------------
(* The inductive invariant                                                 *)

Machine ==
    /\ features \in SUBSET {"gbm", "vulkano"} /\ host \in Hosts
    /\ grallocs = new(features, host)

\* What an item says is what its backend would do with it: minigbm for a
\* buffer with the flags asked for, Vulkan on this machine.
Promised(q) ==
    /\ q.info \in Infos /\ q.backend = determine_optimal_backend
    /\ q.backend = "Minigbm" =>
           LET layout == Planes(q.info, GbmPad[flags_no_tex(q.info)])
           IN  q.strides = layout.strides /\ q.size = RoundUp(layout.size, PageSize)
    /\ q.backend = "Vulkano" =>
           /\ q.strides = Planes(q.info, Tile).strides
           /\ q.device = host.phys[device].id
           /\ q.memory_idx \in host.phys[device].type_bits

GInv ==
    /\ Machine
    /\ last_buffer \in InfoType
    /\ items = [c \in Contexts |-> items[c]]
    /\ \A c \in Contexts : \A q \in items[c] : Promised(q)

LEMMA DeviceExists ==
  ASSUME Machine, OfType(device_type) # {}
  PROVE  /\ device \in Usable(host) /\ device \in DOMAIN host.phys
         /\ host.phys[device].type = device_type /\ device = Max(OfType(device_type))
         /\ host.phys[device] \in DeviceType
<1>1. host.phys \in Seq(DeviceType)
  BY GrallocAssumption DEF Machine, HostType
<1>2. Len(host.phys) \in Nat /\ OfType(device_type) \in SUBSET (0..Len(host.phys))
  BY <1>1 DEF OfType, Usable
<1>3. device \in OfType(device_type)
  BY <1>2, MaxIsGreatest DEF device
<1>4. /\ device \in Usable(host) /\ device \in DOMAIN host.phys
      /\ host.phys[device].type = device_type
  BY <1>3 DEF OfType, Usable
<1>5. host.phys[device] \in DeviceType
  BY <1>1, <1>4
<1> QED
  BY <1>4, <1>5 DEF device

\* The type found in the two passes.
LEMMA MemoryTypeFound ==
  ASSUME Machine, OfType(device_type) # {}, NEW flags,
         Found(flags, "Preferred") \cup Found(flags, "Allowed") # {}
  PROVE  /\ memory_type(flags) \in host.phys[device].type_bits
         /\ filter(flags, host.phys[device].memory_types[memory_type(flags)]) \in {"Preferred", "Allowed"}
         /\ Found(flags, "Preferred") # {} =>
               filter(flags, host.phys[device].memory_types[memory_type(flags)]) = "Preferred"
<1> DEFINE T == IF Found(flags, "Preferred") # {} THEN Found(flags, "Preferred") ELSE Found(flags, "Allowed")
<1>1. host.phys[device].type_bits \in SUBSET Nat
  BY DeviceExists DEF DeviceType
<1>2. T \in SUBSET Nat /\ T # {}
  BY <1>1 DEF Found
<1>3. memory_type(flags) \in T
  BY <1>2, MinIsLeast DEF memory_type
<1> QED
  BY <1>3 DEF Found

LEMMA VulkanoPromised ==
  ASSUME Machine, NEW info \in Infos, vulkano_requirements(info).err = "ok",
         determine_optimal_backend = "Vulkano"
  PROVE  Promised(vulkano_requirements(info))
<1> DEFINE q == vulkano_requirements(info)
<1>1. /\ create_image(info) = "ok"
      /\ Found(info.flags, "Preferred") \cup Found(info.flags, "Allowed") # {}
      /\ q = Requirements("Vulkano", info, AsU32(Planes(info, Tile)),
                      map_info_of(host.phys[device].memory_types[memory_type(info.flags)]),
                      host.phys[device].id, memory_type(info.flags))
  BY DEF vulkano_requirements, Failed, Requirements
<1>2. /\ OfType(device_type) # {} /\ info.width \in 1..MaxDim
      /\ info.format \in Formats
  <2>1. info \in InfoType
    BY GrallocAssumption
  <2> QED
    BY <1>1, <2>1 DEF create_image, InfoType
<1>3. memory_type(info.flags) \in host.phys[device].type_bits
  BY <1>1, <1>2, MemoryTypeFound
<1> DEFINE L == Planes(info, Tile)
           rows == [p \in DOMAIN planar_layout(info.format) |->
                       RoundUp(stride_from_layout(planar_layout(info.format), info.width, p), Tile)]
<1>4. L.strides = rows
  BY DEF Planes, Layout
<1>5. AsU32(L).strides = [p \in DOMAIN rows |-> rows[p] % Word]
  BY <1>4 DEF AsU32, Planes, Layout
<1>6. \A p \in DOMAIN rows : rows[p] % Word = rows[p]
  <2> SUFFICES ASSUME NEW p \in DOMAIN planar_layout(info.format) PROVE rows[p] % Word = rows[p]
    OBVIOUS
  <2>1. rows[p] \in Nat /\ rows[p] < Word /\ Word \in Nat
    BY <1>2, RowFits, GrallocAssumption
  <2> QED
    BY <2>1
<1>7. AsU32(L).strides = L.strides
  BY <1>4, <1>5, <1>6
<1> QED
  BY <1>1, <1>3, <1>7 DEF Promised, Requirements

\* Every successful query gives a promise that is true.
LEMMA QueryPromised ==
  ASSUME Machine, NEW info \in Infos, get_image_memory_requirements(info).err = "ok"
  PROVE  Promised(get_image_memory_requirements(info))
<1> DEFINE b == determine_optimal_backend
           q == get_image_memory_requirements(info)
<1>1. b \in grallocs
  BY DEF get_image_memory_requirements, Failed, Requirements
<1>2. CASE b = "System"
  <2>1. q = canonical_image_requirements(info)
    BY <1>1, <1>2 DEF get_image_memory_requirements
  <2>2. q = Requirements("System", info, Planes(info, 1), "CACHED", 0, 0)
    BY <2>1 DEF canonical_image_requirements, Failed, Requirements
  <2> QED
    BY <1>2, <2>2 DEF Promised, Requirements
<1>3. CASE b = "Minigbm"
  <2>1. q = minigbm_requirements(info)
    BY <1>1, <1>3 DEF get_image_memory_requirements
  <2>2. q = Requirements("Minigbm", info, Planes(info, GbmPad[flags_no_tex(info)]), "WC", 0, 0)
    BY <2>1 DEF minigbm_requirements, Failed, Requirements
  <2> QED
    BY <1>3, <2>2 DEF Promised, Requirements
<1>4. CASE b = "Vulkano"
  <2>1. q = vulkano_requirements(info)
    BY <1>1, <1>4 DEF get_image_memory_requirements
  <2> QED
    BY <1>4, <2>1, VulkanoPromised
<1> QED
  BY <1>2, <1>3, <1>4 DEF determine_optimal_backend

\* A promise depends on the machine alone.
LEMMA PromisedKept ==
  ASSUME UNCHANGED <<features, host, grallocs>>, NEW q, Promised(q) PROVE Promised(q)'
<1>1. device' = device /\ determine_optimal_backend' = determine_optimal_backend
  BY DEF device, device_type, OfType, determine_optimal_backend
<1> QED
  BY <1>1 DEF Promised

LEMMA GInvStep ==
  ASSUME GInv, UNCHANGED <<features, host, grallocs>>, last_buffer' \in InfoType,
         items' = items \/ \E c \in Contexts : \E S : /\ items' = [items EXCEPT ![c] = S]
                                                      /\ \A q \in S : Promised(q)
  PROVE  GInv'
<1>1. items' = [c \in Contexts |-> items'[c]] /\ \A c \in Contexts : \A q \in items'[c] : Promised(q)
  <2>1. CASE items' = items
    BY <2>1 DEF GInv
  <2>2. ASSUME NEW c \in Contexts, NEW S, items' = [items EXCEPT ![c] = S], \A q \in S : Promised(q)
        PROVE  items' = [d \in Contexts |-> items'[d]] /\ \A d \in Contexts : \A q \in items'[d] : Promised(q)
    BY <2>2 DEF GInv
  <2> QED
    BY <2>1, <2>2
<1>2. \A c \in Contexts : \A q \in items'[c] : Promised(q)'
  BY <1>1, PromisedKept
<1>3. Machine'
  BY DEF GInv, Machine
<1> QED
  BY <1>1, <1>2, <1>3 DEF GInv

\* What a query may answer.
Answers(info) == {Failed("driver"), get_image_memory_requirements(info)}

LEMMA QueryAnswer ==
  ASSUME NEW c, NEW info, get_image_requirements(c, info)
  PROVE  \E reqs \in Answers(info) :
            /\ last_buffer' \in {last_buffer, Buffer(info, flags_no_tex(info))}
            /\ \/ items' = items
               \/ reqs.err = "ok" /\ items' = [items EXCEPT ![c] = @ \cup {reqs}]
            /\ result'.op = "reqs" /\ result'.reqs = reqs
            /\ UNCHANGED <<features, host, grallocs>>
<1>1. PICK driver \in {"ok", "fails"} :
       LET reqs == IF driver = "fails" /\ determine_optimal_backend \in grallocs \ {"System"}
                   THEN Failed("driver") ELSE get_image_memory_requirements(info)
           done == reqs.err = "ok" /\ c \in initialized
       IN  /\ last_buffer' = IF reqs.err = "ok" /\ reqs.backend = "Minigbm"
                             THEN Buffer(info, flags_no_tex(info)) ELSE last_buffer
           /\ items' = IF done THEN [items EXCEPT ![c] = @ \cup {reqs}] ELSE items
           /\ result' = Result("reqs", reqs, IF reqs.err # "ok" THEN reqs.err
                               ELSE IF done THEN "ok" ELSE "InvalidCrossDomainState", NoMemory)
  BY DEF get_image_requirements
<1> DEFINE reqs == IF driver = "fails" /\ determine_optimal_backend \in grallocs \ {"System"}
                   THEN Failed("driver") ELSE get_image_memory_requirements(info)
<1>2. reqs \in Answers(info)
  BY DEF Answers
<1>3. /\ last_buffer' = IF reqs.err = "ok" /\ reqs.backend = "Minigbm"
                        THEN Buffer(info, flags_no_tex(info)) ELSE last_buffer
      /\ items' = IF reqs.err = "ok" /\ c \in initialized THEN [items EXCEPT ![c] = @ \cup {reqs}] ELSE items
      /\ \E err : result' = Result("reqs", reqs, err, NoMemory)
  BY <1>1
<1>4. UNCHANGED <<features, host, grallocs>>
  BY DEF get_image_requirements
<1> HIDE DEF reqs
<1>5. result'.op = "reqs" /\ result'.reqs = reqs
  BY <1>3 DEF Result
<1>6. last_buffer' \in {last_buffer, Buffer(info, flags_no_tex(info))}
  BY <1>3
<1>7. items' = items \/ (reqs.err = "ok" /\ items' = [items EXCEPT ![c] = @ \cup {reqs}])
  BY <1>3
<1> QED
  BY <1>2, <1>4, <1>5, <1>6, <1>7, Zenon

LEMMA AnswerPromised ==
  ASSUME Machine, NEW info \in Infos, NEW reqs \in Answers(info), reqs.err = "ok"
  PROVE  reqs = get_image_memory_requirements(info) /\ Promised(reqs)
<1>1. Failed("driver").err # "ok"
  BY DEF Failed, Requirements
<1> QED
  BY <1>1, QueryPromised DEF Answers

\* A blob of the item reqs.
Allocates(c, reqs) ==
    \/ system_allocate_memory(c, reqs) \/ minigbm_allocate_memory(c, reqs)
    \/ vulkano_allocate_memory(c, reqs)

LEMMA GInvInit == Init => GInv
<1> SUFFICES ASSUME Init PROVE GInv
  OBVIOUS
<1>1. Machine
  BY DEF Init, Machine
<1>2. last_buffer \in InfoType
  BY DEF Init, NoBuffer, Buffer, NoInfo, InfoType, Formats
<1>3. items = [c \in Contexts |-> items[c]] /\ \A c \in Contexts : \A q \in items[c] : Promised(q)
  BY DEF Init
<1> QED
  BY <1>1, <1>2, <1>3 DEF GInv

LEMMA GInvQuery ==
  ASSUME GInv, NEW c \in Contexts, NEW info \in Infos, get_image_requirements(c, info) PROVE GInv'
<1>1. PICK reqs \in Answers(info) :
            /\ last_buffer' \in {last_buffer, Buffer(info, flags_no_tex(info))}
            /\ \/ items' = items
               \/ reqs.err = "ok" /\ items' = [items EXCEPT ![c] = @ \cup {reqs}]
            /\ UNCHANGED <<features, host, grallocs>>
  BY QueryAnswer
<1>2. last_buffer' \in InfoType
  <2>1. info \in InfoType
    BY GrallocAssumption
  <2>2. Buffer(info, flags_no_tex(info)) \in InfoType
    BY <2>1 DEF Buffer, InfoType, flags_no_tex
  <2> QED
    BY <1>1, <2>2 DEF GInv
<1>3. CASE reqs.err = "ok" /\ items' = [items EXCEPT ![c] = @ \cup {reqs}]
  <2>1. \A q \in items[c] \cup {reqs} : Promised(q)
    BY <1>3, AnswerPromised DEF GInv
  <2> QED
    BY <1>1, <1>2, <1>3, <2>1, GInvStep
<1> QED
  BY <1>1, <1>2, <1>3, GInvStep

LEMMA GInvNext == GInv /\ [Next]_vars => GInv'
<1> SUFFICES ASSUME GInv, [Next]_vars PROVE GInv'
  OBVIOUS
<1>1. NoBuffer \in InfoType
  BY DEF NoBuffer, Buffer, NoInfo, InfoType, Formats
<1>2. last_buffer \in InfoType
  BY DEF GInv
<1>3. ASSUME NEW c \in Contexts, Initialize(c) PROVE GInv'
  BY <1>2, <1>3, GInvStep DEF Initialize
<1>4. ASSUME NEW c \in Contexts, Drop(c) PROVE GInv'
  <2>1. /\ items' = [items EXCEPT ![c] = {}] /\ last_buffer' \in InfoType
        /\ UNCHANGED <<features, host, grallocs>>
    BY <1>2, <1>4 DEF Drop
  <2>2. items' = [d \in Contexts |-> items'[d]] /\ \A d \in Contexts : items'[d] \subseteq items[d]
    BY <2>1 DEF GInv
  <2>3. \A d \in Contexts : \A q \in items'[d] : Promised(q)'
    BY <2>1, <2>2, PromisedKept DEF GInv
  <2>4. Machine'
    BY <2>1 DEF GInv, Machine
  <2> QED
    BY <2>1, <2>2, <2>3, <2>4 DEF GInv
<1>5. ASSUME NEW c \in Contexts, NEW reqs \in items[c],
             BlobSizeMismatch(c, reqs) \/ BlobOfHandle(c, reqs) \/ Allocates(c, reqs)
      PROVE  GInv'
  <2>1. UNCHANGED <<features, host, grallocs, items>> /\ last_buffer' \in {last_buffer, NoBuffer}
    BY <1>5 DEF BlobSizeMismatch, BlobOfHandle, Allocates, system_allocate_memory,
                minigbm_allocate_memory, vulkano_allocate_memory, CreateBlob
  <2> QED
    BY <1>1, <1>2, <2>1, GInvStep
<1>6. CASE UNCHANGED vars
  BY <1>2, <1>6, GInvStep DEF vars
<1> QED
  BY <1>3, <1>4, <1>5, <1>6, GInvQuery DEF Next, Allocates

\* What the items promise is so in every state.
LEMMA GInvAlways == Spec => []GInv
  BY GInvInit, GInvNext, PTL DEF Spec

-----------------------------------------------------------------------------
(* Blobs                                                                   *)

LEMMA SystemKeeps ==
  ASSUME GInv, NEW c \in Contexts, NEW q \in items[c], system_allocate_memory(c, q)
  PROVE  PromiseKept' /\ CapsHonoured'
<1>1. determine_optimal_backend = "System" /\ q.backend = "System"
  BY DEF system_allocate_memory, GInv, Promised
<1>2. /\ result'.reqs = q /\ result'.memory.strides = q.strides /\ result'.memory.size = q.size
      /\ UNCHANGED <<features, host, grallocs>>
  BY DEF system_allocate_memory, CreateBlob, Result, NoMemory
<1>3. PromiseKept'
  BY <1>1, <1>2 DEF PromiseKept
<1>4. features # Both => grallocs = {"System"}
  <2>1. "vulkano" \notin features /\ "Minigbm" \notin grallocs /\ grallocs = new(features, host)
    BY <1>1 DEF determine_optimal_backend, GInv, Machine
  <2> QED
    BY <2>1 DEF new
<1>5. CapsHonoured'
  BY <1>2, <1>4 DEF CapsHonoured, supports_dmabuf, supports_external_gpu_memory, DmabufBackend, ExternalBackend
<1> QED
  BY <1>3, <1>5

\* Under one padding, images alike but for their flags have one layout.
LEMMA SameLayout ==
  ASSUME NEW a \in InfoType, NEW b \in InfoType, a.width = b.width, a.height = b.height,
         a.format = b.format, NEW n
  PROVE  Planes(a, n) = Planes(b, n)
  BY DEF Planes

LEMMA MinigbmKeeps ==
  ASSUME GInv, NEW c \in Contexts, NEW q \in items[c], minigbm_allocate_memory(c, q)
  PROVE  PromiseKept' /\ CapsHonoured'
<1>1. /\ determine_optimal_backend = "Minigbm" /\ q.backend = "Minigbm" /\ q.info \in InfoType
      /\ q.strides = Planes(q.info, GbmPad[flags_no_tex(q.info)]).strides
      /\ q.size = RoundUp(Planes(q.info, GbmPad[flags_no_tex(q.info)]).size, PageSize)
  BY GrallocAssumption DEF minigbm_allocate_memory, GInv, Promised
<1>2. /\ result'.reqs = q /\ UNCHANGED <<features, host, grallocs>>
  BY DEF minigbm_allocate_memory, CreateBlob, Result
<1>3. NewMemory' => \E b \in InfoType : /\ result'.memory = GbmMemory(b) /\ b.width = q.info.width
                                        /\ b.height = q.info.height /\ b.format = q.info.format
  <2>1. NewMemory' => \/ result'.memory = GbmMemory(q.info)
                      \/ result'.memory = GbmMemory(last_buffer) /\ SameImage(q.info)
    BY DEF NewMemory, minigbm_allocate_memory, CreateBlob, Result
  <2>2. last_buffer \in InfoType
    BY DEF GInv
  <2> QED
    BY <1>1, <2>1, <2>2 DEF SameImage
<1>4. ASSUME NEW b \in InfoType, result'.memory = GbmMemory(b), b.width = q.info.width,
             b.height = q.info.height, b.format = q.info.format
      PROVE  PromiseKept' /\ CapsHonoured'
  <2> DEFINE m == result'.memory
  <2>1. /\ m.handle = "DMABUF" /\ m.buffer = b /\ m.strides = Planes(b, GbmPad[b.flags]).strides
        /\ m.size = RoundUp(Planes(b, GbmPad[b.flags]).size, PageSize)
    BY <1>4 DEF GbmMemory, NoMemory
  <2>2. b = Buffer(q.info, b.flags)
    BY <1>1, <1>4 DEF Buffer, InfoType
  <2>3. GbmPad[b.flags] = GbmPad[flags_no_tex(q.info)] => m.strides = q.strides /\ m.size = q.size
    BY <1>1, <1>4, <2>1, SameLayout
  <2>4. GbmPad[b.flags] # GbmPad[flags_no_tex(q.info)] => OthersStash(q, m) \/ TexturedAfresh(q, m)
    <3>1. "TEXTURING" \notin q.info.flags => flags_no_tex(q.info) = q.info.flags
      BY DEF flags_no_tex
    <3> QED
      BY <1>1, <2>1, <3>1 DEF OthersStash, TexturedAfresh
  <2>5. PromiseKept'
    BY <1>1, <1>2, <2>1, <2>2, <2>3, <2>4 DEF PromiseKept
  <2>6. CapsHonoured'
    BY <2>1 DEF CapsHonoured
  <2> QED
    BY <2>5, <2>6
<1>5. CASE ~NewMemory'
  BY <1>5 DEF PromiseKept, CapsHonoured
<1> QED
  BY <1>3, <1>4, <1>5

LEMMA VulkanoKeeps ==
  ASSUME GInv, NEW c \in Contexts, NEW q \in items[c], vulkano_allocate_memory(c, q)
  PROVE  PromiseKept' /\ CapsHonoured'
<1>1. /\ determine_optimal_backend = "Vulkano" /\ q.backend = "Vulkano"
      /\ q.strides = Planes(q.info, Tile).strides
      /\ q.device = host.phys[device].id
      /\ q.memory_idx \in host.phys[device].type_bits
  BY DEF vulkano_allocate_memory, GInv, Promised
<1>2. result'.reqs = q /\ UNCHANGED <<features, host, grallocs>>
  BY DEF vulkano_allocate_memory, CreateBlob, Result
<1>3. CASE ~NewMemory'
  BY <1>3 DEF PromiseKept, CapsHonoured
<1>4. CASE NewMemory'
  <2> DEFINE m == [NoMemory EXCEPT !.handle = IF host.phys[device].dmabuf THEN "DMABUF" ELSE "OPAQUE_FD",
                                !.strides = Planes(q.info, Tile).strides,
                                !.size = q.size, !.device = host.phys[device].id,
                                !.memory_idx = q.memory_idx]
  <2>1. result'.memory = m /\ create_image(q.info) = "ok"
    BY <1>4 DEF NewMemory, vulkano_allocate_memory, CreateBlob, Result
  <2>2. device' = device
    BY <1>2 DEF device, device_type, OfType
  <2>3. /\ m.strides = q.strides /\ m.size = q.size /\ m.device = q.device /\ m.memory_idx = q.memory_idx
        /\ m.handle = IF host.phys[device].dmabuf THEN "DMABUF" ELSE "OPAQUE_FD"
    BY <1>1 DEF NoMemory
  <2> HIDE DEF m
  <2>4. PromiseKept'
    BY <1>1, <1>2, <2>1, <2>2, <2>3 DEF PromiseKept
  <2>5. OfType(device_type) # {} /\ Machine
    BY <2>1 DEF create_image, GInv
  <2>6. features # Both /\ supports_dmabuf => host.phys[device].dmabuf
    <3> SUFFICES ASSUME features # Both, supports_dmabuf PROVE host.phys[device].dmabuf
      OBVIOUS
    <3>1. "vulkano" \in features /\ features \in SUBSET {"gbm", "vulkano"} /\ grallocs = new(features, host)
      BY <1>1, <2>5 DEF determine_optimal_backend, Machine
    <3>2. "Minigbm" \notin grallocs
      BY <3>1 DEF new, Both
    <3>3. DmabufBackend("Vulkano")
      BY <3>1, <3>2 DEF supports_dmabuf, DmabufBackend, new
    <3> QED
      BY <2>5, <3>3, DeviceExists DEF DmabufBackend
  <2>7. CapsHonoured'
    BY <1>2, <2>1, <2>3, <2>6 DEF CapsHonoured, supports_dmabuf, DmabufBackend, Usable, OfType
  <2> QED
    BY <2>4, <2>7
<1> QED
  BY <1>3, <1>4

-----------------------------------------------------------------------------
(* The memory type of a query                                              *)

LEMMA TypeRight ==
  ASSUME Machine, NEW info \in Infos, determine_optimal_backend = "Vulkano",
         vulkano_requirements(info).err = "ok", NEW q, q = vulkano_requirements(info)
  PROVE  LET types == host.phys[device].memory_types
             mine  == types[q.memory_idx]
             Some(props) == \E i \in host.phys[device].type_bits : props \subseteq types[i]
             reads == {"SW_READ_OFTEN", "CAMERA_READ"} \cap q.info.flags # {}
             cpu   == reads \/ {"SW_WRITE_OFTEN", "CAMERA_WRITE"} \cap q.info.flags # {}
         IN  /\ q.memory_idx \in host.phys[device].type_bits
             /\ cpu => "HOST_VISIBLE" \in mine /\ q.map_info # "none"
             /\ reads /\ Some({"HOST_VISIBLE", "HOST_CACHED"}) => q.map_info = "CACHED"
             /\ ~cpu /\ Some({"DEVICE_LOCAL"}) => "DEVICE_LOCAL" \in mine
<1> DEFINE types == host.phys[device].memory_types
           bits  == host.phys[device].type_bits
           flags == info.flags
           k     == memory_type(flags)
           reads == {"SW_READ_OFTEN", "CAMERA_READ"} \cap flags # {}
           cpu   == reads \/ {"SW_WRITE_OFTEN", "CAMERA_WRITE"} \cap flags # {}
<1>1. /\ create_image(info) = "ok" /\ Found(flags, "Preferred") \cup Found(flags, "Allowed") # {}
      /\ q.info = info /\ q.memory_idx = k /\ q.map_info = map_info_of(types[k])
  BY DEF vulkano_requirements, Failed, Requirements
<1>2. OfType(device_type) # {}
  BY <1>1 DEF create_image
<1>3. /\ k \in bits /\ filter(flags, types[k]) \in {"Preferred", "Allowed"}
      /\ Found(flags, "Preferred") # {} => filter(flags, types[k]) = "Preferred"
  BY <1>1, <1>2, MemoryTypeFound
<1>4. (cpu <=> host_visible(flags)) /\ (reads <=> host_cached(flags))
  BY DEF host_visible, host_cached
<1>5. bits \subseteq DOMAIN types /\ \A i \in DOMAIN types : "HOST_VISIBLE" \in types[i] =>
                      types[i] \cap {"HOST_COHERENT", "HOST_CACHED"} # {}
  BY <1>2, DeviceExists, GrallocAssumption DEF Machine
<1> HIDE DEF k, types, bits, flags, reads, cpu
<1>6. cpu => "HOST_VISIBLE" \in types[k] /\ map_info_of(types[k]) # "none"
  <2>1. cpu => "HOST_VISIBLE" \in types[k]
    BY <1>3, <1>4 DEF filter
  <2> QED
    BY <1>3, <1>5, <2>1 DEF map_info_of
<1>7. ASSUME reads, NEW i \in bits, {"HOST_VISIBLE", "HOST_CACHED"} \subseteq types[i]
      PROVE  map_info_of(types[k]) = "CACHED"
  <2>1. cpu
    BY <1>7 DEF cpu
  <2>2. filter(flags, types[i]) = "Preferred"
    BY <1>4, <1>7, <2>1 DEF filter
  <2>3. Found(flags, "Preferred") # {}
    BY <1>7, <2>2 DEF Found, bits, types
  <2>4. {"HOST_VISIBLE", "HOST_CACHED"} \subseteq types[k]
    BY <1>3, <1>4, <1>7, <2>1, <2>3 DEF filter
  <2> QED
    BY <2>4 DEF map_info_of
<1>8. ASSUME ~cpu, NEW i \in bits, {"DEVICE_LOCAL"} \subseteq types[i]
      PROVE  "DEVICE_LOCAL" \in types[k]
  <2>1. filter(flags, types[i]) = "Preferred"
    BY <1>4, <1>8 DEF filter
  <2>2. Found(flags, "Preferred") # {}
    BY <1>8, <2>1 DEF Found, bits, types
  <2> QED
    BY <1>3, <1>4, <1>8, <2>2 DEF filter
<1> QED
  BY <1>1, <1>3, <1>6, <1>7, <1>8 DEF k, types, bits, flags, reads, cpu

LEMMA QueryTypeRight ==
  ASSUME GInv, NEW c \in Contexts, NEW info \in Infos, get_image_requirements(c, info)
  PROVE  MemoryTypeRight'
<1>1. PICK q \in Answers(info) : result'.reqs = q /\ UNCHANGED <<features, host, grallocs>>
  BY QueryAnswer
<1>2. Machine
  BY DEF GInv
<1>3. CASE NewRequirements' /\ q.backend = "Vulkano"
  <2>1. q.err = "ok"
    BY <1>1, <1>3 DEF NewRequirements
  <2>2. q = get_image_memory_requirements(info) /\ Promised(q)
    BY <1>2, <2>1, AnswerPromised
  <2>3. determine_optimal_backend = "Vulkano" /\ "Vulkano" \in grallocs
    BY <1>3, <2>1, <2>2 DEF Promised, get_image_memory_requirements, Failed, Requirements
  <2>4. q = vulkano_requirements(info)
    BY <2>2, <2>3 DEF get_image_memory_requirements
  <2>5. device' = device
    BY <1>1 DEF device, device_type, OfType
  <2> QED
    BY <1>1, <1>2, <2>1, <2>3, <2>4, <2>5, TypeRight DEF MemoryTypeRight
<1>4. CASE ~(NewRequirements' /\ q.backend = "Vulkano")
  BY <1>1, <1>4 DEF MemoryTypeRight
<1> QED
  BY <1>3, <1>4

-----------------------------------------------------------------------------
(* Planes one after the other                                              *)

RowBytes(format, width, p) == stride_from_layout(planar_layout(format), width, p)
PlaneRows(format, height, p) == height \div planar_layout(format)[p].sub

\* f[p] is the end of plane p, for the first n planes.
Ends(f, format, width, height, pad, n) ==
    f = [p \in 0..n |-> IF p = 0 THEN 0
                        ELSE f[p - 1] + PlaneRows(format, height, p) * RoundUp(RowBytes(format, width, p), pad)]

LEMMA EndsExtend ==
  ASSUME NEW format, NEW width, NEW height, NEW pad, NEW n \in Nat, NEW g,
         Ends(g, format, width, height, pad, n)
  PROVE  \E f : Ends(f, format, width, height, pad, n + 1)
<1> DEFINE plane(p) == PlaneRows(format, height, p) * RoundUp(RowBytes(format, width, p), pad)
           f == [p \in 0..(n + 1) |-> IF p = n + 1 THEN g[n] + plane(n + 1) ELSE g[p]]
<1>1. \A p \in 0..n : g[p] = IF p = 0 THEN 0 ELSE g[p - 1] + plane(p)
  BY DEF Ends
<1> HIDE DEF plane
<1>2. ASSUME NEW p \in 0..(n + 1)
      PROVE  f[p] = IF p = 0 THEN 0 ELSE f[p - 1] + plane(p)
  <2>1. CASE p = n + 1
    <3>1. p # 0 /\ p - 1 = n /\ n \in 0..(n + 1) /\ n # n + 1
      BY <2>1
    <3> QED
      BY <2>1, <3>1
  <2>2. CASE p # n + 1
    <3>1. p \in 0..n /\ f[p] = g[p]
      BY <2>2
    <3>2. p # 0 => p - 1 \in 0..(n + 1) /\ p - 1 # n + 1
      BY <2>2
    <3>3. p # 0 => f[p - 1] = g[p - 1]
      BY <3>2
    <3> QED
      BY <1>1, <3>1, <3>3
  <2> QED
    BY <2>1, <2>2
<1>3. f = [p \in 0..(n + 1) |-> IF p = 0 THEN 0 ELSE f[p - 1] + plane(p)]
  BY <1>2
<1>4. Ends(f, format, width, height, pad, n + 1)
  BY <1>3 DEF Ends, plane
<1> QED
  BY <1>4

LEMMA EndsExist ==
  ASSUME NEW format, NEW width, NEW height, NEW pad, NEW n \in Nat
  PROVE  \E f : Ends(f, format, width, height, pad, n)
<1> DEFINE Bad == {m \in Nat : ~\E f : Ends(f, format, width, height, pad, m)}
<1> SUFFICES ASSUME Bad # {} PROVE FALSE
  OBVIOUS
<1>1. PICK m \in Bad : \A k \in Bad : m <= k
  BY LeastNatural
<1>2. CASE m = 0
  <2>1. Ends([p \in 0..0 |-> 0], format, width, height, pad, 0)
    BY DEF Ends
  <2> QED
    BY <1>1, <1>2, <2>1
<1>3. CASE m # 0
  <2>1. m - 1 \in Nat /\ m - 1 \notin Bad /\ (m - 1) + 1 = m
    BY <1>1, <1>3
  <2>2. PICK g : Ends(g, format, width, height, pad, m - 1)
    BY <2>1
  <2>3. \E f : Ends(f, format, width, height, pad, (m - 1) + 1)
    BY <2>1, <2>2, EndsExtend
  <2> QED
    BY <1>1, <2>1, <2>3
<1> QED
  BY <1>2, <1>3

LEMMA LayoutIs ==
  ASSUME NEW format \in Formats, NEW width, NEW height, NEW pad
  PROVE  \E end :
            /\ Ends(end, format, width, height, pad, Len(planar_layout(format)))
            /\ Layout(format, width, height, pad) =
                 [strides |-> [p \in DOMAIN planar_layout(format) |-> RoundUp(RowBytes(format, width, p), pad)],
                  offsets |-> [p \in DOMAIN planar_layout(format) |-> end[p - 1]],
                  size |-> end[Len(planar_layout(format))]]
<1> DEFINE n == Len(planar_layout(format))
           end == CHOOSE f : Ends(f, format, width, height, pad, n)
<1>1. n \in Nat
  BY DEF Formats, planar_layout, Plane
<1>2. Ends(end, format, width, height, pad, n)
  BY <1>1, EndsExist
<1>3. Layout(format, width, height, pad) =
                 [strides |-> [p \in DOMAIN planar_layout(format) |-> RoundUp(RowBytes(format, width, p), pad)],
                  offsets |-> [p \in DOMAIN planar_layout(format) |-> end[p - 1]],
                  size |-> end[n]]
  BY DEF Layout, Ends, RowBytes, PlaneRows
<1> QED
  BY <1>2, <1>3

\* Padding makes no row shorter.
LEMMA RoundUpGrows ==
  ASSUME NEW n \in Nat, NEW m \in Nat \ {0}
  PROVE  RoundUp(n, m) >= n
<1> DEFINE k == n + m - 1
           d == k \div m
<1>1. k \in Nat /\ d \in Nat /\ k = m * d + (k % m) /\ k % m \in Nat /\ k % m < m
  OBVIOUS
<1>2. d * m = m * d /\ m * d \in Nat
  BY <1>1
<1>3. RoundUp(n, m) = m * d
  BY <1>2 DEF RoundUp
<1> HIDE DEF k, d
<1>4. m * d >= k - (m - 1)
  BY <1>1, <1>2
<1> QED
  BY <1>2, <1>3, <1>4 DEF k

LEMMA ProductNat ==
  ASSUME NEW a \in Nat, NEW b \in Nat
  PROVE  a * b \in Nat
  OBVIOUS

LEMMA ProductGrows ==
  ASSUME NEW a \in Nat, NEW b \in Nat, NEW c \in Nat, a < b
  PROVE  a * c + c <= b * c
<1>1. b - a - 1 \in Nat /\ (b - a - 1) * c \in Nat
  BY ProductNat
<1>2. b * c = a * c + c + (b - a - 1) * c
  OBVIOUS
<1>3. a * c \in Nat
  BY ProductNat
<1> QED
  BY <1>1, <1>2, <1>3

LEMMA RowNumbers ==
  ASSUME NEW format \in Formats, NEW width \in Nat, NEW height \in Nat, NEW pad \in Nat \ {0},
         NEW p \in DOMAIN planar_layout(format)
  PROVE  /\ RowBytes(format, width, p) \in Nat /\ PlaneRows(format, height, p) \in Nat
         /\ PlaneRows(format, height, p) <= height
         /\ RoundUp(RowBytes(format, width, p), pad) \in Nat
         /\ RowBytes(format, width, p) <= RoundUp(RowBytes(format, width, p), pad)
<1>1. planar_layout(format)[p].bpp \in 1..8 /\ planar_layout(format)[p].sub \in 1..2
  BY LayoutBound
<1>2. PICK b \in Nat : b = planar_layout(format)[p].bpp
  BY <1>1
<1>3. PICK w \in Nat : w = width \div planar_layout(format)[p].sub
  BY <1>1
<1>4. RowBytes(format, width, p) = b * w /\ b * w \in Nat
  BY <1>2, <1>3, ProductNat DEF RowBytes, stride_from_layout
<1>5. PlaneRows(format, height, p) \in Nat /\ PlaneRows(format, height, p) <= height
  BY <1>1 DEF PlaneRows
<1> QED
  BY <1>4, <1>5, RoundUpBound, RoundUpGrows

\* The planes follow one another.
LEMMA EndsOrdered ==
  ASSUME NEW format \in Formats, NEW width \in Nat, NEW height \in Nat, NEW pad \in Nat \ {0},
         NEW n, n = Len(planar_layout(format)), NEW end, Ends(end, format, width, height, pad, n)
  PROVE  /\ n \in 0..3 /\ DOMAIN planar_layout(format) = 1..n
         /\ \A p \in 0..n : end[p] \in Nat
         /\ \A p \in 1..n : end[p] = end[p - 1] + PlaneRows(format, height, p)
                                                  * RoundUp(RowBytes(format, width, p), pad)
         /\ \A p \in 0..n : \A t \in 0..n : p <= t => end[p] <= end[t]
<1>1. n \in 0..3 /\ DOMAIN planar_layout(format) = 1..n
  <2>1. \/ planar_layout(format) = <<>> \/ \E a : planar_layout(format) = <<a>>
        \/ \E a, b : planar_layout(format) = <<a, b>>
        \/ \E a, b, c : planar_layout(format) = <<a, b, c>>
    BY DEF Formats, planar_layout
  <2>2. CASE planar_layout(format) = <<>>
    BY <2>2
  <2>3. ASSUME NEW a, planar_layout(format) = <<a>> PROVE n = 1 /\ DOMAIN planar_layout(format) = 1..1
    BY <2>3
  <2>4. ASSUME NEW a, NEW b, planar_layout(format) = <<a, b>>
        PROVE  n = 2 /\ DOMAIN planar_layout(format) = 1..2
    BY <2>4
  <2>5. ASSUME NEW a, NEW b, NEW c, planar_layout(format) = <<a, b, c>>
        PROVE  n = 3 /\ DOMAIN planar_layout(format) = 1..3
    BY <2>5
  <2> QED
    BY <2>1, <2>2, <2>3, <2>4, <2>5
<1> DEFINE plane(p) == PlaneRows(format, height, p) * RoundUp(RowBytes(format, width, p), pad)
<1>2. \A p \in 1..n : plane(p) \in Nat
  BY <1>1, RowNumbers, ProductNat
<1>3. \A p \in 0..n : end[p] = IF p = 0 THEN 0 ELSE end[p - 1] + plane(p)
  BY DEF Ends
<1> HIDE DEF plane
<1>4. end[0] = 0
  BY <1>1, <1>3
<1>5. \A p \in 1..n : end[p] = end[p - 1] + plane(p)
  BY <1>1, <1>3
<1>6. n >= 1 => end[1] = end[0] + plane(1) /\ plane(1) \in Nat
  BY <1>1, <1>2, <1>5
<1>7. n >= 2 => end[2] = end[1] + plane(2) /\ plane(2) \in Nat
  BY <1>1, <1>2, <1>5
<1>8. n >= 3 => end[3] = end[2] + plane(3) /\ plane(3) \in Nat
  BY <1>1, <1>2, <1>5
<1>9. \A p \in 0..n : end[p] \in Nat
  <2> SUFFICES ASSUME NEW p \in 0..n PROVE end[p] \in Nat
    OBVIOUS
  <2>1. p \in {0, 1, 2, 3}
    BY <1>1
  <2> QED
    BY <1>1, <1>4, <1>6, <1>7, <1>8, <2>1
<1>10. ASSUME NEW p \in 0..n, NEW t \in 0..n, p <= t PROVE end[p] <= end[t]
  <2>1. n \in Nat /\ \A i \in 0..n : end[i] \in Nat
    BY <1>1, <1>9
  <2>2. n >= 1 => end[0] <= end[1] /\ end[0] \in Nat /\ end[1] \in Nat
    BY <1>6, <2>1
  <2>3. n >= 2 => end[1] <= end[2] /\ end[2] \in Nat
    BY <1>7, <2>1, <2>2
  <2>4. n >= 3 => end[2] <= end[3] /\ end[3] \in Nat
    BY <1>8, <2>1, <2>3
  <2>5. \/ p = t
        \/ p = 0 /\ t \in {1, 2, 3}
        \/ p = 1 /\ t \in {2, 3}
        \/ p = 2 /\ t = 3
    BY <1>1, <1>10
  <2>6. CASE p = t
    BY <2>1, <2>6
  <2>7. CASE p # t
    BY <2>1, <2>2, <2>3, <2>4, <2>5, <2>7
  <2> QED
    BY <2>6, <2>7
<1> QED
  BY <1>1, <1>5, <1>9, <1>10 DEF plane

\* A row lies in its plane, and before the next row of the plane.
LEMMA RowPlace ==
  ASSUME NEW format \in Formats, NEW width \in Nat, NEW height \in Nat, NEW pad \in Nat \ {0},
         NEW n, n = Len(planar_layout(format)), NEW end, Ends(end, format, width, height, pad, n),
         NEW p \in 1..n, NEW y \in 0..(PlaneRows(format, height, p) - 1)
  PROVE  LET stride == RoundUp(RowBytes(format, width, p), pad)
             start == end[p - 1] + y * stride
         IN  /\ start \in Nat /\ start >= end[p - 1] /\ RowBytes(format, width, p) \in Nat
             /\ start + RowBytes(format, width, p) <= end[p]
             /\ \A z \in 0..(PlaneRows(format, height, p) - 1) :
                   y < z => start + RowBytes(format, width, p) <= end[p - 1] + z * stride
<1> DEFINE stride == RoundUp(RowBytes(format, width, p), pad)
           bytes == RowBytes(format, width, p)
           rows == PlaneRows(format, height, p)
<1>1. /\ stride \in Nat /\ bytes \in Nat /\ rows \in Nat /\ bytes <= stride
  BY EndsOrdered, RowNumbers
<1>2. /\ end[p - 1] \in Nat /\ end[p] \in Nat /\ end[p] = end[p - 1] + rows * stride
  <2>1. n \in Nat /\ p \in 0..n /\ p - 1 \in 0..n
    BY EndsOrdered
  <2> QED
    BY <2>1, EndsOrdered
<1> HIDE DEF stride, bytes, rows
<1>3. y \in Nat /\ y < rows
  BY <1>1 DEF rows
<1>4. PICK above \in Nat : above = y * stride
  BY <1>1, <1>3, ProductNat
<1>5. PICK whole \in Nat : whole = rows * stride
  BY <1>1, ProductNat
<1>6. above + stride <= whole
  BY <1>1, <1>3, <1>4, <1>5, ProductGrows
<1>7. PICK base \in Nat : base = end[p - 1]
  BY <1>2
<1>8. ASSUME NEW z \in 0..(rows - 1), y < z
      PROVE  base + above + bytes <= base + z * stride
  <2>1. z \in Nat
    BY <1>1, <1>8
  <2>2. PICK here \in Nat : here = z * stride
    BY <1>1, <2>1, ProductNat
  <2>3. above + stride <= here
    BY <1>1, <1>3, <1>4, <1>8, <2>1, <2>2, ProductGrows
  <2>4. base + above + bytes <= base + here
    BY <1>1, <2>3
  <2> QED
    BY <2>2, <2>4
<1>9. base + above \in Nat /\ base + above >= base /\ base + above + bytes <= end[p]
  <2>1. end[p] = base + whole
    BY <1>2, <1>5, <1>7
  <2> QED
    BY <1>1, <1>6, <2>1
<1> QED
  BY <1>1, <1>4, <1>8, <1>9, <1>7 DEF stride, bytes, rows

\* Rows of these requirements lie inside the memory and apart.
Fit(q) ==
    LET layout == planar_layout(q.info.format)
        Rows   == UNION {{p} \X (0..(q.info.height \div layout[p].sub) - 1) : p \in DOMAIN layout}
        start(r) == q.offsets[r[1]] + r[2] * q.strides[r[1]]
        bytes(r) == layout[r[1]].bpp * (q.info.width \div layout[r[1]].sub)
    IN  \A r \in Rows :
            /\ start(r) + bytes(r) <= q.size
            /\ \A t \in Rows \ {r} : \/ start(r) + bytes(r) <= start(t)
                                     \/ start(t) + bytes(t) <= start(r)

LEMMA LayoutFits ==
  ASSUME NEW q, q.info \in InfoType, NEW pad \in Nat \ {0},
         q.strides = Planes(q.info, pad).strides, q.offsets = Planes(q.info, pad).offsets,
         q.size \in Nat, q.size >= Planes(q.info, pad).size
  PROVE  Fit(q)
<1>1. PICK format \in Formats, width \in Nat, height \in Nat :
         format = q.info.format /\ width = q.info.width /\ height = q.info.height
  BY DEF InfoType
<1>2. PICK end :
         /\ Ends(end, format, width, height, pad, Len(planar_layout(format)))
         /\ Layout(format, width, height, pad) =
              [strides |-> [p \in DOMAIN planar_layout(format) |-> RoundUp(RowBytes(format, width, p), pad)],
               offsets |-> [p \in DOMAIN planar_layout(format) |-> end[p - 1]],
               size |-> end[Len(planar_layout(format))]]
  BY LayoutIs
<1>3. PICK n : n = Len(planar_layout(format))
  OBVIOUS
<1>4. /\ n \in Nat /\ DOMAIN planar_layout(format) = 1..n /\ \A p \in 0..n : end[p] \in Nat
      /\ \A p \in 0..n : \A t \in 0..n : p <= t => end[p] <= end[t]
  BY <1>2, <1>3, EndsOrdered
<1>5. /\ q.strides = [p \in 1..n |-> RoundUp(RowBytes(format, width, p), pad)]
      /\ q.offsets = [p \in 1..n |-> end[p - 1]] /\ q.size >= end[n]
  BY <1>1, <1>2, <1>3, <1>4 DEF Planes
<1> DEFINE Start(p, y) == end[p - 1] + y * RoundUp(RowBytes(format, width, p), pad)
           YsOf(p) == 0..(PlaneRows(format, height, p) - 1)
           RowSet == UNION {{p} \X YsOf(p) : p \in 1..n}
<1>6. ASSUME NEW p \in 1..n, NEW y \in YsOf(p)
      PROVE  /\ Start(p, y) \in Nat /\ Start(p, y) >= end[p - 1] /\ RowBytes(format, width, p) \in Nat
             /\ Start(p, y) + RowBytes(format, width, p) <= end[p]
             /\ \A z \in YsOf(p) : y < z => Start(p, y) + RowBytes(format, width, p) <= Start(p, z)
  BY <1>2, <1>3, RowPlace
<1>7. \A p \in 1..n : YsOf(p) \subseteq Int
  OBVIOUS
<1> HIDE DEF Start, YsOf
<1>8. ASSUME NEW p \in 1..n, NEW y \in YsOf(p)
      PROVE  Start(p, y) + RowBytes(format, width, p) <= q.size
  <2>1. end[p] <= end[n] /\ end[p] \in Nat /\ end[n] \in Nat
    BY <1>4
  <2> QED
    BY <1>5, <1>6, <2>1
<1>9. ASSUME NEW p \in 1..n, NEW y \in YsOf(p), NEW t \in 1..n, NEW z \in YsOf(t), p < t
      PROVE  Start(p, y) + RowBytes(format, width, p) <= Start(t, z)
  <2>1. p \in 0..n /\ t - 1 \in 0..n /\ p <= t - 1
    BY <1>4, <1>9
  <2>2. end[p] <= end[t - 1] /\ end[p] \in Nat /\ end[t - 1] \in Nat
    BY <1>4, <2>1
  <2> QED
    BY <1>6, <2>2
<1>10. ASSUME NEW p \in 1..n, NEW y \in YsOf(p), NEW t \in 1..n, NEW z \in YsOf(t), <<p, y>> # <<t, z>>
       PROVE  \/ Start(p, y) + RowBytes(format, width, p) <= Start(t, z)
              \/ Start(t, z) + RowBytes(format, width, t) <= Start(p, y)
  <2>1. CASE p = t
    <3>1. y \in Int /\ z \in Int /\ y # z
      BY <1>7, <1>10, <2>1
    <3>2. y < z \/ z < y
      BY <3>1
    <3> QED
      BY <1>6, <2>1, <3>2
  <2>2. CASE p # t
    <3>1. p < t \/ t < p
      BY <2>2
    <3> QED
      BY <1>9, <3>1
  <2> QED
    BY <2>1, <2>2
<1>11. /\ planar_layout(q.info.format) = planar_layout(format)
       /\ \A p \in 1..n : /\ 0..(q.info.height \div planar_layout(q.info.format)[p].sub) - 1 = YsOf(p)
                          /\ planar_layout(q.info.format)[p].bpp
                             * (q.info.width \div planar_layout(q.info.format)[p].sub) = RowBytes(format, width, p)
                          /\ \A y \in YsOf(p) : q.offsets[p] + y * q.strides[p] = Start(p, y)
  BY <1>1, <1>5 DEF YsOf, PlaneRows, RowBytes, stride_from_layout, Start
<1>12. \A r \in RowSet : \E p \in 1..n : \E y \in YsOf(p) : r = <<p, y>> /\ r[1] = p /\ r[2] = y
  OBVIOUS
<1>13. UNION {{p} \X (0..(q.info.height \div planar_layout(q.info.format)[p].sub) - 1)
                : p \in DOMAIN planar_layout(q.info.format)} = RowSet
  BY <1>4, <1>11
<1> HIDE DEF RowSet
<1>14. ASSUME NEW r \in RowSet
       PROVE  /\ q.offsets[r[1]] + r[2] * q.strides[r[1]] = Start(r[1], r[2])
              /\ planar_layout(q.info.format)[r[1]].bpp
                  * (q.info.width \div planar_layout(q.info.format)[r[1]].sub) = RowBytes(format, width, r[1])
              /\ r[1] \in 1..n /\ r[2] \in YsOf(r[1]) /\ r = <<r[1], r[2]>>
  BY <1>11, <1>12
<1> QED
  BY <1>8, <1>10, <1>13, <1>14 DEF Fit

\* An image that Vulkan accepts ends below 2^32, and so does each of its planes.
LEMMA EndsBound ==
  ASSUME NEW format \in Formats, NEW width \in 1..MaxDim, NEW height \in 1..MaxDim,
         NEW n, n = Len(planar_layout(format)), NEW end, Ends(end, format, width, height, Tile, n),
         NEW p \in 0..n
  PROVE  end[p] \in Nat /\ end[p] < Word
<1>1. /\ MaxDim \in Nat /\ Tile \in Nat \ {0} /\ Word \in Nat /\ width \in Nat /\ height \in Nat
      /\ height <= MaxDim
  BY GrallocAssumption
<1>2. PICK a \in Nat : a = 8 * MaxDim + Tile
  BY <1>1
<1>3. PICK b \in Nat : b = a * MaxDim
  BY <1>1, <1>2, ProductNat
<1>4. b * 3 < Word
  BY <1>2, <1>3, GrallocAssumption
<1> DEFINE plane(t) == PlaneRows(format, height, t) * RoundUp(RowBytes(format, width, t), Tile)
<1>5. /\ n \in 0..3 /\ DOMAIN planar_layout(format) = 1..n /\ \A t \in 0..n : end[t] \in Nat
      /\ \A t \in 1..n : end[t] = end[t - 1] + plane(t)
      /\ end[p] <= end[n]
  <2>1. /\ n \in 0..3 /\ DOMAIN planar_layout(format) = 1..n /\ \A t \in 0..n : end[t] \in Nat
        /\ \A t \in 1..n : end[t] = end[t - 1] + PlaneRows(format, height, t)
                                                 * RoundUp(RowBytes(format, width, t), Tile)
        /\ \A s \in 0..n : \A t \in 0..n : s <= t => end[s] <= end[t]
    <3>1. PICK pad \in Nat \ {0}, w \in Nat, h \in Nat : pad = Tile /\ w = width /\ h = height
      BY <1>1
    <3>2. Ends(end, format, w, h, pad, n)
      BY <3>1
    <3>3. /\ n \in 0..3 /\ DOMAIN planar_layout(format) = 1..n /\ \A t \in 0..n : end[t] \in Nat
          /\ \A t \in 1..n : end[t] = end[t - 1] + PlaneRows(format, h, t)
                                                   * RoundUp(RowBytes(format, w, t), pad)
          /\ \A s \in 0..n : \A t \in 0..n : s <= t => end[s] <= end[t]
      <4>1. n \in 0..3 /\ DOMAIN planar_layout(format) = 1..n /\ \A t \in 0..n : end[t] \in Nat
        BY <3>2, EndsOrdered
      <4>2. \A t \in 1..n : end[t] = end[t - 1] + PlaneRows(format, h, t)
                                                   * RoundUp(RowBytes(format, w, t), pad)
        BY <3>2, EndsOrdered
      <4>3. \A s \in 0..n : \A t \in 0..n : s <= t => end[s] <= end[t]
        BY <3>2, EndsOrdered
      <4> QED
        BY <4>1, <4>2, <4>3
    <3> QED
      BY <3>1, <3>3
  <2>2. n \in 0..n /\ p <= n
    BY <2>1
  <2> QED
    BY <2>1, <2>2
<1>6. ASSUME NEW t \in 1..n PROVE plane(t) \in Nat /\ plane(t) <= b
  <2>1. PICK rows \in Nat : rows = PlaneRows(format, height, t) /\ rows <= MaxDim
    <3>1. t \in DOMAIN planar_layout(format)
      BY <1>5
    <3>2. PlaneRows(format, height, t) \in Nat /\ PlaneRows(format, height, t) <= height
      BY <1>1, <3>1, RowNumbers
    <3> QED
      BY <1>1, <3>2
  <2>2. PICK row \in Nat : row = RoundUp(RowBytes(format, width, t), Tile) /\ row <= a
    BY <1>2, <1>5, RowBound DEF RowBytes
  <2>3. PICK slack \in Nat, less \in Nat : MaxDim = rows + slack /\ a = row + less
    <3>1. MaxDim - rows \in Nat /\ MaxDim = rows + (MaxDim - rows)
      BY <1>1, <2>1
    <3>2. a - row \in Nat /\ a = row + (a - row)
      BY <2>2
    <3> QED
      BY <3>1, <3>2
  <2>4. /\ rows * row \in Nat /\ less * rows \in Nat /\ a * slack \in Nat
        /\ b = rows * row + less * rows + a * slack
    <3>1. b = a * rows + a * slack /\ a * rows = row * rows + less * rows
      BY <1>3, <2>3
    <3> QED
      BY <3>1, ProductNat
  <2>5. plane(t) = rows * row
    BY <2>1, <2>2
  <2> QED
    BY <2>4, <2>5
<1>7. end[0] = 0
  BY <1>5 DEF Ends
<1> HIDE DEF plane
<1>8. n >= 1 => end[1] = end[0] + plane(1) /\ plane(1) \in Nat /\ plane(1) <= b
  BY <1>5, <1>6
<1>9. n >= 2 => end[2] = end[1] + plane(2) /\ plane(2) \in Nat /\ plane(2) <= b
  BY <1>5, <1>6
<1>10. n >= 3 => end[3] = end[2] + plane(3) /\ plane(3) \in Nat /\ plane(3) <= b
  BY <1>5, <1>6
<1>11. end[n] \in Nat /\ end[n] <= b * 3
  <2>1. n \in {0, 1, 2, 3}
    BY <1>5
  <2> QED
    <3>1. CASE n = 0
      BY <1>7, <3>1
    <3>2. CASE n = 1
      BY <1>7, <1>8, <3>2
    <3>3. CASE n = 2
      BY <1>7, <1>8, <1>9, <3>3
    <3>4. CASE n = 3
      BY <1>7, <1>8, <1>9, <1>10, <3>4
    <3> QED
      BY <2>1, <3>1, <3>2, <3>3, <3>4
<1> QED
  BY <1>1, <1>4, <1>5, <1>11

\* So the conversions to u32 change nothing that VulkanoGralloc reports.
LEMMA Uncut ==
  ASSUME NEW info \in InfoType, info.width \in 1..MaxDim, info.height \in 1..MaxDim
  PROVE  AsU32(Planes(info, Tile)) = Planes(info, Tile)
<1>1. PICK format \in Formats, width \in 1..MaxDim, height \in 1..MaxDim :
         format = info.format /\ width = info.width /\ height = info.height
  BY DEF InfoType
<1>2. PICK end :
         /\ Ends(end, format, width, height, Tile, Len(planar_layout(format)))
         /\ Layout(format, width, height, Tile) =
              [strides |-> [p \in DOMAIN planar_layout(format) |-> RoundUp(RowBytes(format, width, p), Tile)],
               offsets |-> [p \in DOMAIN planar_layout(format) |-> end[p - 1]],
               size |-> end[Len(planar_layout(format))]]
  BY LayoutIs
<1>3. PICK n : n = Len(planar_layout(format))
  OBVIOUS
<1>4. Word \in Nat /\ MaxDim \in Nat /\ Tile \in Nat \ {0} /\ width \in Nat /\ height \in Nat
  BY GrallocAssumption
<1>5. n \in Nat /\ DOMAIN planar_layout(format) = 1..n
  BY <1>2, <1>3, <1>4, EndsOrdered
<1> DEFINE strides == [p \in 1..n |-> RoundUp(RowBytes(format, width, p), Tile)]
           offsets == [p \in 1..n |-> end[p - 1]]
           L == [strides |-> strides, offsets |-> offsets, size |-> end[n]]
<1>6. Planes(info, Tile) = L
  BY <1>1, <1>2, <1>3, <1>5 DEF Planes
<1>7. \A p \in 1..n : strides[p] \in Nat /\ strides[p] < Word
  BY <1>5, RowFits DEF RowBytes
<1>8. \A p \in 1..n : offsets[p] \in Nat /\ offsets[p] < Word
  <2> SUFFICES ASSUME NEW p \in 1..n PROVE end[p - 1] \in Nat /\ end[p - 1] < Word
    OBVIOUS
  <2>1. p - 1 \in 0..n
    BY <1>5
  <2> QED
    BY <1>2, <1>3, <2>1, EndsBound
<1>9. \A x \in Nat : x < Word => x % Word = x
  BY <1>4
<1>10. [p \in 1..n |-> strides[p] % Word] = strides
  BY <1>7, <1>9
<1>11. [p \in 1..n |-> offsets[p] % Word] = offsets
  BY <1>8, <1>9
<1>12. AsU32(L) = [strides |-> [p \in 1..n |-> strides[p] % Word],
                   offsets |-> [p \in 1..n |-> offsets[p] % Word], size |-> end[n]]
  <2>1. L.strides = strides /\ L.offsets = offsets /\ L.size = end[n]
    OBVIOUS
  <2>2. DOMAIN strides = 1..n /\ DOMAIN offsets = 1..n
    OBVIOUS
  <2> HIDE DEF strides, offsets
  <2>3. AsU32(L) = [L EXCEPT !.strides = [p \in DOMAIN L.strides |-> L.strides[p] % Word],
                            !.offsets = [p \in DOMAIN L.offsets |-> L.offsets[p] % Word]]
    BY DEF AsU32
  <2>4. /\ [p \in DOMAIN L.strides |-> L.strides[p] % Word] = [p \in 1..n |-> strides[p] % Word]
        /\ [p \in DOMAIN L.offsets |-> L.offsets[p] % Word] = [p \in 1..n |-> offsets[p] % Word]
    BY <2>1, <2>2
  <2>5. ASSUME NEW s, NEW o
        PROVE  [L EXCEPT !.strides = s, !.offsets = o] = [strides |-> s, offsets |-> o, size |-> end[n]]
    <3>1. [L EXCEPT !.strides = s] = [strides |-> s, offsets |-> offsets, size |-> end[n]]
      OBVIOUS
    <3>2. [[strides |-> s, offsets |-> offsets, size |-> end[n]] EXCEPT !.offsets = o] =
             [strides |-> s, offsets |-> o, size |-> end[n]]
      OBVIOUS
    <3> QED
      BY <3>1, <3>2
  <2> QED
    BY <2>3, <2>4, <2>5
<1> QED
  BY <1>6, <1>10, <1>11, <1>12

\* Requirements for the planes of an image are the planes, in whole pages.
LEMMA PagesFit ==
  ASSUME NEW info \in InfoType, NEW pad \in Nat \ {0}, NEW q, q.info = info,
         q.strides = Planes(info, pad).strides, q.offsets = Planes(info, pad).offsets,
         q.size = RoundUp(Planes(info, pad).size, PageSize)
  PROVE  Fit(q)
<1>1. PICK format \in Formats, width \in Nat, height \in Nat :
         format = info.format /\ width = info.width /\ height = info.height
  BY DEF InfoType
<1>2. PICK end :
         /\ Ends(end, format, width, height, pad, Len(planar_layout(format)))
         /\ Layout(format, width, height, pad) =
              [strides |-> [p \in DOMAIN planar_layout(format) |-> RoundUp(RowBytes(format, width, p), pad)],
               offsets |-> [p \in DOMAIN planar_layout(format) |-> end[p - 1]],
               size |-> end[Len(planar_layout(format))]]
  BY LayoutIs
<1>3. PICK n : n = Len(planar_layout(format))
  OBVIOUS
<1>4. n \in 0..3 /\ \A p \in 0..n : end[p] \in Nat
  BY <1>2, <1>3, EndsOrdered
<1>5. n \in 0..n
  BY <1>4
<1>6. Planes(info, pad).size = end[n] /\ end[n] \in Nat
  BY <1>1, <1>2, <1>3, <1>4, <1>5 DEF Planes
<1>7. q.size \in Nat /\ q.size >= Planes(info, pad).size
  BY <1>6, RoundUpBound, RoundUpGrows, GrallocAssumption
<1> QED
  BY <1>7, LayoutFits

\* Every successful query describes memory that its planes fit into.
LEMMA QueryFits ==
  ASSUME Machine, NEW info \in Infos, get_image_memory_requirements(info).err = "ok"
  PROVE  Fit(get_image_memory_requirements(info))
<1> DEFINE b == determine_optimal_backend
           q == get_image_memory_requirements(info)
<1>1. b \in grallocs
  BY DEF get_image_memory_requirements, Failed, Requirements
<1>2. info \in InfoType /\ Tile \in Nat \ {0}
  BY GrallocAssumption
<1>3. CASE b = "System"
  <2>1. q = canonical_image_requirements(info)
    BY <1>1, <1>3 DEF get_image_memory_requirements
  <2>2. q = Requirements("System", info, Planes(info, 1), "CACHED", 0, 0)
    BY <2>1 DEF canonical_image_requirements, Failed, Requirements
  <2>3. /\ q.info = info /\ q.strides = Planes(info, 1).strides /\ q.offsets = Planes(info, 1).offsets
        /\ q.size = RoundUp(Planes(info, 1).size, PageSize)
    BY <2>2 DEF Requirements
  <2> QED
    BY <1>2, <2>3, PagesFit
<1>4. CASE b = "Minigbm"
  <2>1. q = minigbm_requirements(info)
    BY <1>1, <1>4 DEF get_image_memory_requirements
  <2>2. q = Requirements("Minigbm", info, Planes(info, GbmPad[flags_no_tex(info)]), "WC", 0, 0)
    BY <2>1 DEF minigbm_requirements, Failed, Requirements
  <2>3. /\ q.info = info /\ q.strides = Planes(info, GbmPad[flags_no_tex(info)]).strides
        /\ q.offsets = Planes(info, GbmPad[flags_no_tex(info)]).offsets
        /\ q.size = RoundUp(Planes(info, GbmPad[flags_no_tex(info)]).size, PageSize)
    BY <2>2 DEF Requirements
  <2>4. GbmPad[flags_no_tex(info)] \in Nat \ {0}
    BY <1>2, GrallocAssumption DEF InfoType, flags_no_tex
  <2> QED
    BY <1>2, <2>3, <2>4, PagesFit
<1>5. CASE b = "Vulkano"
  <2>1. q = vulkano_requirements(info)
    BY <1>1, <1>5 DEF get_image_memory_requirements
  <2>2. /\ create_image(info) = "ok"
        /\ \E m, d, i : q = Requirements("Vulkano", info, AsU32(Planes(info, Tile)), m, d, i)
    BY <2>1 DEF vulkano_requirements, Failed, Requirements
  <2>3. info.width \in 1..MaxDim /\ info.height \in 1..MaxDim
    BY <2>2 DEF create_image
  <2>4. AsU32(Planes(info, Tile)) = Planes(info, Tile)
    BY <1>2, <2>3, Uncut
  <2>5. /\ q.info = info /\ q.strides = Planes(info, Tile).strides
        /\ q.offsets = Planes(info, Tile).offsets
        /\ q.size = RoundUp(Planes(info, Tile).size, PageSize)
    BY <2>2, <2>4 DEF Requirements
  <2> QED
    BY <1>2, <2>5, PagesFit
<1> QED
  BY <1>3, <1>4, <1>5 DEF determine_optimal_backend

LEMMA PlanesFitNext == GInv /\ PlanesFit /\ [Next]_vars => PlanesFit'
<1> SUFFICES ASSUME GInv, PlanesFit, [Next]_vars PROVE PlanesFit'
  OBVIOUS
<1>1. ASSUME ~NewRequirements' PROVE PlanesFit'
  BY <1>1 DEF PlanesFit
<1>2. ASSUME NEW c \in Contexts, Initialize(c) \/ Drop(c) PROVE ~NewRequirements'
  BY <1>2 DEF Initialize, Drop, NewRequirements
<1>3. ASSUME NEW c \in Contexts, NEW info \in Infos, get_image_requirements(c, info) PROVE PlanesFit'
  <2>1. PICK q \in Answers(info) : result'.op = "reqs" /\ result'.reqs = q
    BY <1>3, QueryAnswer
  <2>2. CASE q.err = "ok"
    <3>1. Fit(q)
      BY <2>2, AnswerPromised, QueryFits DEF GInv
    <3> QED
      BY <2>1, <3>1 DEF PlanesFit, Fit
  <2>3. CASE q.err # "ok"
    BY <1>1, <2>1, <2>3 DEF NewRequirements
  <2> QED
    BY <2>2, <2>3
<1>4. ASSUME NEW c \in Contexts, NEW q \in items[c],
             BlobSizeMismatch(c, q) \/ BlobOfHandle(c, q) \/ Allocates(c, q)
      PROVE  ~NewRequirements'
  <2>1. result'.op \in {"blob", "handle"}
    <3>1. CASE BlobSizeMismatch(c, q)
      BY <3>1 DEF BlobSizeMismatch, Result
    <3>3. CASE BlobOfHandle(c, q)
      BY <3>3 DEF BlobOfHandle, Result
    <3>2. CASE Allocates(c, q)
      BY <3>2 DEF Allocates, system_allocate_memory, minigbm_allocate_memory,
                  vulkano_allocate_memory, CreateBlob, Result
    <3> QED
      BY <1>4, <3>1, <3>2, <3>3
  <2> QED
    BY <2>1 DEF NewRequirements
<1>5. CASE UNCHANGED vars
  <2>1. result' = result
    BY <1>5 DEF vars
  <2> QED
    BY <2>1 DEF PlanesFit, NewRequirements
<1> QED
  BY <1>1, <1>2, <1>3, <1>4, <1>5 DEF Next, Allocates

-----------------------------------------------------------------------------
(* The theorems                                                            *)

Kept == PromiseKept /\ CapsHonoured /\ MemoryTypeRight

\* An operation that leaves no new requirements and no new memory.
LEMMA NothingNew ==
  ASSUME ~NewMemory', ~NewRequirements'
  PROVE  Kept'
  BY DEF Kept, PromiseKept, CapsHonoured, MemoryTypeRight

LEMMA KeptNext == GInv /\ Kept /\ [Next]_vars => Kept'
<1> SUFFICES ASSUME GInv, Kept, [Next]_vars PROVE Kept'
  OBVIOUS
<1>1. ASSUME NEW c \in Contexts, Initialize(c) \/ Drop(c) PROVE Kept'
  BY <1>1, NothingNew DEF Initialize, Drop, NewMemory, NewRequirements
<1>2. ASSUME NEW c \in Contexts, NEW info \in Infos, get_image_requirements(c, info) PROVE Kept'
  <2>1. result'.op = "reqs"
    BY <1>2, QueryAnswer
  <2>2. ~NewMemory'
    BY <2>1 DEF NewMemory
  <2> QED
    BY <1>2, <2>2, QueryTypeRight DEF Kept, PromiseKept, CapsHonoured
<1>3. ASSUME NEW c \in Contexts, NEW q \in items[c], BlobSizeMismatch(c, q) \/ BlobOfHandle(c, q)
      PROVE  Kept'
  <2>1. CASE BlobSizeMismatch(c, q)
    <3>1. result'.op = "blob" /\ result'.err = "blob size mismatch"
      BY <2>1 DEF BlobSizeMismatch, Result
    <3> QED
      BY <3>1, NothingNew DEF NewMemory, NewRequirements
  <2>2. CASE BlobOfHandle(c, q)
    <3>1. result'.op = "handle"
      BY <2>2 DEF BlobOfHandle, Result
    <3> QED
      BY <3>1, NothingNew DEF NewMemory, NewRequirements
  <2> QED
    BY <1>3, <2>1, <2>2
<1>4. ASSUME NEW c \in Contexts, NEW q \in items[c], Allocates(c, q) PROVE Kept'
  <2>1. PromiseKept' /\ CapsHonoured'
    BY <1>4, SystemKeeps, MinigbmKeeps, VulkanoKeeps DEF Allocates
  <2>2. result'.op = "blob"
    BY <1>4 DEF Allocates, system_allocate_memory, minigbm_allocate_memory,
                vulkano_allocate_memory, CreateBlob, Result
  <2>3. ~NewRequirements'
    BY <2>2 DEF NewRequirements
  <2> QED
    BY <2>1, <2>3 DEF Kept, MemoryTypeRight
<1>5. CASE UNCHANGED vars
  <2>1. UNCHANGED <<features, host, grallocs, result>>
    BY <1>5 DEF vars
  <2>2. device' = device
    BY <2>1 DEF device, device_type, OfType
  <2>3. UNCHANGED <<supports_dmabuf, supports_external_gpu_memory>>
    BY <2>1 DEF supports_dmabuf, supports_external_gpu_memory, DmabufBackend, ExternalBackend, OfType
  <2>4. PromiseKept'
    BY <2>1, <2>2 DEF Kept, PromiseKept, NewMemory
  <2>5. CapsHonoured'
    BY <2>1, <2>3 DEF Kept, CapsHonoured, NewMemory
  <2>6. MemoryTypeRight'
    BY <2>1, <2>2 DEF Kept, MemoryTypeRight, NewRequirements
  <2> QED
    BY <2>4, <2>5, <2>6 DEF Kept
<1> QED
  BY <1>1, <1>2, <1>3, <1>4, <1>5 DEF Next, Allocates

LEMMA KeptAlways == Spec => []Kept
<1>1. Init => Kept
  BY DEF Init, Kept, PromiseKept, CapsHonoured, MemoryTypeRight, NewMemory, NewRequirements
<1> QED
  BY <1>1, GInvAlways, KeptNext, PTL DEF Spec

\* The memory that allocate_memory of any backend returns for an item is the
\* memory that get_image_memory_requirements promised for it, whatever other
\* contexts queried, allocated, failed at or left in minigbm's stash between.
THEOREM PromisesKept == Spec => []PromiseKept
<1>1. Kept => PromiseKept
  BY DEF Kept
<1> QED
  BY <1>1, KeptAlways, PTL

\* A guest that get_capset told of dmabufs or of GPU memory gets such memory,
\* in every build with at most one GPU backend and on every host.
THEOREM CapsAlwaysHonoured == Spec => []CapsHonoured
<1>1. Kept => CapsHonoured
  BY DEF Kept
<1> QED
  BY <1>1, KeptAlways, PTL

\* The memory type that VulkanoGralloc's filter finds suits the use of the
\* image, whichever types the device has and in whatever order.
THEOREM MemoryTypesRight == Spec => []MemoryTypeRight
<1>1. Kept => MemoryTypeRight
  BY DEF Kept
<1> QED
  BY <1>1, KeptAlways, PTL

\* The rows of the planes that get_image_memory_requirements describes lie
\* inside the allocation and share no byte, for an image of any size, format
\* and use, in any build and on any host: where a product could pass 2^32
\* canonical_image_requirements refuses, and within the limits of a Vulkan
\* device the conversions to u32 cut nothing.
THEOREM PlanesAlwaysFit == Spec => []PlanesFit
<1>1. Init => PlanesFit
  BY DEF Init, PlanesFit, NewRequirements
<1> QED
  BY <1>1, GInvAlways, PlanesFitNext, PTL DEF Spec
=============================================================================
