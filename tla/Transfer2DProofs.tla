-------------------------- MODULE Transfer2DProofs --------------------------
(***************************************************************************)
(* Proofs about the copies of the 2D component, for any images, transfers, *)
(* chunks, buffers and strides.                                            *)
(***************************************************************************)
EXTENDS Transfer2D, WellFoundedInduction, TLAPS

-----------------------------------------------------------------------------
(* The chunks put end to end                                               *)

\* A non-empty set of numbers has a least one.
LEMMA LeastNumber ==
  ASSUME NEW T \in SUBSET Nat, T # {}
  PROVE  \E x \in T : \A y \in T : x <= y
<1> DEFINE R == OpToRel(<, Nat)
<1>1. IsWellFoundedOn(R, Nat)
  BY NatLessThanWellFounded
<1>2. \A x, y \in Nat : <<y, x>> \in R <=> y < x
  BY DEF OpToRel
<1> HIDE DEF R
<1>3. PICK x \in T : \A y \in T : ~(<<y, x>> \in R)
  BY <1>1, WFMin
<1>4. ASSUME NEW y \in T PROVE x <= y
  <2>1. x \in Nat /\ y \in Nat /\ ~(y < x)
    BY <1>2, <1>3
  <2> QED
    BY <2>1
<1> QED
  BY <1>4

\* start is the running sum of the first n - 1 chunks.
Sums(start, srcs, n) ==
    start = [i \in 1..n |-> IF i = 1 THEN 0 ELSE start[i - 1] + srcs[i - 1]]

LEMMA SumsExtend ==
  ASSUME NEW srcs \in Seq(Nat), NEW n \in Nat, n >= 1, NEW g, Sums(g, srcs, n)
  PROVE  \E f : Sums(f, srcs, n + 1)
<1> DEFINE f == [i \in 1..(n + 1) |-> IF i = n + 1 THEN g[n] + srcs[n] ELSE g[i]]
<1>1. \A i \in 1..n : g[i] = IF i = 1 THEN 0 ELSE g[i - 1] + srcs[i - 1]
  BY DEF Sums
<1>2. ASSUME NEW i \in 1..(n + 1)
      PROVE  f[i] = IF i = 1 THEN 0 ELSE f[i - 1] + srcs[i - 1]
  <2>1. CASE i = n + 1
    <3>1. i # 1 /\ i - 1 = n /\ n \in 1..(n + 1) /\ n # n + 1
      BY <2>1
    <3> QED
      BY <2>1, <3>1
  <2>2. CASE i # n + 1
    <3>1. i \in 1..n /\ f[i] = g[i]
      BY <2>2
    <3>2. i # 1 => i - 1 \in 1..(n + 1) /\ i - 1 # n + 1
      BY <2>2
    <3>3. i # 1 => f[i - 1] = g[i - 1]
      BY <3>2
    <3> QED
      BY <1>1, <3>1, <3>3
  <2> QED
    BY <2>1, <2>2
<1>3. Sums(f, srcs, n + 1)
  BY <1>2 DEF Sums
<1> QED
  BY <1>3

LEMMA SumsExist ==
  ASSUME NEW srcs \in Seq(Nat), NEW n \in Nat, n >= 1
  PROVE  \E f : Sums(f, srcs, n)
<1> DEFINE Bad == {m \in Nat : m >= 1 /\ ~\E f : Sums(f, srcs, m)}
<1> SUFFICES ASSUME Bad # {} PROVE FALSE
  OBVIOUS
<1>1. PICK m \in Bad : \A k \in Bad : m <= k
  BY LeastNumber
<1>2. CASE m = 1
  <2>1. Sums([i \in 1..1 |-> 0], srcs, 1)
    BY DEF Sums
  <2> QED
    BY <1>1, <1>2, <2>1
<1>3. CASE m # 1
  <2>1. m - 1 \in Nat /\ m - 1 >= 1 /\ m - 1 \notin Bad /\ (m - 1) + 1 = m
    BY <1>1, <1>3
  <2>2. PICK g : Sums(g, srcs, m - 1)
    BY <2>1
  <2>3. \E f : Sums(f, srcs, (m - 1) + 1)
    BY <2>1, <2>2, SumsExtend
  <2> QED
    BY <1>1, <2>1, <2>3
<1> QED
  BY <1>2, <1>3

LEMMA ChunkStartSums ==
  ASSUME NEW srcs \in Seq(Nat)
  PROVE  Sums(ChunkStart(srcs), srcs, Len(srcs) + 1)
<1>1. \E f : Sums(f, srcs, Len(srcs) + 1)
  BY SumsExist
<1>2. ChunkStart(srcs) = CHOOSE f : Sums(f, srcs, Len(srcs) + 1)
  BY DEF ChunkStart, Sums
<1> QED
  BY <1>1, <1>2


\* Chunk i + 1 starts where chunk i ends.
LEMMA ChunkStartIs ==
  ASSUME NEW srcs \in Seq(Nat)
  PROVE  /\ ChunkStart(srcs)[1] = 0
         /\ \A i \in 1..Len(srcs) : ChunkStart(srcs)[i + 1] = ChunkStart(srcs)[i] + srcs[i]
<1> DEFINE s == ChunkStart(srcs)
<1>1. s = [i \in 1..(Len(srcs) + 1) |-> IF i = 1 THEN 0 ELSE s[i - 1] + srcs[i - 1]]
  BY ChunkStartSums DEF Sums
<1> HIDE DEF s
<1>2. s[1] = 0
  BY <1>1
<1>3. ASSUME NEW i \in 1..Len(srcs) PROVE s[i + 1] = s[i] + srcs[i]
  <2>1. i + 1 \in 1..(Len(srcs) + 1) /\ i + 1 # 1 /\ (i + 1) - 1 = i
    OBVIOUS
  <2> QED
    BY <1>1, <2>1
<1> QED
  BY <1>2, <1>3 DEF s

-----------------------------------------------------------------------------
(* Products                                                                *)

LEMMA MulNat ==
  ASSUME NEW a \in Nat, NEW b \in Nat
  PROVE  a * b \in Nat
  OBVIOUS

LEMMA AddNat ==
  ASSUME NEW a \in Nat, NEW b \in Nat
  PROVE  a + b \in Nat
  OBVIOUS

LEMMA MulMono ==
  ASSUME NEW a \in Nat, NEW b \in Nat, NEW c \in Nat, a <= b
  PROVE  a * c <= b * c
<1>1. b = a + (b - a) /\ b - a \in Nat
  OBVIOUS
<1>2. (b - a) * c \in Nat
  BY <1>1, MulNat
<1>3. b * c = a * c + (b - a) * c
  BY <1>1
<1> QED
  BY <1>2, <1>3

LEMMA MulSucc ==
  ASSUME NEW a \in Nat, NEW c \in Nat
  PROVE  (a + 1) * c = a * c + c
  OBVIOUS

LEMMA MulPos ==
  ASSUME NEW a \in Nat, NEW b \in Nat, a > 0, b > 0
  PROVE  a * b > 0
<1>1. 1 * b <= a * b
  BY MulMono
<1> QED
  BY <1>1

LEMMA ModNat ==
  ASSUME NEW a \in Nat, NEW m \in Nat \ {0}
  PROVE  a % m \in Nat /\ (a < m => a % m = a)
  OBVIOUS

-----------------------------------------------------------------------------
(* The state of the walk                                                   *)

Numbers(c) ==
    /\ c.resource_w \in Nat /\ c.resource_h \in Nat
    /\ c.x \in Nat /\ c.y \in Nat /\ c.w \in Nat /\ c.h \in Nat
    /\ c.dst_stride \in Nat /\ c.dst_len \in Nat
    /\ c.src_stride \in Nat /\ c.src_offset \in Nat /\ c.srcs \in Seq(Nat)

\* The destination of transfer_write is the host memory of the resource.
IntoHostMem(c) ==
    LET img == [width |-> c.resource_w, height |-> c.resource_h]
    IN  c.op = "write" => /\ c.dst_stride = stride_of(img)
                          /\ c.dst_len \in {host_mem(img, r) : r \in BOOLEAN}

CallInv == Numbers(call) /\ IntoHostMem(call)

\* src_start_offset is where the chunk src starts.
WalkInv ==
    /\ src \in 1..(Len(call.srcs) + 1)
    /\ src_start_offset \in Nat /\ src_start_offset = ChunkStart(call.srcs)[src]
    /\ current_height \in 0..call.h
    /\ dst = [d \in 0..(call.dst_len - 1) |-> dst[d]]

\* The loop was entered.
EnteredInv ==
    result \in {"running", "InvalidIovec"} =>
        /\ call.w > 0 /\ call.h > 0
        /\ call.x + call.w <= call.resource_w /\ call.y + call.h <= call.resource_h

Inv2D == CallInv /\ WalkInv /\ EnteredInv

LEMMA StrideNat ==
  ASSUME NEW img, img.width \in Nat, img.height \in Nat, NEW r \in BOOLEAN
  PROVE  stride_of(img) \in Nat /\ host_mem(img, r) \in Nat
<1>1. Bpp * img.width \in Nat /\ img.width * img.height \in Nat
  BY TransferAssumption, MulNat
<1>2. img.width * img.height * Bpp \in Nat
  BY <1>1, TransferAssumption, MulNat
<1>3. (Bpp * img.width) % Word \in Nat /\ (img.width * img.height * Bpp) % Word \in Nat
  BY <1>1, <1>2, TransferAssumption, ModNat
<1>4. stride_of(img) \in Nat
  BY <1>3 DEF stride_of
<1>5. stride_of(img) * img.height \in Nat
  BY <1>4, MulNat
<1> QED
  BY <1>3, <1>4, <1>5 DEF host_mem

LEMMA WriteCall ==
  ASSUME NEW img \in Images, NEW r \in BOOLEAN, NEW t \in Transfers, NEW iovecs \in Iovecs
  PROVE  LET c == write_call(img, r, t, iovecs) IN Numbers(c) /\ IntoHostMem(c)
<1>1. img.width \in Nat /\ img.height \in Nat
  BY TransferAssumption
<1>2. stride_of(img) \in Nat /\ host_mem(img, r) \in Nat
  BY <1>1, StrideNat
<1>3. iovecs \in Seq(Nat) /\ t \in [x : Nat, y : Nat, w : Nat, h : Nat, offset : Nat, stride : Nat]
  BY TransferAssumption
<1>4. [width |-> img.width, height |-> img.height] = img
  BY TransferAssumption
<1> QED
  BY <1>1, <1>2, <1>3, <1>4 DEF write_call, Numbers, IntoHostMem

LEMMA ReadCall ==
  ASSUME NEW img \in Images, NEW r \in BOOLEAN, NEW t \in Transfers, NEW len \in BufSizes
  PROVE  LET c == read_call(img, r, t, len) IN Numbers(c) /\ IntoHostMem(c)
<1>1. img.width \in Nat /\ img.height \in Nat
  BY TransferAssumption
<1>2. stride_of(img) \in Nat /\ host_mem(img, r) \in Nat
  BY <1>1, StrideNat
<1>3. len \in Nat /\ t \in [x : Nat, y : Nat, w : Nat, h : Nat, offset : Nat, stride : Nat]
  BY TransferAssumption
<1>4. <<host_mem(img, r)>> \in Seq(Nat)
  BY <1>2
<1> QED
  BY <1>1, <1>2, <1>3, <1>4 DEF read_call, Numbers, IntoHostMem

LEMMA BlobCall ==
  ASSUME NEW stride \in ScanoutStrides, NEW t \in Transfers, NEW iovecs \in Iovecs, NEW len \in BufSizes
  PROVE  LET c == read_blob_call(stride, t, iovecs, len) IN Numbers(c) /\ IntoHostMem(c)
<1>1. /\ len \in Nat /\ stride \in Nat /\ iovecs \in Seq(Nat)
      /\ t \in [x : Nat, y : Nat, w : Nat, h : Nat, offset : Nat, stride : Nat]
  BY TransferAssumption
<1> QED
  BY <1>1 DEF read_blob_call, Numbers, IntoHostMem

LEMMA BeginInv ==
  ASSUME NEW c, Numbers(c), IntoHostMem(c), Begin(c)
  PROVE  Inv2D'
<1>1. call' = c /\ src' = 1 /\ src_start_offset' = 0 /\ current_height' = 0 /\ result' = Checked(c)
  BY DEF Begin
<1>2. CallInv'
  BY <1>1 DEF CallInv, Numbers, IntoHostMem, stride_of, host_mem
<1>3. WalkInv'
  <2>1. ChunkStart(c.srcs)[1] = 0 /\ Len(c.srcs) \in Nat /\ c.h \in Nat
    BY ChunkStartIs DEF Numbers
  <2>2. dst' = [d \in 0..(c.dst_len - 1) |-> Untouched]
    BY DEF Begin
  <2>3. dst' = [d \in 0..(c.dst_len - 1) |-> dst'[d]]
    BY <2>2
  <2> QED
    BY <1>1, <2>1, <2>3 DEF WalkInv
<1>4. EnteredInv'
  <2>1. Checked(c) \in {"running", "InvalidIovec"} =>
          /\ c.w # 0 /\ c.h # 0
          /\ ~(c.x + c.w > c.resource_w) /\ ~(c.y + c.h > c.resource_h)
    BY DEF Checked
  <2> QED
    BY <1>1, <2>1 DEF EnteredInv, Numbers
<1> QED
  BY <1>2, <1>3, <1>4 DEF Inv2D

\* Chunks and lines advance as the loop does.
LEMMA AdvanceInv ==
  ASSUME Inv2D, Looping, NEW a \in BOOLEAN, NEW b \in BOOLEAN, Advance(a, b),
         dst' = [d \in DOMAIN dst |-> dst'[d]]
  PROVE  Inv2D'
<1>1. call' = call /\ result' = result
  BY DEF Advance
<1>2. /\ src \in 1..Len(call.srcs) /\ Len(call.srcs) \in Nat /\ call.srcs \in Seq(Nat)
      /\ current_height \in Nat /\ call.h \in Nat /\ current_height < call.h
  BY DEF Looping, Inv2D, CallInv, Numbers, WalkInv
<1>3. call.srcs[src] \in Nat
  BY <1>2
<1>4. ChunkStart(call.srcs)[src + 1] = ChunkStart(call.srcs)[src] + call.srcs[src]
  BY <1>2, ChunkStartIs
<1>5. src_start_offset \in Nat /\ src_start_offset = ChunkStart(call.srcs)[src]
  BY DEF Inv2D, WalkInv
<1>6. src' \in 1..(Len(call.srcs) + 1) /\ current_height' \in 0..call.h
  BY <1>2 DEF Advance
<1>7. src_start_offset' \in Nat /\ src_start_offset' = ChunkStart(call.srcs)[src']
  BY <1>3, <1>4, <1>5 DEF Advance, src_end_offset, src_size
<1>8. dst' = [d \in 0..(call.dst_len - 1) |-> dst'[d]]
  BY DEF Inv2D, WalkInv
<1>9. WalkInv'
  BY <1>1, <1>6, <1>7, <1>8 DEF WalkInv
<1>10. CallInv' /\ EnteredInv'
  BY <1>1 DEF Inv2D, CallInv, EnteredInv, Numbers, IntoHostMem, stride_of, host_mem
<1> QED
  BY <1>9, <1>10 DEF Inv2D

LEMMA SameInv ==
  ASSUME Inv2D, UNCHANGED <<call, dst, src, src_start_offset, current_height>>,
         result' \in {"running", "InvalidIovec"} => result \in {"running", "InvalidIovec"}
  PROVE  Inv2D'
  BY DEF Inv2D, CallInv, WalkInv, EnteredInv, Numbers, IntoHostMem, stride_of, host_mem

LEMMA NoCallFacts ==
  /\ Numbers(NoCall) /\ IntoHostMem(NoCall)
  /\ NoCall.dst_len = 0 /\ NoCall.h = 0 /\ Len(NoCall.srcs) = 0 /\ ChunkStart(NoCall.srcs)[1] = 0
  /\ <<>> = [d \in 0..(0 - 1) |-> <<>>[d]]
<1>1. <<>> \in Seq(Nat) /\ Len(<<>>) = 0
  OBVIOUS
<1>2. ChunkStart(<<>>)[1] = 0
  BY <1>1, ChunkStartIs
<1> QED
  BY <1>1, <1>2 DEF NoCall, Numbers, IntoHostMem

\* The bytes that CopyPiece writes.
Piece == [d \in DOMAIN dst |->
             IF d >= dst_start_offset /\ d < dst_end_offset
             THEN <<src, offset_within_src + (d - dst_start_offset)>> ELSE dst[d]]

LEMMA CopyOrRefuse ==
  ASSUME CopyPiece
  PROVE  /\ Looping /\ Copyable
         /\ \/ /\ offset_within_src + copyable_size <= src_size /\ dst_end_offset <= call.dst_len
               /\ dst' = Piece /\ Advance(next_src_after_copy, next_line_after_copy)
            \/ /\ ~(offset_within_src + copyable_size <= src_size /\ dst_end_offset <= call.dst_len)
               /\ result' = "InvalidIovec"
               /\ UNCHANGED <<call, dst, src, src_start_offset, current_height>>
  BY DEF CopyPiece, Piece

LEMMA Inv2DCopy == ASSUME Inv2D, CopyPiece PROVE Inv2D'
<1>1. CASE dst' = Piece /\ Advance(next_src_after_copy, next_line_after_copy)
  <2>1. dst' = [d \in DOMAIN dst |-> dst'[d]]
    BY <1>1 DEF Piece
  <2>2. next_src_after_copy \in BOOLEAN /\ next_line_after_copy \in BOOLEAN /\ Looping
    BY CopyOrRefuse DEF next_src_after_copy, next_line_after_copy
  <2> QED
    BY <1>1, <2>1, <2>2, AdvanceInv
<1>2. CASE result' = "InvalidIovec" /\ UNCHANGED <<call, dst, src, src_start_offset, current_height>>
  BY <1>2, CopyOrRefuse, SameInv DEF Looping
<1> QED
  BY <1>1, <1>2, CopyOrRefuse

LEMMA Inv2DNext == Inv2D /\ [Next]_vars => Inv2D'
<1> SUFFICES ASSUME Inv2D, [Next]_vars PROVE Inv2D'
  OBVIOUS
<1>1. CASE transfer_write
  BY <1>1, WriteCall, BeginInv DEF transfer_write
<1>2. CASE transfer_read
  BY <1>2, ReadCall, BeginInv DEF transfer_read
<1>3. CASE transfer_read_blob
  BY <1>3, BlobCall, BeginInv DEF transfer_read_blob
<1>4. CASE CopyPiece
  BY <1>4, Inv2DCopy
<1>5. dst = [d \in DOMAIN dst |-> dst[d]]
  BY DEF Inv2D, WalkInv
<1>6. CASE SkipChunk
  BY <1>5, <1>6, AdvanceInv DEF SkipChunk
<1>7. CASE SkipLine
  BY <1>5, <1>7, AdvanceInv DEF SkipLine
<1>8. CASE Finish
  BY <1>8, SameInv DEF Finish
<1>9. CASE Return
  <2>1. /\ call' = NoCall /\ dst' = <<>> /\ src' = 1 /\ src_start_offset' = 0
        /\ current_height' = 0 /\ result' = "idle"
    BY <1>9 DEF Return
  <2> QED
    BY <2>1, NoCallFacts DEF Inv2D, CallInv, WalkInv, EnteredInv, Numbers, IntoHostMem, stride_of, host_mem
<1>10. CASE UNCHANGED vars
  BY <1>10, SameInv DEF vars
<1> QED
  BY <1>1, <1>2, <1>3, <1>4, <1>6, <1>7, <1>8, <1>9, <1>10 DEF Next

LEMMA Inv2DAlways == Spec => []Inv2D
<1>1. Init => Inv2D
  BY NoCallFacts DEF Init, Inv2D, CallInv, WalkInv, EnteredInv
<1> QED
  BY <1>1, Inv2DNext, PTL DEF Spec

-----------------------------------------------------------------------------
(* Lines                                                                   *)

\* Where line k of the rectangle starts, in the source and in the destination.
SrcLine(k) == src_resource_offset + k * call.src_stride
DstLine(k) == call.y * call.dst_stride + call.x * Bpp + k * call.dst_stride
Width == call.w * Bpp

LEMMA LineNat ==
  ASSUME CallInv, NEW k \in Nat
  PROVE  /\ SrcLine(k) \in Nat /\ DstLine(k) \in Nat /\ Width \in Nat
         /\ SrcLine(k + 1) = SrcLine(k) + call.src_stride
         /\ DstLine(k + 1) = DstLine(k) + call.dst_stride
         /\ RowStart(call.src_offset, call.src_stride, k) = SrcLine(k)
         /\ RowStart(0, call.dst_stride, k) = DstLine(k)
<1>1. /\ call.x \in Nat /\ call.y \in Nat /\ call.w \in Nat /\ Bpp \in Nat
      /\ call.src_offset \in Nat /\ call.src_stride \in Nat /\ call.dst_stride \in Nat
  BY TransferAssumption DEF CallInv, Numbers
<1>2. /\ call.y * call.src_stride \in Nat /\ call.y * call.dst_stride \in Nat /\ call.x * Bpp \in Nat
      /\ k * call.src_stride \in Nat /\ k * call.dst_stride \in Nat /\ call.w * Bpp \in Nat
  BY <1>1, MulNat
<1>3. /\ (k + 1) * call.src_stride = k * call.src_stride + call.src_stride
      /\ (k + 1) * call.dst_stride = k * call.dst_stride + call.dst_stride
  BY <1>1, MulSucc
<1>4. /\ (call.y + k) * call.src_stride = call.y * call.src_stride + k * call.src_stride
      /\ (call.y + k) * call.dst_stride = call.y * call.dst_stride + k * call.dst_stride
  BY <1>1
<1> QED
  BY <1>1, <1>2, <1>3, <1>4 DEF SrcLine, DstLine, Width, src_resource_offset, RowStart

\* A later line starts a stride or more behind.
LEMMA LinesApart ==
  ASSUME CallInv, NEW k \in Nat, NEW n \in Nat, k < n
  PROVE  /\ SrcLine(k) + call.src_stride <= SrcLine(n)
         /\ DstLine(k) + call.dst_stride <= DstLine(n)
<1>1. call.src_stride \in Nat /\ call.dst_stride \in Nat /\ k + 1 \in Nat /\ k + 1 <= n
  BY DEF CallInv, Numbers
<1>2. /\ (k + 1) * call.src_stride <= n * call.src_stride
      /\ (k + 1) * call.dst_stride <= n * call.dst_stride
  BY <1>1, MulMono
<1>3. /\ SrcLine(k) \in Nat /\ SrcLine(k + 1) \in Nat /\ SrcLine(n) \in Nat
      /\ DstLine(k) \in Nat /\ DstLine(k + 1) \in Nat /\ DstLine(n) \in Nat
      /\ SrcLine(k + 1) = SrcLine(k) + call.src_stride
      /\ DstLine(k + 1) = DstLine(k) + call.dst_stride
  BY <1>1, LineNat
<1>4. SrcLine(k + 1) <= SrcLine(n) /\ DstLine(k + 1) <= DstLine(n)
  <2>1. /\ src_resource_offset \in Nat /\ call.y * call.dst_stride + call.x * Bpp \in Nat
        /\ (k + 1) * call.src_stride \in Nat /\ n * call.src_stride \in Nat
        /\ (k + 1) * call.dst_stride \in Nat /\ n * call.dst_stride \in Nat
    <3>1. /\ call.y * call.src_stride \in Nat /\ call.y * call.dst_stride \in Nat /\ call.x * Bpp \in Nat
          /\ (k + 1) * call.src_stride \in Nat /\ n * call.src_stride \in Nat
          /\ (k + 1) * call.dst_stride \in Nat /\ n * call.dst_stride \in Nat
      BY <1>1, TransferAssumption, MulNat DEF CallInv, Numbers
    <3>2. call.y * call.dst_stride + call.x * Bpp \in Nat
      BY <3>1, AddNat
    <3>3. call.src_offset \in Nat /\ call.src_offset + call.y * call.src_stride \in Nat
      BY <3>1, AddNat DEF CallInv, Numbers
    <3>4. src_resource_offset \in Nat
      BY <3>1, <3>3, AddNat DEF src_resource_offset
    <3> QED
      BY <3>1, <3>2, <3>4
  <2> QED
    BY <1>2, <2>1 DEF SrcLine, DstLine
<1> QED
  BY <1>3, <1>4

\* The offsets of an iteration, in terms of line and chunk.
LEMMA Offsets ==
  ASSUME Inv2D, Looping
  PROVE  /\ src_start_offset \in Nat /\ src_size \in Nat /\ current_height \in Nat
         /\ src_end_offset = src_start_offset + src_size
         /\ src_line_start_offset = SrcLine(current_height)
         /\ src_line_end_offset = SrcLine(current_height) + Width
         /\ src_copyable_start_offset = MaxOf(SrcLine(current_height), src_start_offset)
         /\ src_copyable_end_offset = MinOf(SrcLine(current_height) + Width, src_start_offset + src_size)
         /\ dst_start_offset = DstLine(current_height)
                               + (src_copyable_start_offset - SrcLine(current_height))
         /\ SrcLine(current_height) \in Nat /\ DstLine(current_height) \in Nat /\ Width \in Nat
         /\ current_height \in Rows
<1>1. /\ src \in 1..Len(call.srcs) /\ call.srcs \in Seq(Nat) /\ src_start_offset \in Nat
      /\ current_height \in Nat /\ call.h \in Nat /\ current_height < call.h
  BY DEF Looping, Inv2D, CallInv, Numbers, WalkInv
<1>2. src_size \in Nat
  BY <1>1 DEF src_size
<1>3. SrcLine(current_height) \in Nat /\ DstLine(current_height) \in Nat /\ Width \in Nat
  BY <1>1, LineNat DEF Inv2D
<1> QED
  BY <1>1, <1>2, <1>3 DEF src_end_offset, src_line_start_offset, src_line_end_offset,
     src_copyable_start_offset, src_copyable_end_offset, dst_start_offset, SrcLine, DstLine, Width, Rows

\* What a copying iteration does, byte by byte: the bytes from..to - 1 of the
\* line, found in the chunk, go to the same place of the line.
LEMMA PieceOfLine ==
  ASSUME Inv2D, Looping, Copyable
  PROVE  \E from \in Nat, to \in Nat :
            /\ from = MaxOf(SrcLine(current_height), src_start_offset) - SrcLine(current_height)
            /\ to = MinOf(SrcLine(current_height) + Width, src_start_offset + src_size)
                    - SrcLine(current_height)
            /\ from < to /\ to <= Width
            /\ dst_start_offset = DstLine(current_height) + from
            /\ dst_end_offset = DstLine(current_height) + to
            /\ offset_within_src = SrcLine(current_height) + from - src_start_offset
            /\ offset_within_src \in Nat
            /\ offset_within_src + copyable_size <= src_size
            /\ offset_within_src + copyable_size = SrcLine(current_height) + to - src_start_offset
<1> DEFINE L == SrcLine(current_height)
           D == DstLine(current_height)
           from == MaxOf(L, src_start_offset) - L
           to == MinOf(L + Width, src_start_offset + src_size) - L
<1>1. /\ src_start_offset \in Nat /\ src_size \in Nat /\ L \in Nat /\ D \in Nat /\ Width \in Nat
      /\ src_copyable_start_offset = MaxOf(L, src_start_offset)
      /\ src_copyable_end_offset = MinOf(L + Width, src_start_offset + src_size)
      /\ dst_start_offset = D + (src_copyable_start_offset - L)
  BY Offsets
<1> HIDE DEF L, D
<1>2. from \in Nat /\ to \in Nat /\ from < to /\ to <= Width
  BY <1>1 DEF Copyable, MaxOf, MinOf
<1>3. dst_start_offset = D + from
  BY <1>1
<1>4. copyable_size = to - from
  BY <1>1 DEF copyable_size, MaxOf, MinOf
<1>5. dst_end_offset = D + to
  BY <1>1, <1>2, <1>3, <1>4 DEF dst_end_offset, MaxOf, MinOf
<1>6. offset_within_src = L + from - src_start_offset /\ offset_within_src \in Nat
  BY <1>1, <1>2 DEF offset_within_src, MaxOf
<1>7. offset_within_src + copyable_size <= src_size
  BY <1>1, <1>2, <1>4, <1>6 DEF MinOf, MaxOf
<1>8. offset_within_src + copyable_size = L + to - src_start_offset
  BY <1>1, <1>2, <1>4, <1>6
<1> QED
  BY <1>2, <1>3, <1>5, <1>6, <1>7, <1>8 DEF L, D

-----------------------------------------------------------------------------
(* CopiedRight                                                             *)

\* An old copy stays one if its byte is not written.
LEMMA IsCopyKept ==
  ASSUME call' = call, NEW d, dst'[d] = dst[d], NEW k, NEW j, IsCopy(d, k, j)
  PROVE  IsCopy(d, k, j)'
  BY DEF IsCopy, TargetOf, SourceOf, RowStart

\* A byte of the piece is a copy of the byte of the line.
LEMMA PieceIsCopy ==
  ASSUME Inv2D, Looping, Copyable, dst' = Piece, call' = call, dst_end_offset <= call.dst_len,
         NEW d \in Nat, d >= dst_start_offset, d < dst_end_offset, NEW k, k = current_height
  PROVE  d \in DOMAIN dst /\ \E j \in Bytes : d = DstLine(k) + j /\ IsCopy(d, k, j)'
<1>1. PICK L : L = SrcLine(k)
  OBVIOUS
<1>2. PICK D : D = DstLine(k)
  OBVIOUS
<1>3. PICK from \in Nat, to \in Nat :
         /\ from < to /\ to <= Width
         /\ dst_start_offset = D + from /\ dst_end_offset = D + to
         /\ offset_within_src = L + from - src_start_offset /\ offset_within_src \in Nat
         /\ offset_within_src + copyable_size <= src_size
         /\ offset_within_src + copyable_size = L + to - src_start_offset
  BY <1>1, <1>2, PieceOfLine
<1>4. /\ src_start_offset \in Nat /\ src_size \in Nat /\ L \in Nat /\ D \in Nat /\ Width \in Nat
      /\ k \in Nat
  BY <1>1, <1>2, Offsets
<1>5. /\ RowStart(call.src_offset, call.src_stride, k) = L
      /\ RowStart(0, call.dst_stride, k) = D
  BY <1>1, <1>2, <1>4, LineNat DEF Inv2D
<1>6. /\ src_start_offset = ChunkStart(call.srcs)[src] /\ call.dst_len \in Nat
      /\ dst = [i \in 0..(call.dst_len - 1) |-> dst[i]] /\ src \in 1..(Len(call.srcs) + 1)
      /\ call.srcs[src] = src_size
  BY DEF Inv2D, CallInv, Numbers, WalkInv, src_size
<1>7. PICK j \in Nat : j = d - D
  BY <1>3, <1>4
<1>8. j >= from /\ j < to /\ j \in 0..(Width - 1) /\ d = D + j
  BY <1>3, <1>4, <1>7
<1>9. d \in DOMAIN dst
  <2>1. d \in 0..(call.dst_len - 1)
    BY <1>3, <1>4, <1>6
  <2> QED
    BY <1>6, <2>1
<1>10. dst'[d] = <<src, offset_within_src + (d - dst_start_offset)>>
  BY <1>9 DEF Piece
<1>11. offset_within_src + (d - dst_start_offset) = L + j - src_start_offset
  BY <1>3, <1>4, <1>8
<1>12. /\ dst'[d][1] = src /\ dst'[d][2] = L + j - src_start_offset /\ dst'[d] # Untouched
  BY <1>6, <1>10, <1>11 DEF Untouched
<1>13. L + j - src_start_offset < src_size
  BY <1>3, <1>4, <1>8
<1>14. IsCopy(d, k, j)'
  <2>1. TargetOf(k, j)' = D + j /\ SourceOf(k, j)' = L + j
    BY <1>5 DEF TargetOf, SourceOf, RowStart
  <2>2. L + j = src_start_offset + (L + j - src_start_offset)
    BY <1>4
  <2> QED
    BY <1>6, <1>8, <1>12, <1>13, <2>1, <2>2 DEF IsCopy
<1> QED
  BY <1>2, <1>8, <1>9, <1>14 DEF Bytes, Width

LEMMA CopiedRightKept ==
  ASSUME CopiedRight, call' = call, dst' = dst
  PROVE  CopiedRight'
  BY DEF CopiedRight, IsCopy, TargetOf, SourceOf, RowStart, Rows, Bytes

LEMMA CopiedRightCopy ==
  ASSUME Inv2D, CopiedRight, CopyPiece
  PROVE  CopiedRight'
<1>1. Looping /\ Copyable /\ call' = call
  BY CopyOrRefuse DEF Advance
<1>2. CASE dst' = Piece /\ dst_end_offset <= call.dst_len
  <2> SUFFICES ASSUME NEW d \in DOMAIN dst', dst'[d] # Untouched
               PROVE  \E k \in Rows : \E j \in Bytes : IsCopy(d, k, j)'
    BY <1>1 DEF CopiedRight, Rows, Bytes
  <2>1. DOMAIN dst' = DOMAIN dst /\ d \in DOMAIN dst /\ d \in Nat
    BY <1>2 DEF Piece, Inv2D, WalkInv
  <2>2. CASE d >= dst_start_offset /\ d < dst_end_offset
    <3>1. PICK k \in Rows : k = current_height
      BY <1>1, Offsets
    <3>2. \E j \in Bytes : IsCopy(d, k, j)'
      BY <1>1, <1>2, <2>1, <2>2, <3>1, PieceIsCopy
    <3> QED
      BY <3>1, <3>2
  <2>3. CASE ~(d >= dst_start_offset /\ d < dst_end_offset)
    <3>1. dst'[d] = dst[d]
      BY <1>2, <2>1, <2>3 DEF Piece
    <3>2. PICK k \in Rows : \E j \in Bytes : IsCopy(d, k, j)
      BY <2>1, <3>1 DEF CopiedRight
    <3>3. PICK j \in Bytes : IsCopy(d, k, j)
      BY <3>2
    <3>4. IsCopy(d, k, j)'
      BY <1>1, <3>1, <3>3, IsCopyKept
    <3> QED
      BY <3>2, <3>3, <3>4
  <2> QED
    BY <2>2, <2>3
<1>3. CASE dst' = dst
  BY <1>1, <1>3, CopiedRightKept
<1> QED
  BY <1>2, <1>3, CopyOrRefuse

LEMMA CopiedRightNext == Inv2D /\ CopiedRight /\ [Next]_vars => CopiedRight'
<1> SUFFICES ASSUME Inv2D, CopiedRight, [Next]_vars PROVE CopiedRight'
  OBVIOUS
<1>1. ASSUME NEW c, Begin(c) PROVE CopiedRight'
  BY <1>1 DEF Begin, CopiedRight
<1>2. CASE transfer_write \/ transfer_read \/ transfer_read_blob
  BY <1>1, <1>2 DEF transfer_write, transfer_read, transfer_read_blob
<1>3. CASE CopyPiece
  BY <1>3, CopiedRightCopy
<1>4. CASE SkipChunk \/ SkipLine \/ Finish \/ UNCHANGED vars
  BY <1>4, CopiedRightKept DEF SkipChunk, SkipLine, Finish, Advance, vars
<1>5. CASE Return
  BY <1>5 DEF Return, CopiedRight
<1> QED
  BY <1>2, <1>3, <1>4, <1>5 DEF Next

\* Whatever the chunks of guest memory, the rectangle and the strides, and
\* after every iteration of transfer_2d: a byte of the destination is as it was
\* or holds the source byte of the same row and column.
THEOREM AlwaysCopiedRight == Spec => []CopiedRight
<1>1. Init => CopiedRight
  BY DEF Init, CopiedRight
<1> QED
  BY <1>1, Inv2DAlways, CopiedRightNext, PTL DEF Spec

-----------------------------------------------------------------------------
(* RefusedRightly                                                          *)

\* Host memory whose size did not wrap holds every rectangle of the resource.
LEMMA HostMemFits ==
  ASSUME NEW width \in Nat, NEW height \in Nat, NEW x \in Nat, NEW w \in Nat, NEW last \in Nat,
         x + w <= width, last + 1 <= height, width * height * Bpp < Word,
         NEW img, img = [width |-> width, height |-> height], NEW r \in BOOLEAN
  PROVE  last * stride_of(img) + x * Bpp + w * Bpp <= host_mem(img, r)
<1>1. Bpp \in Nat /\ Word \in Nat \ {0} /\ img.width = width /\ img.height = height
  BY TransferAssumption
<1>2. PICK line \in Nat : line = Bpp * width
  BY <1>1, MulNat
<1>3. width * height * Bpp = height * line /\ height * line \in Nat
  BY <1>1, <1>2, MulNat
<1>4. line < Word
  <2>1. 1 * line <= height * line
    BY <1>2, MulMono
  <2> QED
    BY <1>1, <1>2, <1>3, <2>1
<1>5. stride_of(img) = line
  BY <1>1, <1>2, <1>4, ModNat DEF stride_of
<1>6. (width * height * Bpp) % Word = height * line
  BY <1>1, <1>3, ModNat
<1>7. line * height = height * line
  BY <1>2
<1>8. host_mem(img, r) = height * line
  BY <1>1, <1>5, <1>6, <1>7 DEF host_mem
<1>9. (last + 1) * line <= height * line /\ (last + 1) * line = last * line + line
  BY <1>2, MulMono, MulSucc
<1>10. (x + w) * Bpp <= width * Bpp /\ (x + w) * Bpp = x * Bpp + w * Bpp /\ width * Bpp = line
  BY <1>1, <1>2, MulMono
<1>11. last * line \in Nat /\ x * Bpp \in Nat /\ w * Bpp \in Nat
  BY <1>1, <1>2, MulNat
<1> QED
  BY <1>2, <1>3, <1>5, <1>8, <1>9, <1>10, <1>11

LEMMA RefusedCopy ==
  ASSUME Inv2D, Looping, Copyable, dst_end_offset > call.dst_len
  PROVE  /\ TargetOf(call.h - 1, call.w * Bpp) > call.dst_len
         /\ call.op = "write" => call.resource_w * call.resource_h * Bpp >= Word
<1>1. PICK last \in Nat : last = call.h - 1
  <2>1. call.h \in Nat /\ current_height \in 0..call.h /\ current_height < call.h
    BY DEF Looping, Inv2D, CallInv, Numbers, WalkInv
  <2>2. call.h - 1 \in Nat
    BY <2>1
  <2> QED
    BY <2>2
<1>2. /\ current_height \in Nat /\ current_height <= last /\ CallInv /\ result = "running"
      /\ call.dst_len \in Nat
  BY <1>1 DEF Looping, Inv2D, CallInv, Numbers, WalkInv
<1>3. /\ DstLine(current_height) \in Nat /\ DstLine(last) \in Nat /\ Width \in Nat
      /\ RowStart(0, call.dst_stride, last) = DstLine(last)
  BY <1>1, <1>2, LineNat
<1>4. DstLine(current_height) <= DstLine(last)
  <2>1. CASE current_height < last
    BY <1>2, <1>3, <2>1, LinesApart DEF CallInv, Numbers
  <2>2. CASE current_height = last
    BY <1>3, <2>2
  <2> QED
    BY <1>2, <2>1, <2>2
<1>5. dst_end_offset <= DstLine(current_height) + Width /\ dst_end_offset \in Nat
  BY <1>3, PieceOfLine
<1>6. DstLine(last) + Width > call.dst_len
  BY <1>2, <1>3, <1>4, <1>5
<1>7. TargetOf(call.h - 1, call.w * Bpp) = DstLine(last) + Width
  BY <1>1, <1>3 DEF TargetOf, Width
<1>8. ASSUME call.op = "write", ~(call.resource_w * call.resource_h * Bpp >= Word) PROVE FALSE
  <2> DEFINE img == [width |-> call.resource_w, height |-> call.resource_h]
  <2>1. PICK r \in BOOLEAN : call.dst_stride = stride_of(img) /\ call.dst_len = host_mem(img, r)
    BY <1>2, <1>8 DEF CallInv, IntoHostMem
  <2>2. /\ call.resource_w \in Nat /\ call.resource_h \in Nat /\ call.x \in Nat /\ call.w \in Nat
        /\ call.y \in Nat /\ call.h \in Nat /\ call.x + call.w <= call.resource_w
        /\ call.y + call.h <= call.resource_h /\ call.dst_stride \in Nat
    BY <1>2 DEF Inv2D, CallInv, Numbers, EnteredInv
  <2>3. call.y + last \in Nat /\ (call.y + last) + 1 <= call.resource_h
    BY <1>1, <2>2
  <2>4. call.resource_w * call.resource_h * Bpp < Word
    <3>1. call.resource_w * call.resource_h \in Nat
      BY <2>2, MulNat
    <3>2. call.resource_w * call.resource_h * Bpp \in Nat /\ Word \in Nat
      BY <3>1, MulNat, TransferAssumption
    <3> QED
      BY <1>8, <3>2
  <2> HIDE DEF img
  <2>5. (call.y + last) * stride_of(img) + call.x * Bpp + call.w * Bpp <= host_mem(img, r)
    BY <2>1, <2>2, <2>3, <2>4, HostMemFits DEF img
  <2>6. (call.y + last) * call.dst_stride + call.x * Bpp = DstLine(last)
    <3>1. 0 + (call.y + last) * call.dst_stride + call.x * Bpp = DstLine(last)
      BY <1>3 DEF RowStart
    <3>2. (call.y + last) * call.dst_stride \in Nat /\ call.x * Bpp \in Nat
      BY <2>2, <2>3, MulNat, TransferAssumption
    <3> QED
      BY <3>1, <3>2
  <2>7. DstLine(last) + Width <= call.dst_len
    BY <2>1, <2>5, <2>6 DEF Width
  <2> QED
    BY <1>2, <1>3, <1>6, <2>7
<1> QED
  BY <1>6, <1>7, <1>8

LEMMA RefusedNext == Inv2D /\ RefusedRightly /\ [Next]_vars => RefusedRightly'
<1> SUFFICES ASSUME Inv2D, RefusedRightly, [Next]_vars, result' = "InvalidIovec" PROVE RefusedRightly'
  BY DEF RefusedRightly
<1>1. ASSUME NEW c, Begin(c) PROVE FALSE
  BY <1>1 DEF Begin, Checked
<1>2. CASE CopyPiece /\ result # "InvalidIovec"
  <2>1. /\ Looping /\ Copyable
        /\ ~(offset_within_src + copyable_size <= src_size /\ dst_end_offset <= call.dst_len)
        /\ call' = call
    BY <1>2, CopyOrRefuse DEF Advance
  <2>2. offset_within_src + copyable_size <= src_size /\ dst_end_offset \in Nat
    <3>1. DstLine(current_height) \in Nat
      BY <2>1, Offsets
    <3> QED
      BY <2>1, <3>1, PieceOfLine
  <2>3. dst_end_offset > call.dst_len
    BY <2>1, <2>2 DEF Inv2D, CallInv, Numbers
  <2>4. /\ TargetOf(call.h - 1, call.w * Bpp) > call.dst_len
        /\ call.op = "write" => call.resource_w * call.resource_h * Bpp >= Word
    BY <2>1, <2>3, RefusedCopy
  <2> QED
    BY <2>1, <2>4 DEF RefusedRightly, TargetOf, RowStart
<1>3. CASE UNCHANGED vars
  BY <1>3 DEF vars, RefusedRightly, TargetOf, RowStart
<1>4. CASE SkipChunk \/ SkipLine \/ Finish \/ Return \/ (CopyPiece /\ result = "InvalidIovec")
  BY <1>4, CopyOrRefuse DEF SkipChunk, SkipLine, Finish, Return, Looping, Advance
<1> QED
  BY <1>1, <1>2, <1>3, <1>4 DEF Next, transfer_write, transfer_read, transfer_read_blob

\* transfer_2d refuses a rectangle inside the resource only if the destination
\* is too small for it, and host memory is too small only where a u32 product
\* wrapped when it was allocated.
THEOREM AlwaysRefusedRightly == Spec => []RefusedRightly
<1>1. Init => RefusedRightly
  BY DEF Init, RefusedRightly
<1> QED
  BY <1>1, Inv2DAlways, RefusedNext, PTL DEF Spec

-----------------------------------------------------------------------------
(* CopiedAll                                                               *)

\* Lines do not overlap and no chunk is empty.
Orderly ==
    /\ call.src_stride >= Width /\ call.dst_stride >= Width
    /\ \A i \in DOMAIN call.srcs : call.srcs[i] > 0

Copied(k, j) == \E d \in DOMAIN dst : IsCopy(d, k, j)

\* Lines before current_height are there, and of this one what lies in the
\* chunks before src; the chunk does not begin behind the line.
FillInv ==
    result = "running" /\ Orderly =>
        \A k \in Rows :
            /\ k < current_height => \A j \in Bytes : Copied(k, j)
            /\ k = current_height =>
                  /\ src_start_offset < SrcLine(k) + Width
                  /\ \A j \in Bytes : SrcLine(k) + j < src_start_offset => Copied(k, j)

LEMMA WidthPositive ==
  ASSUME Inv2D, result = "running"
  PROVE  Width \in Nat /\ Width > 0
<1>1. call.w \in Nat /\ call.w > 0 /\ Bpp \in Nat /\ Bpp > 0
  BY TransferAssumption DEF Inv2D, CallInv, Numbers, EnteredInv
<1> QED
  BY <1>1, MulNat, MulPos DEF Width

LEMMA ByteOfLine ==
  ASSUME CallInv, NEW j \in Bytes
  PROVE  j \in Nat /\ j < Width
<1>1. Width \in Nat /\ j \in 0..(Width - 1)
  BY TransferAssumption, MulNat DEF CallInv, Numbers, Width, Bytes
<1> QED
  BY <1>1

\* With the same call, only dst decides what is copied.
LEMMA SameCall ==
  ASSUME call' = call
  PROVE  /\ Rows' = Rows /\ Bytes' = Bytes /\ Width' = Width /\ (Orderly' <=> Orderly)
         /\ \A k : SrcLine(k)' = SrcLine(k)
  BY DEF Rows, Bytes, Width, Orderly, SrcLine, src_resource_offset

LEMMA CopiedKept ==
  ASSUME call' = call, dst' = dst, NEW k, NEW j, Copied(k, j)
  PROVE  Copied(k, j)'
  BY IsCopyKept DEF Copied

\* What was copied of this line and of earlier lines lies before the piece.
LEMMA CopiedBehind ==
  ASSUME Inv2D, Looping, Copyable, Orderly, dst' = Piece, call' = call,
         NEW k \in Rows, NEW j \in Bytes, Copied(k, j),
         \/ k < current_height
         \/ k = current_height /\ SrcLine(k) + j < src_start_offset
  PROVE  Copied(k, j)'
<1>1. PICK d \in DOMAIN dst : IsCopy(d, k, j)
  BY DEF Copied
<1>2. k \in Nat /\ j \in Nat /\ j < Width
  BY ByteOfLine DEF Rows, Inv2D, CallInv, Numbers
<1>3. PICK from \in Nat :
        /\ from = MaxOf(SrcLine(current_height), src_start_offset) - SrcLine(current_height)
        /\ dst_start_offset = DstLine(current_height) + from
  BY PieceOfLine
<1>4. /\ DstLine(current_height) \in Nat /\ SrcLine(current_height) \in Nat /\ Width \in Nat
      /\ current_height \in Nat /\ src_start_offset \in Nat
  BY Offsets
<1>5. DstLine(k) \in Nat /\ d = DstLine(k) + j
  BY <1>1, <1>2, LineNat DEF IsCopy, TargetOf, Inv2D
<1>6. d < dst_start_offset
  <2>1. CASE k < current_height
    <3>1. DstLine(k) + call.dst_stride <= DstLine(current_height) /\ call.dst_stride \in Nat
      BY <1>2, <1>4, <2>1, LinesApart DEF Inv2D, CallInv, Numbers
    <3> QED
      BY <1>2, <1>3, <1>4, <1>5, <3>1 DEF Orderly
  <2>2. CASE k = current_height /\ SrcLine(k) + j < src_start_offset
    <3>1. j < from
      BY <1>2, <1>3, <1>4, <2>2 DEF MaxOf
    <3> QED
      BY <1>2, <1>3, <1>5, <2>2, <3>1
  <2> QED
    BY <2>1, <2>2
<1>7. d \in DOMAIN dst' /\ dst'[d] = dst[d]
  <2>1. dst_start_offset \in Nat /\ d \in Nat
    BY <1>2, <1>3, <1>4, <1>5
  <2> QED
    BY <1>6, <2>1 DEF Piece
<1>8. IsCopy(d, k, j)'
  BY <1>1, <1>7, IsCopyKept
<1> QED
  BY <1>7, <1>8 DEF Copied

\* What the line has in this chunk is copied now.
LEMMA CopiedNow ==
  ASSUME Inv2D, Looping, Copyable, dst' = Piece, call' = call, dst_end_offset <= call.dst_len,
         NEW k \in Rows, k = current_height, NEW j \in Bytes,
         SrcLine(k) + j >= src_start_offset, SrcLine(k) + j < src_start_offset + src_size
  PROVE  Copied(k, j)'
<1>1. j \in Nat /\ j < Width /\ call.dst_len \in Nat
  BY ByteOfLine DEF Inv2D, CallInv, Numbers
<1>2. /\ DstLine(k) \in Nat /\ SrcLine(k) \in Nat /\ Width \in Nat /\ k \in Nat
      /\ src_start_offset \in Nat /\ src_size \in Nat
  BY Offsets
<1>3. PICK from \in Nat, to \in Nat :
        /\ from = MaxOf(SrcLine(k), src_start_offset) - SrcLine(k)
        /\ to = MinOf(SrcLine(k) + Width, src_start_offset + src_size) - SrcLine(k)
        /\ dst_start_offset = DstLine(k) + from /\ dst_end_offset = DstLine(k) + to
  BY PieceOfLine
<1>4. from <= j /\ j < to
  BY <1>1, <1>2, <1>3 DEF MaxOf, MinOf
<1>5. PICK d \in Nat : d = DstLine(k) + j
  BY <1>1, <1>2
<1>6. d >= dst_start_offset /\ d < dst_end_offset
  BY <1>1, <1>2, <1>3, <1>4, <1>5
<1>7. d \in DOMAIN dst /\ \E i \in Bytes : d = DstLine(k) + i /\ IsCopy(d, k, i)'
  BY <1>6, PieceIsCopy
<1>8. PICK i \in Bytes : d = DstLine(k) + i /\ IsCopy(d, k, i)'
  BY <1>7
<1>9. i = j
  <2>1. i \in Int
    BY <1>8 DEF Bytes
  <2> QED
    BY <1>1, <1>2, <1>5, <1>8, <2>1
<1>10. d \in DOMAIN dst'
  BY <1>7 DEF Piece
<1> QED
  BY <1>8, <1>9, <1>10 DEF Copied

LEMMA FillCopy ==
  ASSUME Inv2D, FillInv, Looping, Copyable, Orderly, dst' = Piece, dst_end_offset <= call.dst_len,
         Advance(next_src_after_copy, next_line_after_copy)
  PROVE  FillInv'
<1>1. PICK n : n = current_height
  OBVIOUS
<1>2. /\ n \in Rows /\ n \in Nat /\ src_start_offset \in Nat /\ src_size \in Nat /\ SrcLine(n) \in Nat
      /\ Width \in Nat /\ Width > 0 /\ call.src_stride \in Nat
  BY <1>1, Offsets, WidthPositive DEF Looping, Inv2D, CallInv, Numbers
<1>3. /\ call' = call /\ current_height' = IF next_line_after_copy THEN n + 1 ELSE n
      /\ src_start_offset' = IF next_src_after_copy THEN src_start_offset + src_size ELSE src_start_offset
      /\ next_line_after_copy <=> SrcLine(n) + Width <= src_start_offset + src_size
      /\ next_src_after_copy <=> SrcLine(n) + Width >= src_start_offset + src_size
  BY <1>1, Offsets DEF Advance, next_line_after_copy, next_src_after_copy
<1>4. src_start_offset < SrcLine(n) + Width
  BY <1>1, <1>2 DEF FillInv, Looping
<1>5. ASSUME NEW k \in Rows, k < n, NEW j \in Bytes PROVE Copied(k, j)'
  <2>1. Copied(k, j)
    BY <1>1, <1>5 DEF FillInv, Looping
  <2> QED
    BY <1>1, <1>3, <1>5, <2>1, CopiedBehind
<1>6. ASSUME NEW j \in Bytes, SrcLine(n) + j < src_start_offset + src_size PROVE Copied(n, j)'
  <2>1. CASE SrcLine(n) + j < src_start_offset
    <3>1. Copied(n, j)
      BY <1>1, <1>2, <2>1 DEF FillInv, Looping
    <3> QED
      BY <1>1, <1>2, <1>3, <2>1, <3>1, CopiedBehind
  <2>2. CASE ~(SrcLine(n) + j < src_start_offset)
    <3>1. SrcLine(n) + j >= src_start_offset
      BY <1>2, <2>2, ByteOfLine DEF Inv2D
    <3> QED
      BY <1>1, <1>2, <1>3, <1>6, <3>1, CopiedNow
  <2> QED
    BY <2>1, <2>2
<1>7. Rows' = Rows /\ Bytes' = Bytes /\ Width' = Width /\ \A k : SrcLine(k)' = SrcLine(k)
  BY <1>3, SameCall
<1>8. CASE next_line_after_copy
  <2>1. \A j \in Bytes : Copied(n, j)'
    <3> SUFFICES ASSUME NEW j \in Bytes PROVE SrcLine(n) + j < src_start_offset + src_size
      BY <1>6
    <3> QED
      BY <1>2, <1>3, <1>8, ByteOfLine DEF Inv2D
  <2>2. current_height' = n + 1 /\ src_start_offset' <= SrcLine(n) + Width /\ src_start_offset' \in Nat
    BY <1>2, <1>3, <1>4, <1>8
  <2>3. SrcLine(n + 1) \in Nat /\ SrcLine(n) + Width <= SrcLine(n + 1)
    BY <1>2, LineNat DEF Orderly, Inv2D
  <2>4. src_start_offset' < SrcLine(n + 1) + Width
    BY <1>2, <2>2, <2>3
  <2>5. \A j \in Bytes : ~(SrcLine(n + 1) + j < src_start_offset')
    BY <1>2, <2>2, <2>3, ByteOfLine DEF Inv2D
  <2>6. \A k \in Rows : k < n + 1 => k < n \/ k = n
    BY <1>2 DEF Rows
  <2> QED
    BY <1>5, <1>7, <2>1, <2>2, <2>4, <2>5, <2>6 DEF FillInv
<1>9. CASE ~next_line_after_copy
  <2>1. current_height' = n /\ src_start_offset' = src_start_offset + src_size
        /\ src_start_offset' < SrcLine(n) + Width
    BY <1>2, <1>3, <1>9
  <2> QED
    BY <1>5, <1>6, <1>7, <2>1 DEF FillInv
<1> QED
  BY <1>8, <1>9

LEMMA FillSkip ==
  ASSUME Inv2D, FillInv, Orderly, SkipChunk
  PROVE  FillInv'
<1>1. PICK n : n = current_height
  OBVIOUS
<1>2. Looping /\ ~Copyable /\ src_line_start_offset >= src_start_offset /\ Advance(TRUE, FALSE)
  BY DEF SkipChunk
<1>3. /\ n \in Rows /\ n \in Nat /\ src_start_offset \in Nat /\ src_size \in Nat /\ SrcLine(n) \in Nat
      /\ Width \in Nat /\ Width > 0
  BY <1>1, <1>2, Offsets, WidthPositive DEF Looping
<1>4. /\ SrcLine(n) >= src_start_offset
      /\ ~(MaxOf(SrcLine(n), src_start_offset) < MinOf(SrcLine(n) + Width, src_start_offset + src_size))
  BY <1>1, <1>2, Offsets DEF Copyable
<1>5. SrcLine(n) >= src_start_offset + src_size
  BY <1>3, <1>4 DEF MaxOf, MinOf
<1>6. /\ call' = call /\ dst' = dst /\ current_height' = n
      /\ src_start_offset' = src_start_offset + src_size
  BY <1>1, <1>2, Offsets DEF Advance, SkipChunk
<1>7. Rows' = Rows /\ Bytes' = Bytes /\ Width' = Width /\ \A k : SrcLine(k)' = SrcLine(k)
  BY <1>6, SameCall
<1>8. src_start_offset' < SrcLine(n) + Width /\ \A j \in Bytes : ~(SrcLine(n) + j < src_start_offset')
  BY <1>3, <1>5, <1>6, ByteOfLine DEF Inv2D
<1>9. \A k \in Rows : k < n => \A j \in Bytes : Copied(k, j)'
  <2>1. \A k \in Rows : k < n => \A j \in Bytes : Copied(k, j)
    BY <1>1, <1>2 DEF FillInv, Looping
  <2> QED
    BY <1>6, <2>1, CopiedKept
<1> QED
  BY <1>6, <1>7, <1>8, <1>9 DEF FillInv

\* Without overlapping lines and empty chunks no line is skipped.
LEMMA NoSkipLine ==
  ASSUME Inv2D, FillInv, Orderly, SkipLine
  PROVE  FALSE
<1>1. Looping /\ ~Copyable /\ src_line_start_offset < src_start_offset
  BY DEF SkipLine
<1>2. PICK n : n = current_height
  OBVIOUS
<1>3. /\ n \in Rows /\ src_start_offset \in Nat /\ src_size \in Nat /\ SrcLine(n) \in Nat /\ Width \in Nat
  BY <1>1, <1>2, Offsets
<1>4. /\ SrcLine(n) < src_start_offset
      /\ ~(MaxOf(SrcLine(n), src_start_offset) < MinOf(SrcLine(n) + Width, src_start_offset + src_size))
  BY <1>1, <1>2, Offsets DEF Copyable
<1>5. src_start_offset < SrcLine(n) + Width
  BY <1>1, <1>2, <1>3 DEF FillInv, Looping
<1>6. src_size > 0
  <2>1. call.srcs \in Seq(Nat) /\ src \in 1..(Len(call.srcs) + 1) /\ src <= Len(call.srcs)
    BY <1>1 DEF Looping, Inv2D, CallInv, Numbers, WalkInv
  <2>2. src \in DOMAIN call.srcs
    BY <2>1
  <2> QED
    BY <2>2 DEF Orderly, src_size
<1> QED
  BY <1>3, <1>4, <1>5, <1>6 DEF MaxOf, MinOf

LEMMA FillBegin ==
  ASSUME NEW c, Numbers(c), IntoHostMem(c), Begin(c)
  PROVE  FillInv' /\ CopiedAll'
<1>1. /\ call' = c /\ current_height' = 0 /\ src_start_offset' = 0 /\ result' = Checked(c)
      /\ c.w \in Nat /\ c.h \in Nat
  BY DEF Begin, Numbers
<1>2. FillInv'
  <2> SUFFICES ASSUME Checked(c) = "running" PROVE FillInv'
    BY <1>1 DEF FillInv
  <2>1. c.w > 0
    BY <1>1 DEF Checked
  <2>2. c.w * Bpp \in Nat /\ c.w * Bpp > 0
    BY <1>1, <2>1, TransferAssumption, MulNat, MulPos
  <2>3. /\ c.y * c.src_stride \in Nat /\ c.x * Bpp \in Nat /\ 0 * c.src_stride = 0 /\ c.src_offset \in Nat
    <3>1. c.y \in Nat /\ c.x \in Nat /\ c.src_stride \in Nat /\ c.src_offset \in Nat /\ Bpp \in Nat
      BY TransferAssumption DEF Numbers
    <3> QED
      BY <3>1, MulNat
  <2>4. PICK L \in Nat : L = c.src_offset + c.y * c.src_stride + c.x * Bpp + 0 * c.src_stride
    BY <2>3
  <2>5. SrcLine(0)' = L /\ Width' = c.w * Bpp
    BY <1>1, <2>4 DEF SrcLine, Width, src_resource_offset
  <2>6. Rows' \subseteq Nat /\ \A j \in Bytes' : j \in Nat
    BY <1>1, <2>2 DEF Rows, Bytes
  <2> QED
    BY <1>1, <2>2, <2>4, <2>5, <2>6 DEF FillInv
<1>3. CopiedAll'
  <2> SUFFICES ASSUME Checked(c) = "ok" PROVE Complete'
    BY <1>1 DEF CopiedAll
  <2>1. c.w = 0 \/ c.h = 0
    BY DEF Checked
  <2>2. c.w = 0 => c.w * Bpp = 0
    BY TransferAssumption
  <2>3. Rows' = {} \/ Bytes' = {}
    BY <1>1, <2>1, <2>2 DEF Rows, Bytes
  <2> QED
    BY <2>3 DEF Complete
<1> QED
  BY <1>2, <1>3

\* At the end of the loop nothing is left.
LEMMA FinishComplete ==
  ASSUME Inv2D, FillInv, Orderly, result = "running", ~Looping
  PROVE  Complete
<1> SUFFICES ASSUME NEW k \in Rows, NEW j \in Bytes, SourceOf(k, j) < SourceLen
             PROVE  Copied(k, j)
  BY DEF Complete, Copied, IsCopy
<1>1. PICK n \in Nat : n = current_height
  BY DEF Inv2D, WalkInv
<1>2. k \in Nat /\ k < call.h /\ call.h \in Nat /\ j \in Nat /\ j < Width
  BY ByteOfLine DEF Rows, Inv2D, CallInv, Numbers
<1>3. SrcLine(k) \in Nat /\ SourceOf(k, j) = SrcLine(k) + j /\ Width \in Nat
  BY <1>2, LineNat DEF SourceOf, Inv2D
<1>4. CASE k < n
  BY <1>1, <1>4 DEF FillInv
<1>5. CASE ~(k < n)
  <2>1. src = Len(call.srcs) + 1 /\ SourceLen = src_start_offset /\ src_start_offset \in Nat
    <3>1. call.srcs \in Seq(Nat) /\ src \in 1..(Len(call.srcs) + 1) /\ current_height < call.h
      BY <1>1, <1>2, <1>5 DEF Looping, Inv2D, CallInv, Numbers, WalkInv
    <3>2. ~(src <= Len(call.srcs))
      BY <3>1 DEF Looping
    <3>3. src = Len(call.srcs) + 1
      BY <3>1, <3>2
    <3> QED
      BY <3>3 DEF Inv2D, WalkInv, SourceLen
  <2>2. n \in Rows
    BY <1>1, <1>2, <1>5 DEF Rows
  <2>3. src_start_offset < SrcLine(n) + Width
    BY <1>1, <2>2 DEF FillInv
  <2>4. CASE k = n
    BY <1>1, <1>3, <2>1, <2>2, <2>4 DEF FillInv
  <2>5. CASE k > n
    <3>1. SrcLine(n) + call.src_stride <= SrcLine(k) /\ SrcLine(n) \in Nat /\ call.src_stride \in Nat
      BY <1>1, <1>2, <2>5, LinesApart, LineNat DEF Inv2D, CallInv, Numbers
    <3> QED
      BY <1>2, <1>3, <2>1, <2>3, <3>1 DEF Orderly
  <2> QED
    BY <1>2, <1>5, <2>4, <2>5
<1> QED
  BY <1>4, <1>5

LEMMA CopiedAllNext == Inv2D /\ FillInv /\ CopiedAll /\ [Next]_vars => FillInv' /\ CopiedAll'
<1> SUFFICES ASSUME Inv2D, FillInv, CopiedAll, [Next]_vars PROVE FillInv' /\ CopiedAll'
  OBVIOUS
<1>1. CASE transfer_write
  BY <1>1, WriteCall, FillBegin DEF transfer_write
<1>2. CASE transfer_read
  BY <1>2, ReadCall, FillBegin DEF transfer_read
<1>3. CASE transfer_read_blob
  BY <1>3, BlobCall, FillBegin DEF transfer_read_blob
<1>4. ASSUME call' = call, result' = result, Looping PROVE CopiedAll' /\ (~Orderly => FillInv')
  BY <1>4, SameCall DEF CopiedAll, FillInv, Looping
<1>5. CASE CopyPiece
  <2>1. CASE result' = "InvalidIovec"
    BY <2>1 DEF FillInv, CopiedAll
  <2>2. CASE result' # "InvalidIovec"
    <3>1. /\ Looping /\ Copyable /\ dst' = Piece /\ dst_end_offset <= call.dst_len
          /\ Advance(next_src_after_copy, next_line_after_copy)
      BY <1>5, <2>2, CopyOrRefuse
    <3> QED
      BY <1>4, <3>1, FillCopy DEF Advance
  <2> QED
    BY <2>1, <2>2
<1>6. CASE SkipChunk
  BY <1>4, <1>6, FillSkip DEF SkipChunk, Advance
<1>7. CASE SkipLine
  BY <1>4, <1>7, NoSkipLine DEF SkipLine, Advance
<1>8. CASE Finish
  <2>1. call' = call /\ dst' = dst /\ result = "running" /\ ~Looping /\ result' = "ok"
    BY <1>8 DEF Finish
  <2>2. Orderly => Complete
    BY <2>1, FinishComplete
  <2>3. Complete => Complete'
    BY <2>1 DEF Complete, SourceOf, TargetOf, RowStart, Rows, Bytes, SourceLen, IsCopy
  <2> QED
    BY <2>1, <2>2, <2>3 DEF CopiedAll, FillInv, Orderly, Width
<1>9. CASE Return
  BY <1>9 DEF Return, FillInv, CopiedAll
<1>10. CASE UNCHANGED vars
  <2>1. UNCHANGED <<call, dst, src, src_start_offset, current_height, result>>
    BY <1>10 DEF vars
  <2>2. CopiedAll'
    BY <2>1 DEF CopiedAll, Complete, SourceOf, TargetOf, RowStart, Rows, Bytes, SourceLen, IsCopy
  <2>3. FillInv'
    BY <2>1, SameCall, CopiedKept DEF FillInv
  <2> QED
    BY <2>2, <2>3
<1> QED
  BY <1>1, <1>2, <1>3, <1>5, <1>6, <1>7, <1>8, <1>9, <1>10 DEF Next

\* A copy that returns Ok has copied every byte of the rectangle that the
\* source has, wherever the chunks of guest memory cut its lines, unless lines
\* overlap or a chunk is empty.
THEOREM AlwaysCopiedAll == Spec => []CopiedAll
<1>1. Init => FillInv /\ CopiedAll
  BY DEF Init, FillInv, CopiedAll
<1> QED
  BY <1>1, Inv2DAlways, CopiedAllNext, PTL DEF Spec
=============================================================================
