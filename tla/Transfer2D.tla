----------------------------- MODULE Transfer2D -----------------------------
(***************************************************************************)
(* The copies of the 2D component (src/src/rutabaga_2d.rs): transfer_2d    *)
(* walks the chunks of its source and the lines of the rectangle together, *)
(* one iteration of its loop a step here.                                  *)
(*                                                                         *)
(* The content of a source byte is its place <<chunk, index>>, so that a   *)
(* destination says where its bytes came from.  u32 wraps at Word, as in a *)
(* build without overflow checks.  Offsets of 2^64 and more are left out:  *)
(* there the first sums of transfer_2d wrap, and its checked arithmetic    *)
(* ends the copy with an error, which no step here does.                   *)
(***************************************************************************)
EXTENDS Integers, Sequences

CONSTANTS
    Word,          \* 2^32, scaled down
    Bpp,           \* bytes per pixel, 4 in the code
    Images,        \* dimensions of 2D resources
    Transfers,     \* rectangles, with the offset and the stride of the transfer
    Iovecs,        \* guest memory: the lengths of its pieces
    BufSizes,      \* buffers that transfer_read is given
    ScanoutStrides \* strides that set_scanout gives a guest blob

ASSUME TransferAssumption ==
    /\ Word \in Nat \ {0} /\ Bpp \in Nat \ {0}
    /\ Images \subseteq [width : Nat, height : Nat]
    /\ Transfers \subseteq [x : Nat, y : Nat, w : Nat, h : Nat, offset : Nat, stride : Nat]
    /\ Iovecs \subseteq Seq(Nat) /\ BufSizes \subseteq Nat /\ ScanoutStrides \subseteq Nat

VARIABLES
    call,              \* the arguments of transfer_2d
    dst,               \* the destination slice
    src,               \* src_opt: index of the chunk, past the last one for None
    src_start_offset,
    current_height,
    result             \* "idle", "running", or what the call returned

vars == <<call, dst, src, src_start_offset, current_height, result>>

-----------------------------------------------------------------------------
(* The callers: create_3d, restore, transfer_write and transfer_read       *)

\* resource_bpp * width, in u32
stride_of(img) == (Bpp * img.width) % Word

\* Bytes of host_mem: create_3d widens the stride before it multiplies by the
\* height, a restore computes the whole product in u32.
host_mem(img, restored) ==
    IF restored THEN (img.width * img.height * Bpp) % Word
    ELSE stride_of(img) * img.height

write_call(img, restored, t, iovecs) ==
    [op |-> "write", resource_w |-> img.width, resource_h |-> img.height,
     x |-> t.x, y |-> t.y, w |-> t.w, h |-> t.h,
     dst_stride |-> stride_of(img), dst_len |-> host_mem(img, restored),
     src_stride |-> stride_of(img), src_offset |-> t.offset, srcs |-> iovecs]

read_call(img, restored, t, len) ==
    [op |-> "read", resource_w |-> img.width, resource_h |-> img.height,
     x |-> t.x, y |-> t.y, w |-> t.w, h |-> t.h,
     dst_stride |-> t.stride, dst_len |-> len,
     src_stride |-> stride_of(img), src_offset |-> 0, srcs |-> <<host_mem(img, restored)>>]

\* A guest blob has no host_mem, and the dimensions of the transfer itself.
read_blob_call(stride, t, iovecs, len) ==
    [op |-> "blob", resource_w |-> t.w, resource_h |-> t.h,
     x |-> t.x, y |-> t.y, w |-> t.w, h |-> t.h,
     dst_stride |-> t.stride, dst_len |-> len,
     src_stride |-> stride, src_offset |-> 0, srcs |-> iovecs]

-----------------------------------------------------------------------------
(* transfer_2d                                                             *)

Untouched == <<0, 0>>
NoCall == [op |-> "none", resource_w |-> 0, resource_h |-> 0, x |-> 0, y |-> 0, w |-> 0, h |-> 0,
           dst_stride |-> 0, dst_len |-> 0, src_stride |-> 0, src_offset |-> 0, srcs |-> <<>>]

Checked(c) ==
    IF c.w = 0 \/ c.h = 0 THEN "ok"
    ELSE IF c.x + c.w >= Word \/ c.y + c.h >= Word THEN "CheckedArithmetic"
    ELSE IF c.x + c.w > c.resource_w \/ c.y + c.h > c.resource_h THEN "CheckedRange"
    ELSE "running"

Begin(c) ==
    /\ call' = c
    /\ dst' = [d \in 0..(c.dst_len - 1) |-> Untouched]
    /\ src' = 1 /\ src_start_offset' = 0 /\ current_height' = 0
    /\ result' = Checked(c)

transfer_write ==
    /\ result = "idle"
    /\ \E img \in Images, restored \in BOOLEAN, t \in Transfers, iovecs \in Iovecs :
           Begin(write_call(img, restored, t, iovecs))

transfer_read ==
    /\ result = "idle"
    /\ \E img \in Images, restored \in BOOLEAN, t \in Transfers, len \in BufSizes :
           Begin(read_call(img, restored, t, len))

transfer_read_blob ==
    /\ result = "idle"
    /\ \E stride \in ScanoutStrides, t \in Transfers, iovecs \in Iovecs, len \in BufSizes :
           Begin(read_blob_call(stride, t, iovecs, len))

src_size == call.srcs[src]
src_end_offset == src_start_offset + src_size

\* Cumulative start/end offsets of the next line to copy within all srcs.
src_resource_offset == call.src_offset + call.y * call.src_stride + call.x * Bpp
src_line_start_offset == src_resource_offset + current_height * call.src_stride
src_line_end_offset == src_line_start_offset + call.w * Bpp

MaxOf(a, b) == IF a >= b THEN a ELSE b
MinOf(a, b) == IF a <= b THEN a ELSE b

\* Clamp the line start/end offset to be inside the current src.
src_copyable_start_offset == MaxOf(src_line_start_offset, src_start_offset)

\* Plausible bug: the line is not cut at the end of the chunk.
UncutEnd == src_line_end_offset

src_copyable_end_offset == MinOf(src_line_end_offset, src_end_offset)
copyable_size == src_copyable_end_offset - src_copyable_start_offset
offset_within_src == src_copyable_start_offset - src_start_offset

\* Plausible bug: every piece of a line goes to the start of the line.
AtLineStart == call.y * call.dst_stride + call.x * Bpp + current_height * call.dst_stride

dst_start_offset ==
    call.y * call.dst_stride + call.x * Bpp
    + current_height * call.dst_stride + (src_copyable_start_offset - src_line_start_offset)
dst_end_offset == dst_start_offset + copyable_size

Looping == result = "running" /\ src <= Len(call.srcs) /\ current_height < call.h
Copyable == src_copyable_start_offset < src_copyable_end_offset

\* The end of an iteration.
Advance(next_src, next_line) ==
    /\ src' = IF next_src THEN src + 1 ELSE src
    /\ src_start_offset' = IF next_src THEN src_end_offset ELSE src_start_offset
    /\ current_height' = IF next_line THEN current_height + 1 ELSE current_height
    /\ UNCHANGED <<call, result>>

\* Plausible bug: a line that goes on in the next chunk counts as copied.
AlwaysNextLine == TRUE

next_line_after_copy == src_line_end_offset <= src_end_offset
next_src_after_copy == src_line_end_offset >= src_end_offset

\* dst.get_mut and src.get with the bounds of the slices, then copy_from_slice.
CopyPiece ==
    /\ Looping /\ Copyable
    /\ IF offset_within_src + copyable_size <= src_size /\ dst_end_offset <= call.dst_len
       THEN /\ dst' = [d \in DOMAIN dst |->
                          IF d >= dst_start_offset /\ d < dst_end_offset
                          THEN <<src, offset_within_src + (d - dst_start_offset)>> ELSE dst[d]]
            /\ Advance(next_src_after_copy, next_line_after_copy)
       ELSE /\ result' = "InvalidIovec"
            /\ UNCHANGED <<call, dst, src, src_start_offset, current_height>>

\* Plausible bug: a chunk that ends where the line starts is tried again.
SkipChunkLate ==
    /\ Looping /\ ~Copyable /\ src_line_start_offset >= src_start_offset
    /\ UNCHANGED dst
    /\ Advance(src_line_start_offset > src_end_offset, FALSE)

SkipChunk ==
    /\ Looping /\ ~Copyable /\ src_line_start_offset >= src_start_offset
    /\ UNCHANGED dst
    /\ Advance(TRUE, FALSE)

\* The line lies before the chunk: lines overlap, and the walk does not go back.
SkipLine ==
    /\ Looping /\ ~Copyable /\ src_line_start_offset < src_start_offset
    /\ UNCHANGED dst
    /\ Advance(FALSE, TRUE)

Finish ==
    /\ result = "running" /\ ~Looping
    /\ result' = "ok"
    /\ UNCHANGED <<call, dst, src, src_start_offset, current_height>>

\* The call returns to the VMM.
Return ==
    /\ result \notin {"idle", "running"}
    /\ call' = NoCall /\ dst' = <<>> /\ src' = 1 /\ src_start_offset' = 0
    /\ current_height' = 0 /\ result' = "idle"

Init ==
    /\ call = NoCall /\ dst = <<>> /\ src = 1 /\ src_start_offset = 0
    /\ current_height = 0 /\ result = "idle"

Next ==
    \/ transfer_write \/ transfer_read \/ transfer_read_blob
    \/ CopyPiece \/ SkipChunk \/ SkipLine \/ Finish \/ Return

\* The loop is not interrupted; nobody has to call it.
Fairness == WF_vars(CopyPiece \/ SkipChunk \/ SkipLine \/ Finish)

Spec == Init /\ [][Next]_vars /\ Fairness

-----------------------------------------------------------------------------
(* The reference: row k of the rectangle is Bpp * w bytes of the chunks    *)
(* put end to end, and of the destination.                                 *)

\* Where chunk i starts in the source.
ChunkStart(srcs) ==
    LET start[i \in 1..(Len(srcs) + 1)] == IF i = 1 THEN 0 ELSE start[i - 1] + srcs[i - 1]
    IN  start

SourceLen == ChunkStart(call.srcs)[Len(call.srcs) + 1]
RowStart(base, stride, k) == base + (call.y + k) * stride + call.x * Bpp
SourceOf(k, j) == RowStart(call.src_offset, call.src_stride, k) + j
TargetOf(k, j) == RowStart(0, call.dst_stride, k) + j
Rows  == 0..(call.h - 1)
Bytes == 0..(call.w * Bpp - 1)

\* Byte j of row k was copied to byte d.
IsCopy(d, k, j) ==
    /\ d = TargetOf(k, j) /\ dst[d] # Untouched
    /\ SourceOf(k, j) = ChunkStart(call.srcs)[dst[d][1]] + dst[d][2]
    /\ dst[d][2] < call.srcs[dst[d][1]]

-----------------------------------------------------------------------------
(* Properties                                                              *)

\* Whatever the chunks, and after every iteration: the bytes of the
\* destination outside the rectangle are as they were, and those inside hold
\* the source byte of the same row and column (the offsets of transfer_2d).
CopiedRight ==
    \A d \in DOMAIN dst :
        dst[d] = Untouched \/ \E k \in Rows : \E j \in Bytes : IsCopy(d, k, j)

\* Every byte of the rectangle that the source has is in the destination.
Complete ==
    \A k \in Rows : \A j \in Bytes :
        SourceOf(k, j) < SourceLen =>
            TargetOf(k, j) \in DOMAIN dst /\ IsCopy(TargetOf(k, j), k, j)

\* A copy that succeeds leaves nothing out.  Two things would make it skip
\* bytes, as the walk never goes back: lines that overlap, with a scanout stride
\* below the length of a line, and an empty chunk inside a line.
CopiedAll ==
    (/\ result = "ok" /\ call.src_stride >= call.w * Bpp /\ call.dst_stride >= call.w * Bpp
     /\ \A i \in DOMAIN call.srcs : call.srcs[i] > 0)
        => Complete

\* A rectangle inside the resource is refused only if it does not fit the
\* destination; the host memory of a resource is too small only where a u32
\* product wraps, which create_3d and restore do for different images.
RefusedRightly ==
    result = "InvalidIovec" =>
        /\ TargetOf(call.h - 1, call.w * Bpp) > call.dst_len
        /\ call.op = "write" => call.resource_w * call.resource_h * Bpp >= Word

\* Every iteration makes progress: the loop ends for all chunks, empty ones
\* included.
Terminates == (result = "running") ~> (result # "running")
=============================================================================
