---------------------------- MODULE MCTransfer2D ----------------------------
(***************************************************************************)
(* Small images, every rectangle in and around them, and chunks that cut   *)
(* lines and pixels at odd places or are empty.                            *)
(***************************************************************************)
EXTENDS Transfer2D

Img(w, h) == [width |-> w, height |-> h]
\* With Word = 32: an ordinary image; one whose size only fits the 64-bit
\* product; one whose stride wraps to 0.
SomeImages == {Img(2, 2), Img(4, 2), Img(8, 1)}

SomeTransfers ==
    [x : {0, 1}, y : {0, 1}, w : {0, 1, 2, 31}, h : {1, 2}, offset : {0, 5}, stride : {4, 8}]

SomeIovecs == UNION {[1..n -> {0, 3, 8, 21}] : n \in 0..3}
=============================================================================
