-------------------------- MODULE MCMemorySentinel --------------------------
(* Two sentinels for the passing run; one for the violations.              *)
EXTENDS MemorySentinel

OneSentinel == {256}
TwoSentinels == {256, 257}
=============================================================================
