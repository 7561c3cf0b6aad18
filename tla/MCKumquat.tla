----------------------------- MODULE MCKumquat ------------------------------
(* Two clients of a Kumquat server that is started twice.                  *)
EXTENDS Kumquat, TLC

Symmetry == Permutations(Clients)
=============================================================================
