----------------------------- MODULE MCRutabaga -----------------------------
(***************************************************************************)
(* Instances of Rutabaga for TLC: the builds whose core behaves            *)
(* differently, and the blobs a guest may ask for.                         *)
(***************************************************************************)
EXTENDS Rutabaga, TLC

B(mask, dflt, features, ok, handles) ==
    [capset_mask |-> mask, default_component |-> dflt, features |-> features, virgl_ok |-> ok,
     handles |-> handles]

Only2D == B({}, "Rutabaga2D", {}, FALSE, {})
\* virglrenderer next to cross-domain and Magma, and its fallback to 2D.
WithVirgl(ok) == B({"virgl2", "cross-domain", "magma"}, "NoneSelected", {"VirglRenderer"}, ok,
                       {"shm", "dmabuf"})
WithGfxstream == B({}, "Gfxstream", {"Gfxstream", "unstable"}, FALSE, {"shm"})
CrossDomainOnly == B({"cross-domain"}, "NoneSelected", {}, FALSE, {"shm", "dmabuf"})

AllBuilds == {Only2D, WithVirgl(TRUE), WithVirgl(FALSE), WithGfxstream, CrossDomainOnly}

Cmd(mem, share) == [mem |-> mem, share |-> share]
GuestAndHost == {Cmd("guest", FALSE), Cmd("host", FALSE)}

\* Contexts are told apart by their state alone.
Symmetry == Permutations(CtxIds)
=============================================================================
