----------------------------- MODULE MCGralloc ------------------------------
(***************************************************************************)
(* Two contexts over every build and five machines, with images at the     *)
(* edges: odd, empty, too large for Vulkan, too large for u32.             *)
(***************************************************************************)
EXTENDS Gralloc, TLC

Image(w, h, format, flags) == [width |-> w, height |-> h, format |-> format, flags |-> flags]

SomeInfos ==
    {Image(4, 3, "XRGB8888", {}), Image(4, 3, "XRGB8888", {"LINEAR", "TEXTURING"}),
     Image(4, 3, "XRGB8888", {"TEXTURING"}),
     Image(3, 3, "NV12", {"RENDERING", "SW_READ_OFTEN"}), Image(3, 4, "BGR888", {"SW_WRITE_OFTEN"}),
     Image(1, 4, "ABGR16161616F", {"CAMERA_READ"}),
     Image(0, 4, "R8", {}), Image(2, 2, "other", {}),
     Image(20, 20, "YVU420", {"LINEAR", "CAMERA_WRITE"}), Image(128, 5, "XRGB8888", {})}

\* Linear rows are not padded; textures and what a CPU or a camera uses have
\* paddings of their own.
SomePads ==
    [f \in SUBSET Flags |->
        IF "LINEAR" \in f THEN 1 ELSE IF "TEXTURING" \in f THEN 3 * Tile
        ELSE IF f \subseteq {"RENDERING"} THEN Tile ELSE 2 * Tile]

Device(type, id, dmabuf, types, bits) ==
    [usable |-> TRUE, type |-> type, id |-> id, dmabuf |-> dmabuf, external |-> TRUE,
     memory_types |-> types, type_bits |-> bits]
Local  == {"DEVICE_LOCAL"}
Write  == {"HOST_VISIBLE", "HOST_COHERENT"}
Cached == {"HOST_VISIBLE", "HOST_COHERENT", "HOST_CACHED"}
Types  == <<Local, Write, Cached, Local \cup Write>>

SomeHosts ==
    {[render_node |-> FALSE, phys |-> <<>>],
     [render_node |-> TRUE, phys |-> <<Device("Cpu", 1, TRUE, <<Cached>>, {1})>>],
     [render_node |-> TRUE,
      phys |-> <<Device("Discrete", 1, TRUE, Types, 1..4), Device("Integrated", 2, FALSE, <<Cached, Local>>, {1, 2})>>],
     [render_node |-> FALSE,
      phys |-> <<Device("Discrete", 1, FALSE, <<Local>>, {1}), Device("Discrete", 2, TRUE, Types, {1, 2, 3})>>],
     [render_node |-> TRUE,
      phys |-> <<[Device("Integrated", 1, TRUE, Types, {1}) EXCEPT !.usable = FALSE],
                 Device("Discrete", 2, TRUE, Types, {1, 4})>>]}

Symmetry == Permutations(Contexts)
=============================================================================
