--------------------------- MODULE MCCrossDomain ---------------------------
(***************************************************************************)
(* Instances of CrossDomain for TLC.  Resources: 1 and 2 are guest-memory  *)
(* rings, 3 has a host handle.  Ids: descriptors from 2, sentinels 7..8,   *)
(* read pipes from 10.                                                     *)
(***************************************************************************)
EXTENDS CrossDomain, TLC

InitCmd(q, c, t) == [query |-> q, channel |-> c, type |-> t, uuid |-> "u"]
Ident(t, id) == [type |-> t, id |-> id]

\* One connection on rings of its own.
OneConnection == {InitCmd(1, 2, "path")}
\* The same, and a CMD_INIT without a channel, before it or after it.
ConnectionAndNone == {InitCmd(1, 2, "path"), InitCmd(1, 2, "none")}

\* Every kind of CMD_INIT; the legacy form has one ring for both.
AllInits == {InitCmd(1, 2, "path"), InitCmd(1, 1, "nopath"), InitCmd(1, 1, "none"),
             InitCmd(1, 2, "internal")}

NoSends == {}
PipeSend == {<<Ident("read_pipe", 10)>>, <<Ident("read_pipe", 11)>>}
\* Blobs, a second pipe, files, unknown identifiers.
AllSends == {<<Ident("blob", 3), Ident("read_pipe", 10), Ident("read_pipe", 11)>>,
             <<Ident("fs_blob", 5), Ident("other", 0)>>}

NoFiles == {<<>>}
SocketFiles == {<<"Socket">>}
BlobFiles == {<<>>, <<"Blob", "WritePipe">>}
EventFiles == {<<"Event">>}
AllFiles == {<<"Blob", "WritePipe", "Event">>, <<"Blob", "Unknown">>}

\* Fences are told apart by nothing but their identity.
FenceSymmetry == Permutations(Fences)
=============================================================================
