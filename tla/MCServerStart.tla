--------------------------- MODULE MCServerStart ---------------------------
(***************************************************************************)
(* A server, and another command of the same binary.                        *)
(***************************************************************************)
EXTENDS ServerStart

CONSTANTS p1, cli

MCOpener == {p1, cli}
MCEmbedded == [o \in MCOpener |-> 2]
=============================================================================
