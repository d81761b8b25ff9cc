--------------------------- MODULE MCVersionTrail ---------------------------
(***************************************************************************)
(* Small instances of VersionTrail.  The tree is one file "f" holding a     *)
(* heading, a section and a paragraph (a chain, whose removals cascade and  *)
(* whose middle can be promoted over), numbered in two ways, and one node   *)
(* that MemoryWrite identifies by its payload.                             *)
(***************************************************************************)
EXTENDS VersionTrail, TLC

CONSTANTS a, b

MCContent == {a, b}

\* A chain 1 -> 2 -> 3: identifiers in tree order.
ChainParent == <<0, 1, 2, 0>>
\* A chain 2 -> 3 -> 1: the paragraph has the smallest identifier.
TwistedParent == <<3, 0, 2, 0>>
\* One heading in each of two files.
PairParent == <<0, 0, 0>>

ChainFile == <<"f", "f", "f", "mcp:write">>
PairFile == <<"f", "g", "mcp:write">>
NoElder == <<0, 0, 0, 0>>
NoElder3 == <<0, 0, 0>>

MCPayloadNode == [c \in MCContent |-> NodeCount]

ContentSymmetry == Permutations(MCContent)

PruneCalls == {"write", "drop_after"}
PromoteUndoCalls == {"compile_files", "reparent", "rollback"}
=============================================================================
