---------------------------- MODULE MCSharedTrail ----------------------------
(***************************************************************************)
(* A small instance of SharedTrail: two goroutines of one server, or of two *)
(* servers that share a database.  Node 1 is a heading of a file, node 2    *)
(* what MemoryWrite creates.  The damaged databases are what is left of one *)
(* with both nodes, the second under the first, and two snapshots.         *)
(***************************************************************************)
EXTENDS Doctor, TLC

CONSTANTS a, t1, t2, p1, p2

OneContent == {a}

Threads == {t1, t2}
OneOrTwoServers == {[th \in Threads |-> p1], [th \in Threads |-> IF th = t1 THEN p1 ELSE p2]}

LoneParent == <<0, 0>>
LoneFile == <<"f", "mcp:write">>
NoElder == <<0, 0>>

MCPayloadNode == [c \in Content |-> NodeCount]

Part(f, S) == [x \in DOMAIN f \cap S |-> f[x]]

Whole ==
  [nodes |-> [n \in {1, 2} |-> [parent |-> n - 1, file |-> "f", content |-> a]],
   snaps |-> [s \in {1, 2} |-> [hash |-> s, parent |-> s - 1, root |-> ""]],
   diffs |-> [s \in {1, 2} |-> [n \in {s} |-> [op |-> "add", old |-> None, new |-> a, meta |-> None]]],
   head |-> 2]

Broken ==
  {[nodes |-> Part(Whole.nodes, ns), snaps |-> Part(Whole.snaps, ss),
    diffs |-> Whole.diffs, head |-> Whole.head] : ns, ss \in SUBSET {1, 2}}

SharingCalls == {"write", "strict", "cascade", "reparent", "compile_files", "purge", "drop_after"}
=============================================================================
