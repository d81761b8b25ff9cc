---------------------------- MODULE VersionTrail ----------------------------
(***************************************************************************)
(* The versioned node graph of one server: every handler that lands a       *)
(* snapshot (MemoryWrite, MemorySummarize, MemoryForget, MemoryCompile, the *)
(* purge and the compile of a rescan tick, MemoryRollback), each one an     *)
(* atomic action, because in one process Store.OpMu serialises them and     *)
(* each commits in one SQL transaction.  SharedTrail splits them for        *)
(* several processes.                                                      *)
(*                                                                         *)
(* A handler that fails or finds nothing to change rolls its transaction    *)
(* back and leaves every variable as it was; such calls are stuttering      *)
(* steps and have no action.                                               *)
(***************************************************************************)
EXTENDS NodeGraph, FiniteSetsExt

CONSTANTS
  Root,          \* compile roots: the directories that get compiled
  NoRoot,        \* compile_root of a snapshot no compile made
  Calls,         \* the calls the environment makes, a subset of AllCalls
  MaxSnapshot    \* bound on the snapshots of a history

AllCalls == {"write", "write_unknown", "summarize", "strict", "cascade", "reparent",
             "compile_dir", "compile_files", "purge", "rollback", "drop_after"}

ASSUME CallsAssumption == Calls \subseteq AllCalls

\* compile_root is NOT NULL.
ASSUME RootAssumption == NoRoot \notin Root /\ None \notin Root

ASSUME MaxSnapshotAssumption == MaxSnapshot \in Nat

VARIABLES
  nodes,   \* table nodes
  snaps,   \* table snapshots, by id
  diffs,   \* table diffs, by snapshot and node
  head,    \* cursors row HEAD, 0 when there is none
  seq,     \* last id AUTOINCREMENT handed out
  world    \* history variable: the node table each snapshot committed

vars == <<nodes, snaps, diffs, head, seq, world>>

-----------------------------------------------------------------------------
(* Cursor hashes.  A digest is the record of what was written into it.     *)

CompileHash(prevHead, t) ==
  [prev |-> prevHead, target |-> 0, body |-> ContentsOf(t, DOMAIN t)]

\* Mutant: the parent snapshot left out of the digest.
ChangeHashOfDeltas(prevHead, ds) == [prev |-> 0, target |-> 0, body |-> ds]

ChangeHash(prevHead, ds) == [prev |-> prevHead, target |-> 0, body |-> ds]

RollbackHash(prevHead, target, ds) ==
  [prev |-> prevHead, target |-> target, body |-> ds]

-----------------------------------------------------------------------------
(* Reads.                                                                  *)

NodesOfFiles(fs) == {n \in DOMAIN nodes : nodes[n].file \in fs}

SnapshotsTouching(n) == {s \in DOMAIN diffs : n \in DOMAIN diffs[s]}

\* Nodes whose most recent diff row was written under the compile root r.
NodesOfRoot(r) ==
  {n \in DOMAIN nodes : /\ SnapshotsTouching(n) # {}
                        /\ snaps[Max(SnapshotsTouching(n))].root = r}

\* The node table at a snapshot, computed by walking the rows back from HEAD.
RestoreToSnapshot(target) ==
  LET walk[s \in target..seq] ==
        IF s = seq THEN nodes
        ELSE IF s + 1 \in DOMAIN diffs THEN Undo(walk[s + 1], diffs[s + 1])
        ELSE walk[s + 1]
  IN  walk[target]

-----------------------------------------------------------------------------
(* The one place a snapshot lands: its row, its diff rows and HEAD, in the  *)
(* transaction that changed the nodes.  survivors are the earlier snapshots *)
(* a pruning rollback leaves.                                              *)

Land(g, rows, hash, root, parent, survivors) ==
  LET id == seq + 1 IN
  /\ seq < MaxSnapshot
  /\ nodes' = g
  /\ seq' = id
  /\ head' = id
  /\ snaps' = [s \in survivors \cup {id} |->
                 IF s = id THEN [hash |-> hash, parent |-> parent, root |-> root] ELSE snaps[s]]
  /\ diffs' = [s \in survivors \cup {id} |-> IF s = id THEN rows ELSE diffs[s]]
  /\ world' = [s \in survivors \cup {id} |-> IF s = id THEN g ELSE world[s]]

\* EmitTx: no deltas, no snapshot.
Emit(ds, t, hash, root) ==
  /\ DOMAIN ds # {}
  /\ UpsertsAccepted(nodes, t, ds)
  /\ Land(ApplyDeltas(nodes, t, ds), RowsFor(nodes, ds), hash, root, head, DOMAIN snaps)

EmitChange(ds, t) == Emit(ds, t, ChangeHash(head, ds), NoRoot)

-----------------------------------------------------------------------------
(* MemoryWrite and MemorySummarize.                                        *)

\* Mutant: the source file not carried over to the stored row.
WrittenRowNoFile(g, n, c) ==
  [parent |-> IF n \in DOMAIN g THEN g[n].parent ELSE NoNode, file |-> None, content |-> c]

\* The row MemoryWrite stores: an existing node keeps its place.
WrittenRow(g, n, c) ==
  IF n \in DOMAIN g THEN [g[n] EXCEPT !.content = c]
  ELSE [parent |-> NoNode, file |-> WriteFile, content |-> c]

WriteDeltas(g, n, c) == DiffFlat([m \in {n} |-> WrittenRow(g, n, c)], ContentsOf(g, {n} \cap DOMAIN g))

WriteNode(n, c) == EmitChange(WriteDeltas(nodes, n, c), [m \in {n} |-> WrittenRow(nodes, n, c)])

\* anchor = NoNode: the node is identified by its payload.
Write(anchor, c) ==
  /\ "write" \in Calls
  /\ anchor \in DOMAIN nodes \cup {NoNode} \/ "write_unknown" \in Calls
  /\ WriteNode(IF anchor = NoNode THEN PayloadNode[c] ELSE anchor, c)

Summarize(n, c) ==
  /\ "summarize" \in Calls
  /\ n \in DOMAIN nodes
  /\ WriteNode(n, c)

-----------------------------------------------------------------------------
(* MemoryForget.                                                           *)

RemovalOf(g, S) == [n \in S |-> Removed(g[n].content)]

ForgetStrict(n) ==
  /\ "strict" \in Calls
  /\ n \in DOMAIN nodes
  /\ ChildrenOf(nodes, n) = {}
  /\ EmitChange(RemovalOf(nodes, {n}), EmptyGraph)

ForgetCascade(n) ==
  /\ "cascade" \in Calls
  /\ n \in DOMAIN nodes
  /\ EmitChange(RemovalOf(nodes, Subtree(nodes, n)), EmptyGraph)

\* Mutant: the children keep the parent that is about to be deleted.
PromotedNowhere(g, n) == [c \in ChildrenOf(g, n) |-> g[c]]

Promoted(g, n) == [c \in ChildrenOf(g, n) |-> [g[c] EXCEPT !.parent = g[n].parent]]

ReparentDeltas(g, n) ==
  [m \in ChildrenOf(g, n) \cup {n} |->
     IF m = n THEN Removed(g[m].content) ELSE Modified(g[m].content, g[m].content)]

ForgetReparent(n) ==
  /\ "reparent" \in Calls
  /\ n \in DOMAIN nodes
  /\ EmitChange(ReparentDeltas(nodes, n), Promoted(nodes, n))

-----------------------------------------------------------------------------
(* Compiles, and the purge of a rescan tick.                               *)

CompileTree(t, known, root) ==
  Emit(DiffFlat(t, ContentsOf(nodes, known)), t, CompileHash(head, t), root)

\* CompileDir: everything found under root, against everything last compiled under it.
CompileDir(root, fs, t) ==
  /\ "compile_dir" \in Calls
  /\ CompileTree(t, NodesOfRoot(root), root)

\* A rescan's changed files, or one file: against the stored nodes of those files.
CompileFiles(root, fs, t) ==
  /\ "compile_files" \in Calls
  /\ CompileTree(t, NodesOfFiles(fs), root)

PurgeFiles(fs) ==
  /\ "purge" \in Calls
  /\ EmitChange(RemovalOf(nodes, NodesOfFiles(fs)), EmptyGraph)

-----------------------------------------------------------------------------
(* MemoryRollback.                                                         *)

\* Mutant: nodes the target has and HEAD has not are forgotten.
RollbackDeltasOfCurrent(current, target) ==
  [n \in {n \in DOMAIN current : ~(n \in DOMAIN target /\ current[n] = target[n])}
     |-> IF n \notin DOMAIN target THEN Removed(current[n].content)
         ELSE Modified(current[n].content, target[n].content)]

RollbackDeltas(current, target) ==
  [n \in {n \in DOMAIN current \cup DOMAIN target :
            ~(n \in DOMAIN current /\ n \in DOMAIN target /\ current[n] = target[n])}
     |-> IF n \notin DOMAIN target THEN Removed(current[n].content)
         ELSE IF n \notin DOMAIN current THEN Added(target[n].content)
         ELSE Modified(current[n].content, target[n].content)]

\* applyRollbackMutations: one statement per delta, in the order of the identifiers.
ApplyInIdOrder(g, target, ds) ==
  LET after[n \in 0..NodeCount] ==
        IF n = 0 THEN g
        ELSE IF n \notin DOMAIN ds THEN after[n - 1]
        ELSE IF ds[n].op = "rem" THEN Drop(after[n - 1], {n})
        ELSE Put(after[n - 1], target, {n})
  IN  after[NodeCount]

\* Mutant: the comparison turned around.
PrunedBefore(target) == {s \in DOMAIN snaps : s <= target}

Pruned(target) == {s \in DOMAIN snaps : s > target}

\* Mutant: a pruning rollback hangs off the old HEAD, which it prunes.
RollbackParentIsHead(target, dropAfter) == head

RollbackParent(target, dropAfter) == IF dropAfter THEN target ELSE head

Rollback(target, dropAfter) ==
  LET restored == RestoreToSnapshot(target)
      ds       == RollbackDeltas(nodes, restored)
      g        == ApplyInIdOrder(nodes, restored, ds)
  IN
  /\ (IF dropAfter THEN "drop_after" ELSE "rollback") \in Calls
  /\ target \in DOMAIN snaps
  /\ target < head
  /\ DOMAIN ds # {}
  /\ FKIntact(g)      \* the deferred foreign keys, checked at commit
  /\ Land(g, RowsFor(nodes, ds), RollbackHash(head, target, ds), NoRoot,
          RollbackParent(target, dropAfter),
          DOMAIN snaps \ (IF dropAfter THEN Pruned(target) ELSE {}))

-----------------------------------------------------------------------------
Init ==
  /\ nodes = EmptyGraph
  /\ snaps = [s \in {} |-> None]
  /\ diffs = [s \in {} |-> None]
  /\ world = [s \in {} |-> None]
  /\ head = 0
  /\ seq = 0

Next ==
  \/ \E n \in NodeId \cup {NoNode}, c \in Content : Write(n, c)
  \/ \E n \in NodeId, c \in Content : Summarize(n, c)
  \/ \E n \in NodeId : ForgetStrict(n)
  \/ \E n \in NodeId : ForgetCascade(n)
  \/ \E n \in NodeId : ForgetReparent(n)
  \/ \E r \in Root : \E fs \in (SUBSET File) \ {{}} : \E t \in Parses(fs) : CompileDir(r, fs, t)
  \/ \E r \in Root : \E fs \in (SUBSET File) \ {{}} : \E t \in Parses(fs) : CompileFiles(r, fs, t)
  \/ \E fs \in (SUBSET File) \ {{}} : PurgeFiles(fs)
  \/ \E s \in 1..seq : \E d \in BOOLEAN : Rollback(s, d)

Spec == Init /\ [][Next]_vars

-----------------------------------------------------------------------------
(* MemoryDiff: the rows of (from, to], one per node, folded to the net      *)
(* change.                                                                 *)

\* Mutant: a modification starts from the content before the last row only.
NetRowOfLast(first, last) ==
  IF first.op = "add" THEN Added(last.new)
  ELSE IF last.op = "rem" THEN Removed(first.old)
  ELSE Modified(last.old, last.new)

NetRow(first, last) ==
  IF first.op = "add" THEN Added(last.new)
  ELSE IF last.op = "rem" THEN Removed(first.old)
  ELSE Modified(first.old, last.new)

ConsolidateDiffs(from, to) ==
  LET within(n) == {s \in SnapshotsTouching(n) : from < s /\ s <= to}
      first(n)  == diffs[Min(within(n))][n]
      last(n)   == diffs[Max(within(n))][n]
      visible(n) ==
        /\ within(n) # {}
        /\ ~(first(n).op = "add" /\ last(n).op = "rem")
        /\ (first(n).op # "add" /\ last(n).op # "rem") => first(n).old # last(n).new
  IN  [n \in {n \in NodeId : visible(n)} |-> NetRow(first(n), last(n))]

-----------------------------------------------------------------------------
(* Properties.                                                             *)

SnapshotId == 1..MaxSnapshot

IsSnapshot(r) ==
  /\ r = [hash |-> r.hash, parent |-> r.parent, root |-> r.root]
  /\ r.parent \in 0..MaxSnapshot
  /\ r.root \in Root \cup {NoRoot}

\* The tables have the shape the migrations give them; every snapshot keeps its diff rows.
TypeOK ==
  /\ IsGraph(nodes)
  /\ DOMAIN snaps \subseteq SnapshotId
  /\ \A s \in DOMAIN snaps : IsSnapshot(snaps[s])
  /\ DOMAIN diffs = DOMAIN snaps
  /\ \A s \in DOMAIN diffs : IsTable(diffs[s], DiffRow)
  /\ DOMAIN world = DOMAIN snaps
  /\ \A s \in DOMAIN world : IsGraph(world[s])
  /\ head \in 0..MaxSnapshot
  /\ seq \in 0..MaxSnapshot

Earlier(s) == {r \in DOMAIN snaps \cup {0} : r < s}

PreviousOf(s) == Max(Earlier(s))

WorldAt(s) == IF s = 0 THEN EmptyGraph ELSE world[s]

\* Snapshots form a linear parent chain that ends at HEAD, through every kind of call and
\* through a pruning rollback: each one's parent is the snapshot that survives just before
\* it, and HEAD is the newest id, which is what Rollback's "ahead of HEAD" test relies on.
LinearChain ==
  /\ head = seq
  /\ head # 0 => head \in DOMAIN snaps
  /\ \A s \in DOMAIN snaps : s <= head /\ snaps[s].parent = PreviousOf(s)

\* No two snapshots have the same cursor_hash, whatever content state is revisited: the
\* UNIQUE constraint never refuses a call.
UniqueCursor == \A s, r \in DOMAIN snaps : snaps[s].hash = snaps[r].hash => s = r

\* The node table is a forest: every row hangs from a root, through parents that exist,
\* after cascades, promotions and rollbacks in identifier order.
Rooted == Cascade(nodes, {n \in DOMAIN nodes : nodes[n].parent = NoNode}) = DOMAIN nodes

\* The compile root of the last row of n before s, if there is one.
RootBefore(s, n) ==
  LET before == {r \in SnapshotsTouching(n) : r < s}
  IN  IF before = {} THEN None ELSE snaps[Max(before)].root

\* Snapshots no compile made, and compiles of nodes that compiles of that root wrote last.
KnowsItsNodes(s) ==
  LET before == WorldAt(PreviousOf(s)) IN
  \/ snaps[s].root = NoRoot
  \/ \A n \in DOMAIN before : HomeFile[n] \in File =>
        before[n].file = HomeFile[n] /\ RootBefore(s, n) = snaps[s].root

\* A rollback that prunes hashes the head it replaces, which is not the snapshot before it.
Prunes(s) == snaps[s].hash.prev # PreviousOf(s)

\* A rollback that reached its target, through no snapshot that pruned: the rows of one that
\* did start from a table that is gone, and can name nodes the target never had.
Reaches(s, target) ==
  /\ world[s] = world[target]
  /\ \A r \in DOMAIN snaps : target < r /\ r < s => ~Prunes(r)

\* A snapshot whose rows are all that changed since the one before: one that knew its nodes,
\* pruned nothing, and reached its target if it was a rollback.
Exact(s) ==
  /\ KnowsItsNodes(s)
  /\ ~Prunes(s)
  /\ snaps[s].hash.target # 0 => Reaches(s, snaps[s].hash.target)

ExactBetween(from, to) == \A s \in DOMAIN snaps : from < s /\ s <= to => Exact(s)

\* Undoing the rows of a snapshot gives exactly the node table before it: no row was lost to
\* a cascade, none has a stale pre-state.
StepReversible == \A s \in DOMAIN diffs : Exact(s) => Undo(world[s], diffs[s]) = WorldAt(PreviousOf(s))

\* RestoreToSnapshot recovers the node table a snapshot committed, however long the walk over
\* exact snapshots and whatever calls lie between, cascades, promotions and rollbacks included.
RestoreExact == \A s \in DOMAIN snaps : ExactBetween(s, head) => RestoreToSnapshot(s) = world[s]

\* "Compute the node set at targetID by reverse-walking diffs from HEAD", for every snapshot.
RestoreEverywhere == \A s \in DOMAIN snaps : RestoreToSnapshot(s) = world[s]

\* MemoryDiff reports exactly the difference of the two states, and intermediate jitter
\* collapses, cascades, promotions and rollbacks included.
NetChangeExact ==
  \A to \in DOMAIN snaps : \A from \in Earlier(to) : ExactBetween(from, to) =>
     ConsolidateDiffs(from, to) =
       DiffFlat(WorldAt(to), ContentsOf(WorldAt(from), DOMAIN WorldAt(from)))

RollbackStep(s) == \E d \in BOOLEAN : Rollback(s, d)

\* No node has moved to another parent since the snapshot.
SamePlaces(s) ==
  \A n \in DOMAIN nodes \cap DOMAIN world[s] : nodes[n].parent = world[s][n].parent

\* A rollback that commits leaves exactly the node table of its target, although it applies
\* its deltas in the order of identifiers and every removal cascades, unless nodes moved.
RollbackLands ==
  [][\A s \in DOMAIN snaps :
       ExactBetween(s, head) /\ SamePlaces(s) /\ RollbackStep(s) => nodes' = world[s]]_vars

\* "MemoryRollback walks the graph back to a prior snapshot", over exact snapshots.
RollbackAlwaysLands ==
  [][\A s \in DOMAIN snaps : ExactBetween(s, head) /\ RollbackStep(s) => nodes' = world[s]]_vars

\* History is never rewritten: a snapshot's row and its diffs never change, and what a
\* pruning rollback deletes is a tail of the history, up to HEAD.
TrailStep ==
  /\ \A s \in DOMAIN snaps \cap DOMAIN snaps' : snaps'[s] = snaps[s] /\ diffs'[s] = diffs[s]
  /\ \A s \in DOMAIN snaps : s \notin DOMAIN snaps' =>
        \A r \in DOMAIN snaps : r >= s => r \notin DOMAIN snaps'

HistoryKept == [][TrailStep]_vars

\* What a snapshot is made of.
Entries ==
  [s \in DOMAIN snaps |->
     [parent |-> snaps[s].parent, hash |-> snaps[s].hash, root |-> snaps[s].root,
      rows |-> diffs[s], stored |-> world[s]]]

Log == INSTANCE SnapshotLog WITH Empty <- EmptyGraph, log <- Entries, stored <- nodes

\* The trail implements a log that is only added to, or cut back and added to: entries keep
\* their rows, each hangs from the one before, and the node table is always what the newest
\* one committed.
LogRefined == Log!Spec
=============================================================================
