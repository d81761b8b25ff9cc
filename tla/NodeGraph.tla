----------------------------- MODULE NodeGraph -----------------------------
(***************************************************************************)
(* The node table of the store and the pure operators every mutation of it *)
(* is built from, on top of NodeTree: what the parser hands over, the       *)
(* per-node diff rows of one snapshot, and how a row is undone.             *)
(*                                                                         *)
(* A node identifier is a hash of (source file, parent, sibling index), so  *)
(* the place of a parsed node is a function of its identifier: HomeParent,  *)
(* HomeFile and Elder.  Identifiers are numbers because the order of the    *)
(* hashes is visible (removals and rollback deltas are applied in it); the  *)
(* order has nothing to do with the tree, so a configuration may number a   *)
(* tree as it likes.  The content hash stands for the content it hashes:    *)
(* collisions of xxhash64 are not modelled.                                 *)
(***************************************************************************)
EXTENDS Integers, FiniteSets, Functions, NodeTree

CONSTANTS
  NodeCount,     \* node identifiers are 1..NodeCount
  Content,       \* what a node can hold
  File,          \* keys of parsed source files
  WriteFile,     \* the source_file of a node created by MemoryWrite
  HomeParent,    \* parent of each identifier in its source file, or NoNode
  HomeFile,      \* the file an identifier is derived from, or WriteFile
  Elder,         \* the sibling just before it, or NoNode
  PayloadNode,   \* identifier MemoryWrite derives from a payload
  None           \* a NULL column

NodeId == 1..NodeCount

ASSUME NodeCountAssumption == NodeCount \in Nat

ASSUME FileAssumption == WriteFile \notin File /\ None \notin Content

ASSUME HomeAssumption ==
  /\ HomeParent \in [NodeId -> NodeId \cup {NoNode}]
  /\ HomeFile \in [NodeId -> File \cup {WriteFile}]
  /\ Elder \in [NodeId -> NodeId \cup {NoNode}]
  /\ PayloadNode \in [Content -> NodeId]

\* A parent, and an elder sibling, is derived from the same file, and both
\* come first in the file.
ASSUME HomeTreeAssumption ==
  \E rank \in [NodeId -> NodeId] : \A n \in NodeId : \A p \in {HomeParent[n], Elder[n]} :
     p # NoNode => HomeFile[p] = HomeFile[n] /\ rank[p] < rank[n]

\* Identifiers hashed from a payload are not identifiers of a file, and have no place.
ASSUME PayloadAssumption ==
  /\ \A c \in Content : HomeFile[PayloadNode[c]] = WriteFile
  /\ \A n \in NodeId : HomeFile[n] = WriteFile => HomeParent[n] = NoNode

(***************************************************************************)
(* The node table: a function from the identifiers that have a row.        *)
(***************************************************************************)
NodeRow == [parent : NodeId \cup {NoNode}, file : File \cup {WriteFile}, content : Content]

IsTable(f, row) == DOMAIN f \subseteq NodeId /\ f \in [DOMAIN f -> row]

IsGraph(g) == IsTable(g, NodeRow)

EmptyGraph == [n \in {} |-> None]

(***************************************************************************)
(* What parsing a set of files can yield: a parent has its children only   *)
(* if it is there itself, and siblings are numbered without gaps.          *)
(***************************************************************************)
ParsedSets(fs) ==
  {S \in SUBSET {n \in NodeId : HomeFile[n] \in fs} :
     \A n \in S : {HomeParent[n], Elder[n]} \subseteq S \cup {NoNode}}

Parses(fs) ==
  UNION {{[n \in S |-> [parent |-> HomeParent[n], file |-> HomeFile[n], content |-> c[n]]]
             : c \in [S -> Content]} : S \in ParsedSets(fs)}

(***************************************************************************)
(* Deltas and diff rows.  A delta list names a node once, so a list is a   *)
(* function on node identifiers; a row adds the pre-state columns.         *)
(***************************************************************************)
NodeMeta == [parent : NodeId \cup {NoNode}, file : File \cup {WriteFile}]

\* NULL old_* columns are told from columns that hold a place.
ASSUME NullAssumption == None \notin NodeMeta

\* An addition has no old side, a removal no new one.
DiffRow ==
  [op : {"add"}, old : {None}, new : Content, meta : {None}]
    \cup [op : {"mod"}, old : Content, new : Content, meta : NodeMeta \cup {None}]
    \cup [op : {"rem"}, old : Content, new : {None}, meta : NodeMeta \cup {None}]

Added(c) == [op |-> "add", old |-> None, new |-> c]
Modified(c, d) == [op |-> "mod", old |-> c, new |-> d]
Removed(c) == [op |-> "rem", old |-> c, new |-> None]

WithOp(ds, ops) == {n \in DOMAIN ds : ds[n].op \in ops}

\* prev maps the identifiers the engine believes are stored to their content.
DiffFlat(t, prev) ==
  [n \in {n \in DOMAIN t \cup DOMAIN prev :
            ~(n \in DOMAIN t /\ n \in DOMAIN prev /\ prev[n] = t[n].content)}
     |-> IF n \notin DOMAIN prev THEN Added(t[n].content)
         ELSE IF n \in DOMAIN t THEN Modified(prev[n], t[n].content)
         ELSE Removed(prev[n])]

ContentsOf(g, S) == [n \in S |-> g[n].content]

MetaOf(row) == [parent |-> row.parent, file |-> row.file]

\* Mutant: pre-state kept for modifications only.
PreStateOfMods(g, ds, n) ==
  IF ds[n].op = "mod" /\ n \in DOMAIN g THEN MetaOf(g[n]) ELSE None

\* capturePreState / SetOldMetadata: the columns of the row the delta replaces.
PreState(g, ds, n) ==
  IF ds[n].op # "add" /\ n \in DOMAIN g THEN MetaOf(g[n]) ELSE None

RowsFor(g, ds) ==
  [n \in DOMAIN ds |-> [op |-> ds[n].op, old |-> ds[n].old, new |-> ds[n].new,
                        meta |-> PreState(g, ds, n)]]

\* emit applies the upserts of a delta list before its removals.
ApplyDeltas(g, t, ds) == Drop(Put(g, t, WithOp(ds, {"add", "mod"})), WithOp(ds, {"rem"}))

\* Each upsert's parent must have a row by then; the list is parent-first.
UpsertsAccepted(g, t, ds) ==
  \A n \in WithOp(ds, {"add", "mod"}) :
     t[n].parent \in DOMAIN g \cup WithOp(ds, {"add", "mod"}) \cup {NoNode}

(***************************************************************************)
(* reverseApplyDiff, for the rows of one snapshot at once: a row touches   *)
(* its own node only.                                                      *)
(***************************************************************************)
UndoneRow(row, current) ==
  IF row.meta = None THEN [current EXCEPT !.content = row.old]
  ELSE [parent |-> row.meta.parent, file |-> row.meta.file, content |-> row.old]

Undo(g, rows) ==
  LET reborn == {n \in DOMAIN rows : rows[n].op = "rem" /\ rows[n].meta # None}
      kept   == {n \in DOMAIN g : n \in DOMAIN rows => rows[n].op # "add"}
  IN  [n \in kept \cup reborn |->
         IF n \in DOMAIN rows /\ (rows[n].op = "mod" \/ n \in reborn)
         THEN UndoneRow(rows[n], IF n \in DOMAIN g THEN g[n] ELSE None)
         ELSE g[n]]
=============================================================================
