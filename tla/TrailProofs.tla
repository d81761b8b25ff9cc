---------------------------- MODULE TrailProofs ----------------------------
(***************************************************************************)
(* Theorems about VersionTrail, for every tree, every set of calls and any *)
(* number of snapshots. First what the operators of NodeGraph return and   *)
(* preserve. Then the history: its chain, its cursors and the log it       *)
(* implements. Then the tables: their shape, and that they are forests.    *)
(* Then what the diff rows say of the tables a history went through:       *)
(* undoing the rows of a snapshot gives the table before it, the walk back *)
(* recovers every snapshot, a rollback lands where it aimed, and folded    *)
(* rows are net changes.                                                   *)
(*                                                                         *)
(* Last, theorems about SharedTrail, for any number of goroutines and of   *)
(* servers and any way to spread the ones over the others; and about       *)
(* Doctor, for any servers beside it and any damage.                       *)
(***************************************************************************)
EXTENDS Doctor, WellFoundedInduction, TLAPS

-----------------------------------------------------------------------------
(* Induction over the natural numbers, stated for sets.                     *)

\* A set of natural numbers has a least element.
LEMMA LeastNat ==
  ASSUME NEW S \in SUBSET Nat, S # {}
  PROVE  \E m \in S : \A k \in S : m <= k
<1>1. PICK m \in S : \A k \in S : ~(<<k, m>> \in OpToRel(<, Nat))
  BY NatLessThanWellFounded, WFMin
<1>2. \A k \in S : ~(k < m)
  BY <1>1 DEF OpToRel
<1> QED
  BY <1>2

\* A set of natural numbers with 0, and with n + 1 when it has n, is all of Nat.
LEMMA SetInduction ==
  ASSUME NEW S \in SUBSET Nat, 0 \in S, \A n \in S : n + 1 \in S
  PROVE  S = Nat
<1> SUFFICES ASSUME Nat \ S # {} PROVE FALSE
  OBVIOUS
<1>1. PICK m \in Nat \ S : \A k \in Nat \ S : m <= k
  BY LeastNat
<1>2. m # 0 /\ m - 1 \in Nat /\ m - 1 \in S
  BY <1>1
<1> QED
  BY <1>1, <1>2

-----------------------------------------------------------------------------
(* Node tables.                                                            *)

DeltaRow ==
  [op : {"add"}, old : {None}, new : Content]
    \cup [op : {"mod"}, old : Content, new : Content]
    \cup [op : {"rem"}, old : Content, new : {None}]

\* All node tables: IsGraph as a set.
Graphs == UNION {[D -> NodeRow] : D \in SUBSET NodeId}

LEMMA GraphsAre == ASSUME NEW g PROVE g \in Graphs <=> IsGraph(g)
  BY DEF Graphs, IsGraph, IsTable

LEMMA EmptyIsGraph == IsGraph(EmptyGraph)
  BY DEF EmptyGraph, IsGraph, IsTable

LEMMA DropIsGraph ==
  ASSUME NEW g, NEW R, IsGraph(g)
  PROVE  IsGraph(Drop(g, R))
  BY DEF Drop, Restrict, IsGraph, IsTable

LEMMA PutIsGraph ==
  ASSUME NEW g, NEW t, NEW S \in SUBSET NodeId, IsGraph(g), \A n \in S : t[n] \in NodeRow
  PROVE  IsGraph(Put(g, t, S))
  BY DEF Put, IsGraph, IsTable

\* Applying a delta list leaves a node table.
LEMMA ApplyIsGraph ==
  ASSUME NEW g, NEW t, NEW ds, IsGraph(g), IsTable(ds, DeltaRow),
         \A n \in WithOp(ds, {"add", "mod"}) : t[n] \in NodeRow
  PROVE  IsGraph(ApplyDeltas(g, t, ds))
<1>1. WithOp(ds, {"add", "mod"}) \in SUBSET NodeId
  BY DEF WithOp, IsTable
<1>2. IsGraph(Put(g, t, WithOp(ds, {"add", "mod"})))
  BY <1>1, PutIsGraph
<1> QED
  BY <1>2, DropIsGraph DEF ApplyDeltas

\* The rows of a delta list are diff rows.
LEMMA RowsAreRows ==
  ASSUME NEW g, NEW ds, IsGraph(g), IsTable(ds, DeltaRow)
  PROVE  IsTable(RowsFor(g, ds), DiffRow)
<1> SUFFICES ASSUME NEW n \in DOMAIN ds
             PROVE  [op |-> ds[n].op, old |-> ds[n].old, new |-> ds[n].new,
                     meta |-> PreState(g, ds, n)] \in DiffRow
  BY DEF RowsFor, IsTable
<1>1. ds[n] \in DeltaRow
  BY DEF IsTable
<1>2. n \in DOMAIN g => MetaOf(g[n]) \in NodeMeta
  BY DEF IsGraph, IsTable, NodeRow, MetaOf, NodeMeta
<1>3. PreState(g, ds, n) \in NodeMeta \cup {None}
  BY <1>2 DEF PreState
<1>4. CASE ds[n].op = "add"
  BY <1>1, <1>4 DEF DeltaRow, DiffRow, PreState
<1>5. CASE ds[n].op = "mod"
  BY <1>1, <1>3, <1>5 DEF DeltaRow, DiffRow
<1>6. CASE ds[n].op = "rem"
  BY <1>1, <1>3, <1>6 DEF DeltaRow, DiffRow
<1> QED
  BY <1>1, <1>4, <1>5, <1>6 DEF DeltaRow

\* Comparing a parse with what is stored gives a delta list.
LEMMA DiffIsDeltas ==
  ASSUME NEW t, NEW prev, DOMAIN t \cup DOMAIN prev \subseteq NodeId,
         \A n \in DOMAIN t : t[n].content \in Content,
         \A n \in DOMAIN prev : prev[n] \in Content
  PROVE  /\ IsTable(DiffFlat(t, prev), DeltaRow)
         /\ WithOp(DiffFlat(t, prev), {"add", "mod"}) \subseteq DOMAIN t
<1>1. IsTable(DiffFlat(t, prev), DeltaRow)
  BY DEF DiffFlat, IsTable, DeltaRow, Added, Modified, Removed
<1>2. WithOp(DiffFlat(t, prev), {"add", "mod"}) \subseteq DOMAIN t
  BY DEF DiffFlat, WithOp, Added, Modified, Removed
<1> QED
  BY <1>1, <1>2

\* Undoing the rows of a snapshot leaves a node table.
LEMMA UndoIsGraph ==
  ASSUME NEW g, NEW rows, IsGraph(g), IsTable(rows, DiffRow)
  PROVE  IsGraph(Undo(g, rows))
<1> DEFINE reborn == {n \in DOMAIN rows : rows[n].op = "rem" /\ rows[n].meta # None}
           kept   == {n \in DOMAIN g : n \in DOMAIN rows => rows[n].op # "add"}
           undone(n) == IF n \in DOMAIN rows /\ (rows[n].op = "mod" \/ n \in reborn)
                        THEN UndoneRow(rows[n], IF n \in DOMAIN g THEN g[n] ELSE None)
                        ELSE g[n]
<1>1. Undo(g, rows) = [n \in kept \cup reborn |-> undone(n)]
  BY DEF Undo
<1>2. kept \cup reborn \subseteq NodeId
  BY DEF IsGraph, IsTable
<1>3. ASSUME NEW n \in kept \cup reborn PROVE undone(n) \in NodeRow
  <2>1. CASE ~(n \in DOMAIN rows /\ (rows[n].op = "mod" \/ n \in reborn))
    BY <2>1 DEF IsGraph, IsTable
  <2>2. CASE n \in DOMAIN rows /\ (rows[n].op = "mod" \/ n \in reborn)
    <3>1. rows[n] \in DiffRow /\ rows[n].old \in Content
      BY <2>2 DEF IsTable, DiffRow
    <3>2. CASE rows[n].meta = None
      <4>1. n \in DOMAIN g /\ g[n] \in NodeRow
        BY <2>2, <3>2 DEF IsGraph, IsTable
      <4> QED
        BY <2>2, <3>1, <3>2, <4>1 DEF UndoneRow, NodeRow
    <3>3. CASE rows[n].meta # None
      <4>1. rows[n].meta \in NodeMeta
        BY <2>2, <3>1, <3>3 DEF DiffRow
      <4> QED
        BY <2>2, <3>1, <3>3, <4>1 DEF UndoneRow, NodeRow, NodeMeta
    <3> QED
      BY <3>2, <3>3
  <2> QED
    BY <2>1, <2>2
<1> HIDE DEF kept, reborn, undone
<1> QED
  BY <1>1, <1>2, <1>3 DEF IsGraph, IsTable

-----------------------------------------------------------------------------
(* Cascades.                                                               *)

\* A cascade has what it starts from, and everything below.
LEMMA CascadeCloses ==
  ASSUME NEW g, NEW R
  PROVE  /\ Cascade(g, R) \subseteq DOMAIN g
         /\ R \cap DOMAIN g \subseteq Cascade(g, R)
         /\ ClosedBelow(g, Cascade(g, R))
  BY DEF Cascade, ClosedBelow

\* It is the least such set.
LEMMA CascadeLeast ==
  ASSUME NEW g, NEW R, NEW C \in SUBSET DOMAIN g, R \cap DOMAIN g \subseteq C, ClosedBelow(g, C)
  PROVE  Cascade(g, R) \subseteq C
  BY DEF Cascade

\* Rows with nothing below them but each other are all that is deleted with them.
LEMMA CascadeOfClosed ==
  ASSUME NEW g, NEW R \in SUBSET DOMAIN g, ClosedBelow(g, R)
  PROVE  Cascade(g, R) = R
  BY CascadeCloses, CascadeLeast

LEMMA DropOfClosed ==
  ASSUME NEW g, NEW R \in SUBSET DOMAIN g, ClosedBelow(g, R)
  PROVE  Drop(g, R) = [n \in DOMAIN g \ R |-> g[n]]
  BY CascadeOfClosed DEF Drop, Restrict

\* A delete takes rows away, its own for sure, and leaves the others as they were.
LEMMA DropKeepsRows ==
  ASSUME NEW g, NEW R
  PROVE  /\ DOMAIN Drop(g, R) \subseteq DOMAIN g
         /\ \A n \in DOMAIN Drop(g, R) : n \notin R /\ Drop(g, R)[n] = g[n]
  BY CascadeCloses DEF Drop, Restrict

-----------------------------------------------------------------------------
(* Tables whose parents are there.                                         *)

IsFun(f) == f = [x \in DOMAIN f |-> f[x]]

\* A table of nodes whose parents are there.
Sound(g) == IsFun(g) /\ FKIntact(g)

\* A delete keeps the foreign keys: whatever hangs from a deleted row goes with it.
LEMMA DropSound ==
  ASSUME NEW g, NEW R, FKIntact(g)
  PROVE  Sound(Drop(g, R))
<1> DEFINE gone == Cascade(g, R)
<1>1. gone \subseteq DOMAIN g
  BY DEF Cascade
<1>2. \A n \in DOMAIN g : g[n].parent \in gone => n \in gone
  BY DEF Cascade, ClosedBelow
<1>3. Drop(g, R) = [n \in DOMAIN g \ gone |-> g[n]]
  BY DEF Drop, Restrict
<1> HIDE DEF gone
<1>4. \A n \in DOMAIN g \ gone : g[n].parent \in (DOMAIN g \ gone) \cup {NoNode}
  BY <1>2 DEF FKIntact
<1> QED
  BY <1>3, <1>4 DEF Sound, IsFun, FKIntact

\* So does a delta list whose upserts have their parents.
LEMMA ApplySound ==
  ASSUME NEW g, NEW t, NEW ds, FKIntact(g), UpsertsAccepted(g, t, ds)
  PROVE  Sound(ApplyDeltas(g, t, ds))
<1>1. FKIntact(Put(g, t, WithOp(ds, {"add", "mod"})))
  BY DEF FKIntact, Put, UpsertsAccepted
<1> QED
  BY <1>1, DropSound DEF ApplyDeltas

-----------------------------------------------------------------------------
(* Places.  Promotion, and the rollback of one, leave a node below a node   *)
(* that was above its parent, so a stored place is the identifier's own     *)
(* file and, when there is a parent, an ancestor in that file.              *)

\* p is in every set that has the parent of n, and the parent of each of its members.
Above(n, p) ==
  /\ HomeParent[n] # NoNode
  /\ \A S \in SUBSET NodeId :
        HomeParent[n] \in S /\ (\A m \in S : HomeParent[m] \in S \cup {NoNode}) => p \in S

Placed(n, place) ==
  /\ place.file \in {HomeFile[n], WriteFile}
  /\ place.parent # NoNode => place.file = HomeFile[n] /\ Above(n, place.parent)

AllPlaced(g) == \A n \in DOMAIN g : Placed(n, g[n])

LEMMA NoNodeOutside == NoNode \notin NodeId
  BY NodeCountAssumption DEF NodeId, NoNode

LEMMA AboveParent ==
  ASSUME NEW n \in NodeId, HomeParent[n] # NoNode
  PROVE  Above(n, HomeParent[n])
  BY DEF Above

\* A parent in a set closed under parents has all that is above in it.
LEMMA AboveIn ==
  ASSUME NEW n \in NodeId, NEW p, Above(n, p), NEW S \in SUBSET NodeId,
         HomeParent[n] \in S, \A m \in S : HomeParent[m] \in S \cup {NoNode}
  PROVE  p \in S
  BY DEF Above

LEMMA AboveTransitive ==
  ASSUME NEW n \in NodeId, NEW p, NEW q, Above(n, p), Above(p, q)
  PROVE  Above(n, q)
<1> SUFFICES ASSUME NEW S \in SUBSET NodeId, HomeParent[n] \in S,
                    \A m \in S : HomeParent[m] \in S \cup {NoNode}
             PROVE  q \in S
  BY DEF Above
<1>1. p \in S
  BY AboveIn
<1>2. HomeParent[p] \in S
  BY <1>1 DEF Above
<1> QED
  BY <1>1, <1>2, AboveIn

\* What is above a node comes before it in the same file.
LEMMA AboveOrder ==
         \E rank \in [NodeId -> NodeId] :
           \A n \in NodeId : \A p \in NodeId :
             Above(n, p) => rank[p] < rank[n] /\ HomeFile[p] = HomeFile[n]
<1>1. PICK rank \in [NodeId -> NodeId] : \A n \in NodeId : \A p \in {HomeParent[n], Elder[n]} :
        p # NoNode => HomeFile[p] = HomeFile[n] /\ rank[p] < rank[n]
  BY HomeTreeAssumption
<1>2. \A m \in NodeId : rank[m] \in Int
  BY DEF NodeId
<1>3. \A m \in NodeId : HomeParent[m] \in NodeId \cup {NoNode}
  BY HomeAssumption
<1> SUFFICES ASSUME NEW n \in NodeId, NEW p \in NodeId, Above(n, p)
             PROVE  rank[p] < rank[n] /\ HomeFile[p] = HomeFile[n]
  OBVIOUS
<1> DEFINE S == {m \in NodeId : rank[m] < rank[n] /\ HomeFile[m] = HomeFile[n]}
<1>4. HomeParent[n] \in S
  BY <1>1, <1>3 DEF Above
<1>5. \A m \in S : HomeParent[m] \in S \cup {NoNode}
  BY <1>1, <1>2, <1>3
<1>6. S \in SUBSET NodeId
  OBVIOUS
<1> HIDE DEF S
<1>7. p \in S
  BY <1>4, <1>5, <1>6, AboveIn
<1> QED
  BY <1>7 DEF S

\* The children of a removed node go below what it was below.
LEMMA PromotionPlaces ==
  ASSUME NEW c \in NodeId, NEW n \in NodeId, NEW row, NEW above,
         Placed(c, row), row.parent = n, Placed(n, above)
  PROVE  above.parent # NoNode => row.file = HomeFile[c] /\ Above(c, above.parent)
<1>1. row.file = HomeFile[c] /\ Above(c, n)
  BY NoNodeOutside DEF Placed
<1> QED
  BY <1>1, AboveTransitive DEF Placed

\* Placed rows whose parents are there form a forest.
LEMMA PlacedIsForest ==
  ASSUME NEW g, DOMAIN g \subseteq NodeId, AllPlaced(g), FKIntact(g)
  PROVE  Cascade(g, {n \in DOMAIN g : g[n].parent = NoNode}) = DOMAIN g
<1> DEFINE roots == {n \in DOMAIN g : g[n].parent = NoNode}
           C == Cascade(g, roots)
<1>1. C \subseteq DOMAIN g /\ roots \subseteq C /\ ClosedBelow(g, C)
  <2>1. roots \subseteq DOMAIN g
    OBVIOUS
  <2> HIDE DEF roots
  <2> QED
    BY <2>1, CascadeCloses
<1> SUFFICES ASSUME DOMAIN g \ C # {} PROVE FALSE
  BY <1>1
<1> HIDE DEF C
<1>2. PICK rank \in [NodeId -> NodeId] : \A n \in NodeId : \A p \in NodeId :
        Above(n, p) => rank[p] < rank[n] /\ HomeFile[p] = HomeFile[n]
  BY AboveOrder
<1> DEFINE ranks == {rank[n] : n \in DOMAIN g \ C}
<1>3. ranks \in SUBSET Nat /\ ranks # {}
  BY DEF NodeId
<1>4. PICK least \in ranks : \A k \in ranks : least <= k
  <2> HIDE DEF ranks
  <2> QED
    BY <1>3, LeastNat
<1>5. PICK n \in DOMAIN g \ C : \A m \in DOMAIN g \ C : rank[n] <= rank[m]
  BY <1>4
<1>6. g[n].parent # NoNode
  BY <1>1, <1>5
<1>7. g[n].parent \in DOMAIN g /\ Above(n, g[n].parent)
  BY <1>5, <1>6 DEF FKIntact, AllPlaced, Placed
<1>8. g[n].parent \notin C
  BY <1>1, <1>5 DEF ClosedBelow
<1>9. rank[g[n].parent] < rank[n] /\ rank[n] <= rank[g[n].parent]
  BY <1>2, <1>5, <1>7, <1>8
<1>10. rank[g[n].parent] \in Int /\ rank[n] \in Int
  BY <1>5, <1>7 DEF NodeId
<1> QED
  BY <1>9, <1>10

-----------------------------------------------------------------------------
(* Diff rows that tell all that changed from g to h.                       *)

RowExact(g, h, n, row) ==
  \/ row.op = "add" /\ n \notin DOMAIN g /\ n \in DOMAIN h /\ row.new = h[n].content
  \/ /\ row.op = "mod" /\ n \in DOMAIN g /\ n \in DOMAIN h
     /\ row.old = g[n].content /\ row.new = h[n].content /\ row.meta = MetaOf(g[n])
  \/ /\ row.op = "rem" /\ n \in DOMAIN g /\ n \notin DOMAIN h
     /\ row.old = g[n].content /\ row.meta = MetaOf(g[n])

Unchanged(g, h, n) == (n \in DOMAIN g <=> n \in DOMAIN h) /\ (n \in DOMAIN g => h[n] = g[n])

RowsExact(g, h, rows) ==
  \A n \in NodeId : IF n \in DOMAIN rows THEN RowExact(g, h, n, rows[n]) ELSE Unchanged(g, h, n)

\* Less: no node appears without a row that says so, and what a row removes was there.
RowsTell(g, h, rows) ==
  /\ \A n \in DOMAIN h : n \in DOMAIN g \/ (n \in DOMAIN rows /\ rows[n].op = "add")
  /\ \A n \in DOMAIN rows : rows[n].op = "rem" /\ rows[n].meta # None => n \in DOMAIN g

\* Undoing exact rows gives the table they start from.
LEMMA ExactRowsUndo ==
  ASSUME NEW g, NEW h, NEW rows, IsGraph(g), DOMAIN h \subseteq NodeId, DOMAIN rows \subseteq NodeId,
         RowsExact(g, h, rows)
  PROVE  Undo(h, rows) = g
<1> DEFINE reborn == {n \in DOMAIN rows : rows[n].op = "rem" /\ rows[n].meta # None}
           kept   == {n \in DOMAIN h : n \in DOMAIN rows => rows[n].op # "add"}
           undone(n) == IF n \in DOMAIN rows /\ (rows[n].op = "mod" \/ n \in reborn)
                        THEN UndoneRow(rows[n], IF n \in DOMAIN h THEN h[n] ELSE None)
                        ELSE h[n]
<1>1. Undo(h, rows) = [n \in kept \cup reborn |-> undone(n)]
  BY DEF Undo
<1>2. \A n \in DOMAIN g : g[n] \in NodeRow /\ n \in NodeId /\ MetaOf(g[n]) # None
  BY NullAssumption DEF IsGraph, IsTable, NodeRow, MetaOf, NodeMeta
<1>3. kept \cup reborn = DOMAIN g
  <2>1. ASSUME NEW n \in kept \cup reborn PROVE n \in DOMAIN g
    BY <2>1 DEF RowsExact, RowExact, Unchanged
  <2>2. ASSUME NEW n \in DOMAIN g PROVE n \in kept \cup reborn
    BY <1>2, <2>2 DEF RowsExact, RowExact, Unchanged
  <2> QED
    BY <2>1, <2>2
<1>4. ASSUME NEW n \in DOMAIN g PROVE undone(n) = g[n]
  <2>1. n \in NodeId /\ MetaOf(g[n]) # None
        /\ g[n] = [parent |-> g[n].parent, file |-> g[n].file, content |-> g[n].content]
    BY <1>2 DEF NodeRow
  <2>2. CASE n \notin DOMAIN rows
    BY <2>1, <2>2 DEF RowsExact, Unchanged
  <2>3. CASE n \in DOMAIN rows
    <3>1. /\ rows[n].op \in {"mod", "rem"}
          /\ rows[n].old = g[n].content /\ rows[n].meta = MetaOf(g[n])
      BY <2>1, <2>3 DEF RowsExact, RowExact
    <3>2. UndoneRow(rows[n], IF n \in DOMAIN h THEN h[n] ELSE None) = g[n]
      BY <2>1, <3>1 DEF UndoneRow, MetaOf
    <3> QED
      BY <2>1, <2>3, <3>1, <3>2
  <2> QED
    BY <2>2, <2>3
<1>5. g = [n \in DOMAIN g |-> g[n]]
  BY DEF IsGraph, IsTable
<1> HIDE DEF kept, reborn, undone
<1> QED
  BY <1>1, <1>3, <1>4, <1>5

\* A delta list that says of each node what is stored of it.
Faithful(g, ds) ==
  \A n \in DOMAIN ds : /\ ds[n].op = "add" <=> n \notin DOMAIN g
                       /\ ds[n].op # "add" => ds[n].old = g[n].content

\* The rows of a faithful list are exact, if what it removes has nothing else below it.
LEMMA FaithfulIsExact ==
  ASSUME NEW g, NEW t, NEW ds, IsGraph(g), IsTable(ds, DeltaRow), Faithful(g, ds),
         \A n \in WithOp(ds, {"add", "mod"}) : t[n].content = ds[n].new,
         ClosedBelow(Put(g, t, WithOp(ds, {"add", "mod"})), WithOp(ds, {"rem"}))
  PROVE  RowsExact(g, ApplyDeltas(g, t, ds), RowsFor(g, ds))
<1> DEFINE ups == WithOp(ds, {"add", "mod"})
           rems == WithOp(ds, {"rem"})
           put == Put(g, t, ups)
           h == ApplyDeltas(g, t, ds)
           rows == RowsFor(g, ds)
<1>1. DOMAIN put = DOMAIN g \cup ups /\ \A n \in DOMAIN put : put[n] = IF n \in ups THEN t[n] ELSE g[n]
  BY DEF Put
<1>2. \A n \in DOMAIN ds : ds[n].op \in {"add", "mod", "rem"}
  BY DEF IsTable, DeltaRow
<1>3. rems \in SUBSET DOMAIN put /\ ups \cap rems = {} /\ ups \cup rems = DOMAIN ds
  BY <1>1, <1>2 DEF WithOp, Faithful
<1>4. h = [n \in DOMAIN put \ rems |-> put[n]]
  <2> HIDE DEF put, rems, ups
  <2>1. h = Drop(put, rems)
    BY DEF ApplyDeltas, put, rems, ups
  <2> QED
    BY <1>3, <2>1, DropOfClosed DEF put, rems, ups
<1>5. /\ DOMAIN rows = DOMAIN ds
      /\ \A n \in DOMAIN ds : /\ rows[n].op = ds[n].op /\ rows[n].old = ds[n].old
                              /\ rows[n].new = ds[n].new /\ rows[n].meta = PreState(g, ds, n)
  BY DEF RowsFor
<1> HIDE DEF h, rows, put
<1>6. DOMAIN h = (DOMAIN g \cup ups) \ rems /\ \A n \in DOMAIN h : h[n] = IF n \in ups THEN t[n] ELSE g[n]
  BY <1>1, <1>4
<1>7. ASSUME NEW n \in DOMAIN ds PROVE RowExact(g, h, n, rows[n])
  <2>1. CASE ds[n].op = "add"
    BY <1>3, <1>5, <1>6, <2>1 DEF Faithful, WithOp, RowExact
  <2>2. CASE ds[n].op = "mod"
    BY <1>3, <1>5, <1>6, <2>2 DEF Faithful, WithOp, RowExact, PreState
  <2>3. CASE ds[n].op = "rem"
    BY <1>3, <1>5, <1>6, <2>3 DEF Faithful, WithOp, RowExact, PreState
  <2> QED
    BY <1>2, <2>1, <2>2, <2>3
<1>8. ASSUME NEW n \in NodeId, n \notin DOMAIN ds PROVE Unchanged(g, h, n)
  BY <1>3, <1>6, <1>8 DEF Unchanged
<1>9. RowsExact(g, h, rows)
  BY <1>5, <1>7, <1>8 DEF RowsExact
<1> QED
  BY <1>9 DEF h, rows

\* The rows of a list that modifies and removes only what is stored.
LEMMA AppliedRowsTell ==
  ASSUME NEW g, NEW t, NEW ds, IsTable(ds, DeltaRow),
         \A n \in DOMAIN ds : ds[n].op # "add" => n \in DOMAIN g
  PROVE  RowsTell(g, ApplyDeltas(g, t, ds), RowsFor(g, ds))
<1>1. DOMAIN ApplyDeltas(g, t, ds) \subseteq DOMAIN g \cup WithOp(ds, {"add", "mod"})
  BY DropKeepsRows DEF ApplyDeltas, Put
<1>2. /\ DOMAIN RowsFor(g, ds) = DOMAIN ds
      /\ \A n \in DOMAIN ds : RowsFor(g, ds)[n].op = ds[n].op
  BY DEF RowsFor
<1> QED
  BY <1>1, <1>2 DEF RowsTell, WithOp

-----------------------------------------------------------------------------
(* The snapshot chain.                                                     *)

\* What a step does to the tables of the trail: it lands one snapshot on top of all the
\* others, or of those a pruning rollback leaves.
TailStep(parent, survivors) ==
  \/ survivors = DOMAIN snaps /\ parent = head
  \/ \E t \in DOMAIN snaps :
       t < head /\ survivors = DOMAIN snaps \ {s \in DOMAIN snaps : s > t} /\ parent = t

Lands == \E g, rows, hash, root, parent, survivors :
           TailStep(parent, survivors) /\ Land(g, rows, hash, root, parent, survivors)

ChainStep(hash, parent, survivors) == hash.prev = head /\ TailStep(parent, survivors)

LandStep ==
  \E g, rows, hash, root, parent, survivors :
     ChainStep(hash, parent, survivors) /\ Land(g, rows, hash, root, parent, survivors)

\* Every call lands its snapshot through Land, with HEAD folded into its hash.
LEMMA NextLands == Next => LandStep
<1>1. ASSUME NEW ds, NEW t, NEW hash, NEW root, hash.prev = head, Emit(ds, t, hash, root)
      PROVE  LandStep
  <2>1. Land(ApplyDeltas(nodes, t, ds), RowsFor(nodes, ds), hash, root, head, DOMAIN snaps)
    BY <1>1 DEF Emit
  <2>2. ChainStep(hash, head, DOMAIN snaps)
    BY <1>1 DEF ChainStep, TailStep
  <2> QED
    BY <2>1, <2>2 DEF LandStep
<1>2. ASSUME NEW ds, NEW t, EmitChange(ds, t)
      PROVE  LandStep
  <2>1. ChangeHash(head, ds).prev = head
    BY DEF ChangeHash
  <2> QED
    BY <1>2, <2>1, <1>1 DEF EmitChange
<1>3. ASSUME NEW t, NEW known, NEW root, CompileTree(t, known, root)
      PROVE  LandStep
  <2>1. CompileHash(head, t).prev = head
    BY DEF CompileHash
  <2> QED
    BY <1>3, <2>1, <1>1 DEF CompileTree
<1>4. ASSUME NEW target, NEW d \in BOOLEAN, Rollback(target, d)
      PROVE  LandStep
  <2> DEFINE restored == RestoreToSnapshot(target)
             ds == RollbackDeltas(nodes, restored)
             survivors == DOMAIN snaps \ (IF d THEN Pruned(target) ELSE {})
  <2>1. /\ target \in DOMAIN snaps /\ target < head
        /\ Land(ApplyInIdOrder(nodes, restored, ds), RowsFor(nodes, ds),
                RollbackHash(head, target, ds), NoRoot, RollbackParent(target, d), survivors)
    BY <1>4 DEF Rollback
  <2>2. RollbackHash(head, target, ds).prev = head
    BY DEF RollbackHash
  <2>3. ChainStep(RollbackHash(head, target, ds), RollbackParent(target, d), survivors)
    BY <2>1, <2>2 DEF ChainStep, TailStep, RollbackParent, Pruned
  <2> QED
    BY <2>1, <2>3 DEF LandStep
<1> QED
  BY <1>2, <1>3, <1>4
  DEF Next, Write, WriteNode, Summarize, ForgetStrict, ForgetCascade, ForgetReparent,
      CompileDir, CompileFiles, PurgeFiles

\* The inductive strengthening of LinearChain: ids are positive and bounded by
\* AUTOINCREMENT's last one.
TailInv ==
  /\ seq \in Nat
  /\ DOMAIN snaps \subseteq 1..seq
  /\ LinearChain

\* That of UniqueCursor: the HEAD a hash folds in is at least as new as every older snapshot.
ChainInv ==
  /\ TailInv
  /\ \A s \in DOMAIN snaps : snaps[s].hash.prev \in 0..(s - 1)
  /\ \A s, r \in DOMAIN snaps : r < s => r <= snaps[s].hash.prev

LEMMA ChainInit == Init => ChainInv
  BY DEF Init, ChainInv, TailInv, LinearChain

\* Max of a set of integers that has a greatest element.
LEMMA MaxIs ==
  ASSUME NEW S \in SUBSET Int, NEW m \in S, \A x \in S : x <= m
  PROVE  Max(S) = m
<1>1. m \in S /\ \A y \in S : m >= y
  OBVIOUS
<1>2. Max(S) \in S /\ \A y \in S : Max(S) >= y
  BY <1>1 DEF Max
<1>3. Max(S) >= m /\ m >= Max(S) /\ m \in Int /\ Max(S) \in Int
  BY <1>1, <1>2
<1> QED
  BY <1>3

\* A bounded set has a greatest element.
LEMMA MaxOf ==
  ASSUME NEW k \in Nat, NEW S \in SUBSET (0..k), S # {}
  PROVE  Max(S) \in S /\ \A x \in S : x <= Max(S)
<1> DEFINE gaps == {g \in Nat : \E x \in S : g = k - x}
<1>1. \A x \in S : x \in Int /\ k - x \in gaps
  OBVIOUS
<1>2. gaps \in SUBSET Nat /\ gaps # {}
  BY <1>1
<1>3. PICK m \in gaps : \A g \in gaps : m <= g
  <2> HIDE DEF gaps
  <2> QED
    BY <1>2, LeastNat
<1>4. PICK x \in S : m = k - x
  BY <1>3
<1>5. \A y \in S : m <= k - y
  BY <1>1, <1>3
<1>6. S \in SUBSET Int /\ \A y \in S : y <= x
  BY <1>1, <1>4, <1>5
<1> HIDE DEF gaps
<1> QED
  BY <1>4, <1>6, MaxIs

\* What a landed snapshot leaves: itself on top of the survivors, which are all that came
\* before their newest, and keep their rows and their place in the history.
LandedOn(g, rows, entry, parent, survivors, id) ==
  /\ id \notin DOMAIN snaps /\ survivors \subseteq DOMAIN snaps
  /\ \A s \in survivors : s < id /\ s <= parent
  /\ \A s \in survivors : \A r \in DOMAIN snaps : r < s => r \in survivors
  /\ parent \in survivors \cup {0} /\ parent < id
  /\ nodes' = g /\ seq' = id /\ head' = id
  /\ DOMAIN snaps' = survivors \cup {id}
  /\ DOMAIN diffs' = survivors \cup {id}
  /\ DOMAIN world' = survivors \cup {id}
  /\ snaps'[id] = entry /\ diffs'[id] = rows /\ world'[id] = g
  /\ \A s \in survivors : snaps'[s] = snaps[s] /\ diffs'[s] = diffs[s] /\ world'[s] = world[s]
  /\ PreviousOf(id)' = parent
  /\ \A s \in survivors : Earlier(s)' = Earlier(s) /\ PreviousOf(s)' = PreviousOf(s)

LEMMA LandsOnTop ==
  ASSUME TailInv, NEW g, NEW rows, NEW hash, NEW root, NEW parent, NEW survivors,
         TailStep(parent, survivors), Land(g, rows, hash, root, parent, survivors)
  PROVE  \E id \in Nat :
           /\ id = seq + 1
           /\ LandedOn(g, rows, [hash |-> hash, parent |-> parent, root |-> root], parent,
                       survivors, id)
<1>1. head = seq /\ seq \in Nat /\ DOMAIN snaps \subseteq 1..seq
  BY DEF TailInv, LinearChain
<1>2. PICK id \in Nat : id = seq + 1
  BY <1>1
<1>3. /\ nodes' = g /\ seq' = id /\ head' = id
      /\ DOMAIN snaps' = survivors \cup {id}
      /\ DOMAIN diffs' = survivors \cup {id}
      /\ DOMAIN world' = survivors \cup {id}
      /\ snaps'[id] = [hash |-> hash, parent |-> parent, root |-> root]
      /\ diffs'[id] = rows /\ world'[id] = g
      /\ \A s \in survivors :
           s # id => snaps'[s] = snaps[s] /\ diffs'[s] = diffs[s] /\ world'[s] = world[s]
  BY <1>2 DEF Land
<1>4. survivors \subseteq DOMAIN snaps /\ id \notin DOMAIN snaps /\ \A s \in survivors : s < id
  BY <1>1, <1>2 DEF TailStep
<1>5. parent \in survivors \cup {0} /\ \A s \in survivors : s <= parent
  BY <1>1 DEF TailStep, TailInv, LinearChain
<1>6. parent \in Nat /\ parent < id
  BY <1>1, <1>2, <1>4, <1>5
<1>7. \A s \in survivors : \A r \in DOMAIN snaps : r < s => r \in survivors
  BY <1>1 DEF TailStep
<1>8. Earlier(id)' = survivors \cup {0}
  BY <1>1, <1>2, <1>3, <1>4 DEF Earlier
<1>9. PreviousOf(id)' = parent
  <2>1. survivors \cup {0} \in SUBSET Int
    BY <1>1, <1>4
  <2>2. \A x \in survivors \cup {0} : x <= parent
    BY <1>5, <1>6
  <2> QED
    BY <2>1, <2>2, <1>5, <1>8, MaxIs DEF PreviousOf
<1>10. \A s \in survivors : Earlier(s)' = Earlier(s)
  BY <1>1, <1>2, <1>3, <1>4, <1>7 DEF Earlier
<1>11. \A s \in survivors : PreviousOf(s)' = PreviousOf(s)
  BY <1>10 DEF PreviousOf
<1>12. LandedOn(g, rows, [hash |-> hash, parent |-> parent, root |-> root], parent, survivors, id)
  BY <1>3, <1>4, <1>5, <1>6, <1>7, <1>9, <1>10, <1>11 DEF LandedOn
<1> QED
  BY <1>2, <1>12

\* A landed snapshot is on top of all that are left.
LEMMA TailPreserved == TailInv /\ Lands => TailInv'
<1> SUFFICES ASSUME TailInv, Lands PROVE TailInv'
  OBVIOUS
<1>1. PICK g, rows, hash, root, parent, survivors :
        TailStep(parent, survivors) /\ Land(g, rows, hash, root, parent, survivors)
  BY DEF Lands
<1> DEFINE entry == [hash |-> hash, parent |-> parent, root |-> root]
<1>2. PICK id \in Nat : id = seq + 1 /\ LandedOn(g, rows, entry, parent, survivors, id)
  BY <1>1, LandsOnTop
<1>3. head = seq /\ seq \in Nat /\ DOMAIN snaps \subseteq 1..seq
  BY DEF TailInv, LinearChain
<1>4. \A s \in survivors \cup {id} : (s <= head /\ snaps[s].parent = PreviousOf(s))'
  BY <1>2, <1>3 DEF LandedOn, TailInv, LinearChain
<1>5. LinearChain'
  BY <1>2, <1>4 DEF LandedOn, LinearChain
<1>6. DOMAIN snaps' \subseteq 1..seq' /\ seq' \in Nat
  BY <1>2, <1>3 DEF LandedOn
<1> QED
  BY <1>5, <1>6 DEF TailInv

LEMMA ChainPreserved == ChainInv /\ [Next]_vars => ChainInv'
<1> SUFFICES ASSUME ChainInv, [Next]_vars PROVE ChainInv'
  OBVIOUS
<1>1. CASE UNCHANGED vars
  BY <1>1 DEF ChainInv, TailInv, LinearChain, PreviousOf, Earlier, vars
<1>2. CASE Next
  <2>1. PICK g, rows, hash, root, parent, survivors :
          ChainStep(hash, parent, survivors) /\ Land(g, rows, hash, root, parent, survivors)
    BY <1>2, NextLands DEF LandStep
  <2>0. PICK id : id = seq + 1
    OBVIOUS
  <2>2. /\ DOMAIN snaps' = survivors \cup {id}
        /\ snaps'[id] = [hash |-> hash, parent |-> parent, root |-> root]
        /\ \A s \in survivors : s # id => snaps'[s] = snaps[s]
    BY <2>0, <2>1 DEF Land
  <2>3. head = seq /\ seq \in Nat /\ DOMAIN snaps \subseteq 1..seq
    BY DEF ChainInv, TailInv, LinearChain
  <2>4. survivors \subseteq DOMAIN snaps /\ id \notin survivors
    BY <2>0, <2>1, <2>3 DEF ChainStep, TailStep
  <2>5. TailInv'
    BY <2>1, TailPreserved DEF ChainStep, ChainInv, Lands
  <2>6. hash.prev = seq
    BY <2>1, <2>3 DEF ChainStep
  <2>7. \A s \in DOMAIN snaps' : snaps'[s].hash.prev \in 0..(s - 1)
    BY <2>0, <2>2, <2>6, <2>3, <2>4 DEF ChainInv
  <2>8. \A s, r \in DOMAIN snaps' : r < s => r <= snaps'[s].hash.prev
    <3> TAKE s, r \in DOMAIN snaps'
    <3> HAVE r < s
    <3>1. CASE s = id
      BY <3>1, <2>0, <2>2, <2>6, <2>3, <2>4
    <3>2. CASE s # id
      BY <3>2, <2>0, <2>2, <2>3, <2>4 DEF ChainInv
    <3> QED
      BY <3>1, <3>2
  <2> QED
    BY <2>5, <2>7, <2>8 DEF ChainInv
<1> QED
  BY <1>1, <1>2

\* Snapshots form a linear parent chain ending at HEAD, whatever calls are made.
THEOREM ChainLinear == Spec => []LinearChain
<1>1. ChainInv => LinearChain
  BY DEF ChainInv, TailInv
<1> QED
  BY <1>1, ChainInit, ChainPreserved, PTL DEF Spec

\* The UNIQUE constraint on cursor_hash never refuses a snapshot, because each digest
\* folds in a HEAD no other one does.
THEOREM CursorsUnique == Spec => []UniqueCursor
<1>1. ChainInv => UniqueCursor
  <2> SUFFICES ASSUME ChainInv, NEW s \in DOMAIN snaps, NEW r \in DOMAIN snaps,
                      snaps[s].hash = snaps[r].hash, s # r
               PROVE  FALSE
    BY DEF UniqueCursor
  <2>1. s \in Nat /\ r \in Nat
    BY DEF ChainInv, TailInv
  <2>2. CASE r < s
    BY <2>2, <2>1 DEF ChainInv
  <2>3. CASE s < r
    BY <2>3, <2>1 DEF ChainInv
  <2> QED
    BY <2>1, <2>2, <2>3
<1> QED
  BY <1>1, ChainInit, ChainPreserved, PTL DEF Spec

\* Snapshots and their diff rows are never rewritten, and only a tail up to HEAD is pruned.
THEOREM HistoryIsKept == Spec => HistoryKept
<1>1. ChainInv /\ [Next]_vars => [TrailStep]_vars
  <2> SUFFICES ASSUME ChainInv, Next PROVE TrailStep
    BY DEF TrailStep
  <2>1. PICK g, rows, hash, root, parent, survivors :
          ChainStep(hash, parent, survivors) /\ Land(g, rows, hash, root, parent, survivors)
    BY NextLands DEF LandStep
  <2>2. head = seq /\ seq \in Nat /\ DOMAIN snaps \subseteq 1..seq
    BY DEF ChainInv, TailInv, LinearChain
  <2>3. survivors \subseteq DOMAIN snaps /\ seq + 1 \notin DOMAIN snaps
    BY <2>1, <2>2 DEF ChainStep, TailStep
  <2>4. \A s \in DOMAIN snaps \cap DOMAIN snaps' : snaps'[s] = snaps[s] /\ diffs'[s] = diffs[s]
    BY <2>1, <2>3 DEF Land
  <2>5. \A s, r \in DOMAIN snaps : s \notin survivors /\ r >= s => r \notin survivors
    BY <2>1, <2>2 DEF ChainStep, TailStep
  <2>6. \A s \in DOMAIN snaps : s \in DOMAIN snaps' <=> s \in survivors
    BY <2>1, <2>3 DEF Land
  <2> QED
    BY <2>4, <2>5, <2>6 DEF TrailStep
<1> QED
  BY <1>1, ChainInit, ChainPreserved, PTL DEF Spec, HistoryKept

\* To land a snapshot is to append to the log, or to cut it back.
LEMMA LandsInLog == TailInv /\ Lands => Log!Next
<1> SUFFICES ASSUME TailInv, Lands PROVE Log!Next
  OBVIOUS
<1>1. PICK g, rows, hash, root, parent, survivors :
        TailStep(parent, survivors) /\ Land(g, rows, hash, root, parent, survivors)
  BY DEF Lands
<1>2. /\ head = seq /\ seq \in Nat /\ DOMAIN snaps \subseteq 1..seq
      /\ head # 0 => head \in DOMAIN snaps
  BY DEF TailInv, LinearChain
<1>3. PICK id : id = seq + 1
  OBVIOUS
<1>4. survivors \subseteq DOMAIN snaps /\ id \notin DOMAIN snaps /\ \A s \in DOMAIN snaps : s < id
  BY <1>1, <1>2, <1>3 DEF TailStep
<1>5. DOMAIN Entries = DOMAIN snaps /\ DOMAIN Entries' = survivors \cup {id}
  BY <1>1, <1>3 DEF Entries, Land
<1>6. \A s \in survivors : Entries'[s] = Entries[s]
  BY <1>1, <1>3, <1>4 DEF Entries, Land
<1>7. Entries'[id].parent = parent /\ Entries'[id].stored = nodes'
  BY <1>1, <1>3 DEF Entries, Land
<1>8. Log!Adds(survivors, parent)
  BY <1>4, <1>5, <1>6, <1>7 DEF Log!Adds, Log!Numbers
<1>9. CASE survivors = DOMAIN snaps /\ parent = head
  <2>1. head \in Log!Numbers \cup {0} /\ Log!Newest(head)
    BY <1>2, <1>5 DEF Log!Newest, Log!Numbers
  <2> QED
    BY <1>5, <1>8, <1>9, <2>1 DEF Log!Next, Log!Append, Log!Numbers
<1>10. ASSUME NEW t \in DOMAIN snaps, t < head, parent = t,
              survivors = DOMAIN snaps \ {s \in DOMAIN snaps : s > t}
       PROVE  Log!Next
  <2>1. t \in Nat /\ head \in DOMAIN snaps /\ ~(head <= t)
    BY <1>2, <1>10
  <2>2. t \in Log!Numbers /\ ~Log!Newest(t)
    BY <1>5, <2>1 DEF Log!Newest, Log!Numbers
  <2>3. survivors = {s \in Log!Numbers : s <= t}
    BY <1>2, <1>5, <1>10, <2>1 DEF Log!Numbers
  <2> QED
    BY <1>8, <1>10, <2>2, <2>3 DEF Log!Next, Log!CutBack
<1> QED
  BY <1>1, <1>9, <1>10 DEF TailStep

LEMMA EmptyLog == Init => Log!Init
  BY DEF Init, Log!Init, Log!Numbers, Entries

LEMMA LogStutters == UNCHANGED vars => UNCHANGED Log!logVars
  BY DEF vars, Log!logVars, Entries

\* The trail implements the log: a call adds one entry, or cuts the log back to the target of
\* a rollback and adds one there, and what the entry holds is the node table.
THEOREM TrailIsLog == Spec => LogRefined
<1>1. ChainInv /\ [Next]_vars => [Log!Next]_(Log!logVars)
  <2>1. ChainInv /\ Next => TailInv /\ Lands
    BY NextLands DEF LandStep, Lands, ChainStep, ChainInv
  <2> QED
    BY <2>1, LandsInLog, LogStutters
<1> QED
  BY <1>1, EmptyLog, ChainInit, ChainPreserved, PTL DEF Spec, LogRefined, Log!Spec

-----------------------------------------------------------------------------
(* The two recursive functions: they satisfy their equations, because a     *)
(* function that does so exists for every length.                          *)

Back(w, s) == IF s + 1 \in DOMAIN diffs THEN Undo(w[s + 1], diffs[s + 1]) ELSE w[s + 1]

IsWalk(w, target) ==
  w = [s \in target..seq |->
         IF s = seq THEN nodes
         ELSE IF s + 1 \in DOMAIN diffs THEN Undo(w[s + 1], diffs[s + 1])
         ELSE w[s + 1]]

\* RestoreToSnapshot is the end of a walk back from HEAD.
LEMMA WalkExists ==
  ASSUME seq \in Nat, NEW target \in 0..seq
  PROVE  \E w : IsWalk(w, target) /\ RestoreToSnapshot(target) = w[target]
<1> DEFINE S == {k \in Nat : k <= seq => \E w : IsWalk(w, seq - k)}
<1>1. 0 \in S
  <2>1. IsWalk([s \in seq..seq |-> nodes], seq)
    BY DEF IsWalk
  <2> QED
    BY <2>1
<1>2. ASSUME NEW k \in S PROVE k + 1 \in S
  <2> SUFFICES ASSUME k + 1 <= seq PROVE \E w : IsWalk(w, seq - (k + 1))
    OBVIOUS
  <2> DEFINE from == seq - k
  <2>1. k \in Nat /\ from \in Nat /\ from - 1 \in Nat /\ from <= seq /\ from - 1 = seq - (k + 1)
    OBVIOUS
  <2>2. PICK w : IsWalk(w, from)
    BY <2>1
  <2> HIDE DEF from
  <2> DEFINE ww == [s \in (from - 1)..seq |-> IF s = from - 1 THEN Back(w, s) ELSE w[s]]
  <2>3. \A s \in from..seq : w[s] = IF s = seq THEN nodes ELSE Back(w, s)
    BY <2>2 DEF IsWalk, Back
  <2>4. \A s \in (from - 1)..seq : ww[s] = IF s = seq THEN nodes ELSE Back(ww, s)
    <3> SUFFICES ASSUME NEW s \in (from - 1)..seq
                 PROVE  ww[s] = IF s = seq THEN nodes ELSE Back(ww, s)
      OBVIOUS
    <3>1. s # seq => s + 1 \in (from - 1)..seq /\ s + 1 # from - 1 /\ ww[s + 1] = w[s + 1]
      BY <2>1
    <3>2. s # seq => Back(ww, s) = Back(w, s)
      BY <3>1 DEF Back
    <3>3. CASE s = from - 1
      BY <2>1, <3>2, <3>3
    <3>4. CASE s # from - 1
      BY <2>1, <2>3, <3>2, <3>4
    <3> QED
      BY <3>3, <3>4
  <2>5. IsWalk(ww, from - 1)
    BY <2>4 DEF IsWalk, Back
  <2> QED
    BY <2>1, <2>5
<1>3. S = Nat
  <2>1. S \in SUBSET Nat
    OBVIOUS
  <2> HIDE DEF S
  <2> QED
    BY <1>1, <1>2, <2>1, SetInduction
<1>4. \E w : IsWalk(w, target)
  <2>1. seq - target \in Nat /\ seq - target <= seq /\ seq - (seq - target) = target
    OBVIOUS
  <2>2. seq - target \in S
    BY <1>3, <2>1
  <2> QED
    BY <2>1, <2>2
<1> QED
  BY <1>4 DEF IsWalk, RestoreToSnapshot

\* One step of the walk.
BackOne(g, s) == IF s + 1 \in DOMAIN diffs THEN Undo(g, diffs[s + 1]) ELSE g

\* What is so at HEAD, and at each number if it is at the next, is so of the table a walk back
\* ends with.  Good[s] is the set of the node tables that are right at s.
LEMMA WalkKeeps ==
  ASSUME NEW Good, seq \in Nat, NEW target \in 0..seq, nodes \in Good[seq],
         \A s \in target..seq : s # seq => \A g \in Good[s + 1] : BackOne(g, s) \in Good[s]
  PROVE  RestoreToSnapshot(target) \in Good[target]
<1>1. PICK w : IsWalk(w, target) /\ RestoreToSnapshot(target) = w[target]
  BY WalkExists
<1> DEFINE S == {k \in Nat : k <= seq - target => w[seq - k] \in Good[seq - k]}
<1>2. 0 \in S
  BY <1>1 DEF IsWalk
<1>3. ASSUME NEW k \in S PROVE k + 1 \in S
  <2> SUFFICES ASSUME k + 1 <= seq - target PROVE w[seq - (k + 1)] \in Good[seq - (k + 1)]
    OBVIOUS
  <2>1. PICK s \in target..seq : s = seq - (k + 1)
    OBVIOUS
  <2>2. s # seq /\ s + 1 = seq - k /\ k <= seq - target
    BY <2>1
  <2>3. w[s + 1] \in Good[s + 1]
    BY <2>2
  <2>4. w[s] = BackOne(w[s + 1], s)
    BY <1>1, <2>2 DEF IsWalk, BackOne
  <2> QED
    BY <2>1, <2>2, <2>3, <2>4
<1>4. S = Nat
  <2>1. S \in SUBSET Nat
    OBVIOUS
  <2> HIDE DEF S
  <2> QED
    BY <1>2, <1>3, <2>1, SetInduction
<1>5. seq - target \in Nat /\ seq - (seq - target) = target
  OBVIOUS
<1>6. seq - target \in S
  BY <1>4, <1>5
<1> QED
  BY <1>1, <1>5, <1>6

IsPass(p, g, target, ds) ==
  p = [n \in 0..NodeCount |->
         IF n = 0 THEN g
         ELSE IF n \notin DOMAIN ds THEN p[n - 1]
         ELSE IF ds[n].op = "rem" THEN Drop(p[n - 1], {n})
         ELSE Put(p[n - 1], target, {n})]

OneDelta(h, n, target, ds) ==
  IF n \notin DOMAIN ds THEN h
  ELSE IF ds[n].op = "rem" THEN Drop(h, {n})
  ELSE Put(h, target, {n})

\* ApplyInIdOrder is the end of a pass over the identifiers.
LEMMA PassExists ==
  ASSUME NEW g, NEW target, NEW ds
  PROVE  \E p : IsPass(p, g, target, ds) /\ ApplyInIdOrder(g, target, ds) = p[NodeCount]
<1> DEFINE PassTo(p, k) == p = [n \in 0..k |-> IF n = 0 THEN g ELSE OneDelta(p[n - 1], n, target, ds)]
           S == {k \in Nat : \E p : PassTo(p, k)}
<1>1. 0 \in S
  <2>1. PassTo([n \in 0..0 |-> g], 0)
    OBVIOUS
  <2> QED
    BY <2>1
<1>2. ASSUME NEW k \in S PROVE k + 1 \in S
  <2>1. k \in Nat /\ \E p : PassTo(p, k)
    OBVIOUS
  <2>2. PICK p : PassTo(p, k)
    BY <2>1
  <2> DEFINE pp == [n \in 0..(k + 1) |-> IF n = k + 1 THEN OneDelta(p[k], n, target, ds) ELSE p[n]]
  <2>3. \A n \in 0..k : p[n] = IF n = 0 THEN g ELSE OneDelta(p[n - 1], n, target, ds)
    BY <2>2
  <2>4. \A n \in 0..(k + 1) : pp[n] = IF n = 0 THEN g ELSE OneDelta(pp[n - 1], n, target, ds)
    <3> TAKE n \in 0..(k + 1)
    <3>1. n # 0 => n - 1 \in 0..(k + 1) /\ n - 1 # k + 1 /\ pp[n - 1] = p[n - 1]
      BY <2>1
    <3>2. CASE n = k + 1
      BY <2>1, <3>1, <3>2
    <3>3. CASE n # k + 1
      <4>1. n \in 0..k /\ pp[n] = p[n]
        BY <2>1, <3>3
      <4> QED
        BY <2>3, <3>1, <4>1
    <3> QED
      BY <3>2, <3>3
  <2>5. PassTo(pp, k + 1)
    BY <2>4
  <2> HIDE DEF PassTo, pp
  <2> QED
    BY <2>1, <2>5
<1>3. S = Nat
  <2>1. S \in SUBSET Nat
    OBVIOUS
  <2> HIDE DEF S
  <2> QED
    BY <1>1, <1>2, <2>1, SetInduction
<1>4. \E p : IsPass(p, g, target, ds)
  BY <1>3, NodeCountAssumption DEF OneDelta, IsPass
<1> QED
  BY <1>4 DEF IsPass, ApplyInIdOrder

\* Every statement of a rollback leaves a table.
LEMMA RolledBackIsFun ==
  ASSUME NEW g, NEW target, NEW ds, IsFun(g)
  PROVE  IsFun(ApplyInIdOrder(g, target, ds))
<1>1. PICK p : IsPass(p, g, target, ds) /\ ApplyInIdOrder(g, target, ds) = p[NodeCount]
  BY PassExists
<1> DEFINE S == {k \in Nat : k <= NodeCount => IsFun(p[k])}
<1>2. 0 \in S
  BY <1>1, NodeCountAssumption DEF IsPass
<1>3. ASSUME NEW k \in S PROVE k + 1 \in S
  <2> SUFFICES ASSUME k + 1 <= NodeCount PROVE IsFun(p[k + 1])
    OBVIOUS
  <2>1. IsFun(p[k]) /\ k + 1 \in 0..NodeCount /\ k + 1 # 0 /\ (k + 1) - 1 = k
    BY NodeCountAssumption
  <2>2. \/ p[k + 1] = p[k]
        \/ p[k + 1] = Drop(p[k], {k + 1})
        \/ p[k + 1] = Put(p[k], target, {k + 1})
    BY <1>1, <2>1 DEF IsPass
  <2>3. IsFun(Drop(p[k], {k + 1})) /\ IsFun(Put(p[k], target, {k + 1}))
    BY DEF IsFun, Drop, Restrict, Put
  <2> QED
    BY <2>1, <2>2, <2>3
<1>4. S = Nat
  <2>1. S \in SUBSET Nat
    OBVIOUS
  <2> HIDE DEF S
  <2> QED
    BY <1>2, <1>3, <2>1, SetInduction
<1>5. NodeCount \in S
  BY <1>4, NodeCountAssumption
<1> QED
  BY <1>1, <1>5, NodeCountAssumption

-----------------------------------------------------------------------------
(* Types.                                                                  *)

TypeInv == TypeOK /\ ChainInv

\* The node table RestoreToSnapshot computes is one.
LEMMA RestoredIsGraph ==
  ASSUME TypeInv, NEW target \in 0..seq
  PROVE  IsGraph(RestoreToSnapshot(target))
<1> DEFINE Good == [s \in target..seq |-> Graphs]
<1>1. seq \in Nat /\ nodes \in Good[seq]
  BY GraphsAre DEF TypeInv, TypeOK, ChainInv, TailInv
<1>2. ASSUME NEW s \in target..seq, s # seq, NEW g \in Good[s + 1] PROVE BackOne(g, s) \in Good[s]
  <2>1. s + 1 \in target..seq /\ IsGraph(g)
    BY <1>1, <1>2, GraphsAre
  <2>2. s + 1 \in DOMAIN diffs => IsTable(diffs[s + 1], DiffRow)
    BY DEF TypeInv, TypeOK
  <2>3. IsGraph(BackOne(g, s))
    BY <2>1, <2>2, UndoIsGraph DEF BackOne
  <2> QED
    BY <2>3, GraphsAre
<1>3. RestoreToSnapshot(target) \in Good[target]
  <2> HIDE DEF Good
  <2> QED
    BY <1>1, <1>2, WalkKeeps
<1> QED
  BY <1>1, <1>3, GraphsAre

\* So is the one the statements of a rollback leave.
LEMMA RolledBackIsGraph ==
  ASSUME NEW g, NEW target, NEW ds, IsGraph(g), IsTable(ds, DeltaRow),
         \A n \in WithOp(ds, {"add", "mod"}) : target[n] \in NodeRow
  PROVE  IsGraph(ApplyInIdOrder(g, target, ds))
<1>1. PICK p : IsPass(p, g, target, ds) /\ ApplyInIdOrder(g, target, ds) = p[NodeCount]
  BY PassExists
<1> DEFINE S == {k \in Nat : k <= NodeCount => IsGraph(p[k])}
<1>2. 0 \in S
  BY <1>1, NodeCountAssumption DEF IsPass
<1>3. ASSUME NEW k \in S PROVE k + 1 \in S
  <2> SUFFICES ASSUME k + 1 <= NodeCount PROVE IsGraph(p[k + 1])
    OBVIOUS
  <2>1. PICK n \in NodeId : n = k + 1
    BY NodeCountAssumption DEF NodeId
  <2>2. IsGraph(p[n - 1])
    <3>1. k \in Nat /\ n - 1 = k /\ k <= NodeCount
      BY <2>1, NodeCountAssumption
    <3>2. IsGraph(p[k])
      BY <3>1
    <3> QED
      BY <3>1, <3>2
  <2>3. p[n] = IF n \notin DOMAIN ds THEN p[n - 1]
               ELSE IF ds[n].op = "rem" THEN Drop(p[n - 1], {n})
               ELSE Put(p[n - 1], target, {n})
    <3>1. n \in 0..NodeCount /\ n # 0
      BY NodeCountAssumption DEF NodeId
    <3> QED
      BY <1>1, <3>1 DEF IsPass
  <2>4. CASE n \notin DOMAIN ds
    BY <2>1, <2>2, <2>3, <2>4
  <2>5. CASE n \in DOMAIN ds /\ ds[n].op = "rem"
    BY <2>1, <2>2, <2>3, <2>5, DropIsGraph
  <2>6. CASE n \in DOMAIN ds /\ ds[n].op # "rem"
    <3>1. n \in WithOp(ds, {"add", "mod"})
      BY <2>6 DEF WithOp, IsTable, DeltaRow
    <3>2. \A m \in {n} : target[m] \in NodeRow
      BY <3>1
    <3>3. {n} \in SUBSET NodeId
      OBVIOUS
    <3>4. IsGraph(Put(p[n - 1], target, {n}))
      BY <2>2, <3>2, <3>3, PutIsGraph
    <3> QED
      BY <2>1, <2>3, <2>6, <3>4
  <2> QED
    BY <2>4, <2>5, <2>6
<1>4. S = Nat
  <2>1. S \in SUBSET Nat
    OBVIOUS
  <2> HIDE DEF S
  <2> QED
    BY <1>2, <1>3, <2>1, SetInduction
<1>5. NodeCount \in S
  BY <1>4, NodeCountAssumption
<1> QED
  BY <1>1, <1>5, NodeCountAssumption

LEMMA RollbackDeltasTyped ==
  ASSUME NEW g, NEW target, IsGraph(g), IsGraph(target)
  PROVE  /\ IsTable(RollbackDeltas(g, target), DeltaRow)
         /\ \A n \in WithOp(RollbackDeltas(g, target), {"add", "mod"}) : target[n] \in NodeRow
<1>1. \A n \in DOMAIN g : g[n].content \in Content
  BY DEF IsGraph, IsTable, NodeRow
<1>2. \A n \in DOMAIN target : target[n].content \in Content /\ target[n] \in NodeRow
  BY DEF IsGraph, IsTable, NodeRow
<1>3. IsTable(RollbackDeltas(g, target), DeltaRow)
  BY <1>1, <1>2 DEF RollbackDeltas, IsTable, IsGraph, DeltaRow, Added, Modified, Removed
<1>4. WithOp(RollbackDeltas(g, target), {"add", "mod"}) \subseteq DOMAIN target
  BY DEF RollbackDeltas, WithOp, Added, Modified, Removed
<1> QED
  BY <1>2, <1>3, <1>4

\* What every call hands to Land is typed.
TypedStep ==
  \E g, rows, hash, root, parent, survivors :
     /\ IsGraph(g) /\ IsTable(rows, DiffRow) /\ root \in Root \cup {NoRoot}
     /\ ChainStep(hash, parent, survivors)
     /\ Land(g, rows, hash, root, parent, survivors)

LEMMA EmitTyped ==
  ASSUME TypeInv, NEW ds, NEW t, NEW hash, NEW root \in Root \cup {NoRoot}, hash.prev = head,
         IsTable(ds, DeltaRow), \A n \in WithOp(ds, {"add", "mod"}) : t[n] \in NodeRow,
         Emit(ds, t, hash, root)
  PROVE  TypedStep
<1>1. IsGraph(nodes)
  BY DEF TypeInv, TypeOK
<1>2. IsGraph(ApplyDeltas(nodes, t, ds)) /\ IsTable(RowsFor(nodes, ds), DiffRow)
  BY <1>1, ApplyIsGraph, RowsAreRows
<1>3. Land(ApplyDeltas(nodes, t, ds), RowsFor(nodes, ds), hash, root, head, DOMAIN snaps)
  BY DEF Emit
<1>4. ChainStep(hash, head, DOMAIN snaps)
  BY DEF ChainStep, TailStep
<1> QED
  BY <1>2, <1>3, <1>4 DEF TypedStep

LEMMA ChangeTyped ==
  ASSUME TypeInv, NEW ds, NEW t, IsTable(ds, DeltaRow),
         \A n \in WithOp(ds, {"add", "mod"}) : t[n] \in NodeRow,
         EmitChange(ds, t)
  PROVE  TypedStep
<1>1. ChangeHash(head, ds).prev = head
  BY DEF ChangeHash
<1> QED
  BY <1>1, EmitTyped DEF EmitChange

LEMMA WriteTyped ==
  ASSUME TypeInv, NEW n \in NodeId, NEW c \in Content, WriteNode(n, c)
  PROVE  TypedStep
<1> DEFINE t == [m \in {n} |-> WrittenRow(nodes, n, c)]
           prev == ContentsOf(nodes, {n} \cap DOMAIN nodes)
<1>1. IsGraph(nodes)
  BY DEF TypeInv, TypeOK
<1>2. WrittenRow(nodes, n, c) \in NodeRow
  BY <1>1 DEF WrittenRow, IsGraph, IsTable, NodeRow
<1>3. \A m \in DOMAIN t : t[m] \in NodeRow /\ t[m].content \in Content
  BY <1>2 DEF NodeRow
<1>4. \A m \in DOMAIN prev : prev[m] \in Content
  BY <1>1 DEF ContentsOf, IsGraph, IsTable, NodeRow
<1>5. DOMAIN t \cup DOMAIN prev \subseteq NodeId
  BY DEF ContentsOf
<1>6. /\ IsTable(DiffFlat(t, prev), DeltaRow)
      /\ WithOp(DiffFlat(t, prev), {"add", "mod"}) \subseteq DOMAIN t
  <2> HIDE DEF t, prev
  <2> QED
    BY <1>3, <1>4, <1>5, DiffIsDeltas
<1>7. EmitChange(DiffFlat(t, prev), t)
  BY DEF WriteNode, WriteDeltas
<1> HIDE DEF t, prev
<1> QED
  BY <1>3, <1>6, <1>7, ChangeTyped

LEMMA RemovalTyped ==
  ASSUME TypeInv, NEW S \in SUBSET DOMAIN nodes, NEW t, EmitChange(RemovalOf(nodes, S), t)
  PROVE  TypedStep
<1>1. IsTable(RemovalOf(nodes, S), DeltaRow)
  BY DEF TypeInv, TypeOK, RemovalOf, Removed, IsGraph, IsTable, NodeRow, DeltaRow
<1>2. WithOp(RemovalOf(nodes, S), {"add", "mod"}) = {}
  BY DEF WithOp, RemovalOf, Removed
<1> QED
  BY <1>1, <1>2, ChangeTyped

LEMMA ReparentTyped ==
  ASSUME TypeInv, NEW n \in DOMAIN nodes,
         EmitChange(ReparentDeltas(nodes, n), Promoted(nodes, n))
  PROVE  TypedStep
<1>1. IsGraph(nodes)
  BY DEF TypeInv, TypeOK
<1>2. IsTable(ReparentDeltas(nodes, n), DeltaRow)
  BY <1>1 DEF ReparentDeltas, ChildrenOf, Removed, Modified, IsGraph, IsTable, NodeRow, DeltaRow
<1>3. WithOp(ReparentDeltas(nodes, n), {"add", "mod"}) \subseteq ChildrenOf(nodes, n)
  BY DEF WithOp, ReparentDeltas, Removed, Modified
<1>4. \A c \in ChildrenOf(nodes, n) : Promoted(nodes, n)[c] \in NodeRow
  BY <1>1 DEF Promoted, ChildrenOf, IsGraph, IsTable, NodeRow
<1> QED
  BY <1>2, <1>3, <1>4, ChangeTyped

LEMMA CompileTyped ==
  ASSUME TypeInv, NEW fs \in SUBSET File, NEW t \in Parses(fs), NEW known \in SUBSET DOMAIN nodes,
         NEW root \in Root, CompileTree(t, known, root)
  PROVE  TypedStep
<1> DEFINE prev == ContentsOf(nodes, known)
<1>1. IsGraph(nodes)
  BY DEF TypeInv, TypeOK
<1>2. PICK S \in ParsedSets(fs) :
        \E c \in [S -> Content] :
          t = [n \in S |-> [parent |-> HomeParent[n], file |-> HomeFile[n], content |-> c[n]]]
  BY DEF Parses
<1>3. S \subseteq NodeId /\ \A n \in S : HomeFile[n] \in File
  BY <1>2 DEF ParsedSets
<1>4. DOMAIN t = S /\ \A n \in S : t[n] \in NodeRow /\ t[n].content \in Content
  BY <1>2, <1>3, HomeAssumption DEF NodeRow
<1>5. \A m \in DOMAIN prev : prev[m] \in Content
  BY <1>1 DEF ContentsOf, IsGraph, IsTable, NodeRow
<1>6. DOMAIN t \cup DOMAIN prev \subseteq NodeId
  BY <1>1, <1>3, <1>4 DEF ContentsOf, IsGraph, IsTable
<1>7. Emit(DiffFlat(t, prev), t, CompileHash(head, t), root) /\ CompileHash(head, t).prev = head
  BY DEF CompileTree, CompileHash
<1>8. /\ IsTable(DiffFlat(t, prev), DeltaRow)
      /\ \A n \in WithOp(DiffFlat(t, prev), {"add", "mod"}) : t[n] \in NodeRow
  <2> HIDE DEF prev
  <2> QED
    BY <1>4, <1>5, <1>6, DiffIsDeltas
<1> HIDE DEF prev
<1> QED
  BY <1>7, <1>8, EmitTyped

LEMMA RollbackTyped ==
  ASSUME TypeInv, NEW target \in 1..seq, NEW d \in BOOLEAN, Rollback(target, d)
  PROVE  TypedStep
<1> DEFINE restored == RestoreToSnapshot(target)
           ds == RollbackDeltas(nodes, restored)
           survivors == DOMAIN snaps \ (IF d THEN Pruned(target) ELSE {})
           g == ApplyInIdOrder(nodes, restored, ds)
           hash == RollbackHash(head, target, ds)
<1>1. IsGraph(nodes) /\ seq \in Nat
  BY DEF TypeInv, TypeOK, ChainInv, TailInv
<1>2. IsGraph(restored)
  BY <1>1, RestoredIsGraph
<1>3. /\ target \in DOMAIN snaps /\ target < head
      /\ Land(g, RowsFor(nodes, ds), hash, NoRoot, RollbackParent(target, d), survivors)
  BY DEF Rollback
<1>4. hash.prev = head
  BY DEF RollbackHash
<1>5. ChainStep(hash, RollbackParent(target, d), survivors)
  BY <1>3, <1>4 DEF ChainStep, TailStep, RollbackParent, Pruned
<1>6. /\ IsTable(ds, DeltaRow)
      /\ \A n \in WithOp(ds, {"add", "mod"}) : restored[n] \in NodeRow
  BY <1>1, <1>2, RollbackDeltasTyped
<1>7. IsGraph(g)
  <2> HIDE DEF restored, ds
  <2> QED
    BY <1>1, <1>6, RolledBackIsGraph
<1>8. IsTable(RowsFor(nodes, ds), DiffRow)
  <2> HIDE DEF restored, ds
  <2> QED
    BY <1>1, <1>6, RowsAreRows
<1> HIDE DEF g, ds, hash, survivors, restored
<1> QED
  BY <1>3, <1>5, <1>7, <1>8 DEF TypedStep

LEMMA NextTyped == TypeInv /\ Next => TypedStep
<1> SUFFICES ASSUME TypeInv, Next PROVE TypedStep
  OBVIOUS
<1>1. IsGraph(nodes) /\ DOMAIN nodes \subseteq NodeId
  BY DEF TypeInv, TypeOK, IsGraph, IsTable
<1>2. ASSUME NEW n \in NodeId \cup {NoNode}, NEW c \in Content, Write(n, c) PROVE TypedStep
  <2>1. PICK m \in NodeId : WriteNode(m, c)
    BY <1>2, HomeAssumption DEF Write
  <2> QED
    BY <2>1, WriteTyped
<1>3. ASSUME NEW n \in NodeId, NEW c \in Content, Summarize(n, c) PROVE TypedStep
  BY <1>3, WriteTyped DEF Summarize
<1>4. ASSUME NEW n \in NodeId, ForgetStrict(n) PROVE TypedStep
  <2>1. {n} \in SUBSET DOMAIN nodes
    BY <1>4 DEF ForgetStrict
  <2> QED
    BY <1>4, <2>1, RemovalTyped DEF ForgetStrict
<1>5. ASSUME NEW n \in NodeId, ForgetCascade(n) PROVE TypedStep
  <2>1. Subtree(nodes, n) \in SUBSET DOMAIN nodes
    BY DEF Subtree, Cascade
  <2> QED
    BY <1>5, <2>1, RemovalTyped DEF ForgetCascade
<1>6. ASSUME NEW n \in NodeId, ForgetReparent(n) PROVE TypedStep
  BY <1>6, ReparentTyped DEF ForgetReparent
<1>7. ASSUME NEW r \in Root, NEW fs \in SUBSET File, NEW t \in Parses(fs), CompileDir(r, fs, t)
      PROVE  TypedStep
  <2>1. NodesOfRoot(r) \in SUBSET DOMAIN nodes
    BY DEF NodesOfRoot
  <2> QED
    BY <1>7, <2>1, CompileTyped DEF CompileDir
<1>8. ASSUME NEW r \in Root, NEW fs \in SUBSET File, NEW t \in Parses(fs), CompileFiles(r, fs, t)
      PROVE  TypedStep
  <2>1. NodesOfFiles(fs) \in SUBSET DOMAIN nodes
    BY DEF NodesOfFiles
  <2> QED
    BY <1>8, <2>1, CompileTyped DEF CompileFiles
<1>9. ASSUME NEW fs \in SUBSET File, PurgeFiles(fs) PROVE TypedStep
  <2>1. NodesOfFiles(fs) \in SUBSET DOMAIN nodes
    BY DEF NodesOfFiles
  <2> QED
    BY <1>9, <2>1, RemovalTyped DEF PurgeFiles
<1> QED
  BY <1>2, <1>3, <1>4, <1>5, <1>6, <1>7, <1>8, <1>9, RollbackTyped DEF Next

LEMMA TypeInit == Init => TypeInv
<1>1. Init => TypeOK
  BY EmptyIsGraph, MaxSnapshotAssumption DEF Init, TypeOK
<1> QED
  BY <1>1, ChainInit DEF TypeInv

LEMMA TypePreserved == TypeInv /\ [Next]_vars => TypeInv'
<1> SUFFICES ASSUME TypeInv, [Next]_vars PROVE TypeInv'
  OBVIOUS
<1>1. ChainInv'
  BY ChainPreserved DEF TypeInv
<1>2. CASE UNCHANGED vars
  BY <1>1, <1>2 DEF TypeInv, TypeOK, vars
<1>3. CASE Next
  <2>1. PICK g, rows, hash, root, parent, survivors :
          /\ IsGraph(g) /\ IsTable(rows, DiffRow) /\ root \in Root \cup {NoRoot}
          /\ ChainStep(hash, parent, survivors)
          /\ Land(g, rows, hash, root, parent, survivors)
    BY <1>3, NextTyped DEF TypedStep
  <2>2. /\ head = seq /\ seq \in Nat /\ seq < MaxSnapshot /\ DOMAIN snaps \subseteq 1..seq
        /\ survivors \subseteq DOMAIN snaps
    BY <2>1 DEF TypeInv, ChainInv, TailInv, LinearChain, ChainStep, TailStep, Land
  <2>3. parent \in 0..MaxSnapshot
    BY <2>1, <2>2, MaxSnapshotAssumption DEF ChainStep, TailStep
  <2>4. PICK id \in SnapshotId : id = seq + 1
    BY <2>2, MaxSnapshotAssumption DEF SnapshotId
  <2>5. /\ nodes' = g /\ head' = id /\ seq' = id
        /\ DOMAIN snaps' = survivors \cup {id}
        /\ DOMAIN diffs' = survivors \cup {id}
        /\ DOMAIN world' = survivors \cup {id}
    BY <2>1, <2>4 DEF Land
  <2>6. survivors \cup {id} \subseteq SnapshotId
    BY <2>2 DEF TypeInv, TypeOK
  <2>7. \A s \in survivors \cup {id} : IsSnapshot(snaps'[s])
    <3> TAKE s \in survivors \cup {id}
    <3>1. CASE s = id
      <4>1. snaps'[s] = [hash |-> hash, parent |-> parent, root |-> root]
        BY <2>1, <2>4, <3>1 DEF Land
      <4> QED
        BY <2>1, <2>3, <4>1 DEF IsSnapshot
    <3>2. CASE s # id
      <4>1. snaps'[s] = snaps[s] /\ s \in DOMAIN snaps
        BY <2>1, <2>2, <2>4, <3>2 DEF Land
      <4> QED
        BY <4>1 DEF TypeInv, TypeOK
    <3> QED
      BY <3>1, <3>2
  <2>8. \A s \in survivors \cup {id} : IsTable(diffs'[s], DiffRow)
    BY <2>1, <2>2, <2>4 DEF Land, TypeInv, TypeOK
  <2>9. \A s \in survivors \cup {id} : IsGraph(world'[s])
    BY <2>1, <2>2, <2>4 DEF Land, TypeInv, TypeOK
  <2> HIDE DEF SnapshotId
  <2>10. head' \in 0..MaxSnapshot /\ seq' \in 0..MaxSnapshot
    BY <2>2, <2>4, <2>5, MaxSnapshotAssumption
  <2> QED
    BY <1>1, <2>1, <2>5, <2>6, <2>7, <2>8, <2>9, <2>10 DEF TypeInv, TypeOK
<1> QED
  BY <1>2, <1>3

\* Every table keeps its type, through every call.
THEOREM TypeCorrect == Spec => []TypeOK
<1>1. TypeInv => TypeOK
  BY DEF TypeInv
<1> QED
  BY <1>1, TypeInit, TypePreserved, PTL DEF Spec

-----------------------------------------------------------------------------
(* Places.                                                                 *)

\* The rows whose pre-state was recorded hold places of their nodes.
RowsPlaced(rows) == \A n \in DOMAIN rows : rows[n].meta # None => Placed(n, rows[n].meta)

\* The inductive strengthening of Rooted: a rollback brings back rows of the past, so those
\* must be placed too.
PlacedInv ==
  /\ TypeInv
  /\ AllPlaced(nodes) /\ FKIntact(nodes)
  /\ \A s \in DOMAIN diffs : RowsPlaced(diffs[s])
  /\ \A s \in DOMAIN world : FKIntact(world[s])

\* What every call hands to Land is placed.
PlacedLanding(g, rows) == AllPlaced(g) /\ FKIntact(g) /\ RowsPlaced(rows)

PlacedStep ==
  \E g, rows, hash, root, parent, survivors :
     /\ PlacedLanding(g, rows)
     /\ ChainStep(hash, parent, survivors)
     /\ Land(g, rows, hash, root, parent, survivors)

\* The recorded columns of a stored row are its place.
LEMMA PreStatePlaced ==
  ASSUME NEW g, NEW ds, AllPlaced(g)
  PROVE  RowsPlaced(RowsFor(g, ds))
<1>1. ASSUME NEW n \in DOMAIN ds, PreState(g, ds, n) # None
      PROVE  Placed(n, PreState(g, ds, n))
  BY <1>1 DEF PreState, MetaOf, AllPlaced, Placed
<1> QED
  BY <1>1 DEF RowsPlaced, RowsFor

LEMMA AppliedPlaced ==
  ASSUME NEW g, NEW t, NEW ds, AllPlaced(g),
         \A n \in WithOp(ds, {"add", "mod"}) : Placed(n, t[n])
  PROVE  AllPlaced(ApplyDeltas(g, t, ds))
<1>1. AllPlaced(Put(g, t, WithOp(ds, {"add", "mod"})))
  BY DEF AllPlaced, Put
<1> QED
  BY <1>1, DropKeepsRows DEF ApplyDeltas, AllPlaced

LEMMA EmitPlaced ==
  ASSUME PlacedInv, NEW ds, NEW t, NEW hash, NEW root, hash.prev = head,
         \A n \in WithOp(ds, {"add", "mod"}) : Placed(n, t[n]),
         Emit(ds, t, hash, root)
  PROVE  PlacedStep
<1>1. FKIntact(ApplyDeltas(nodes, t, ds))
  BY ApplySound DEF PlacedInv, Emit, Sound
<1>2. PlacedLanding(ApplyDeltas(nodes, t, ds), RowsFor(nodes, ds))
  BY <1>1, AppliedPlaced, PreStatePlaced DEF PlacedInv, PlacedLanding
<1>3. ChainStep(hash, head, DOMAIN snaps)
  BY DEF ChainStep, TailStep
<1> QED
  BY <1>2, <1>3 DEF PlacedStep, Emit

LEMMA ChangePlaced ==
  ASSUME PlacedInv, NEW ds, NEW t, \A n \in WithOp(ds, {"add", "mod"}) : Placed(n, t[n]),
         EmitChange(ds, t)
  PROVE  PlacedStep
<1>1. ChangeHash(head, ds).prev = head
  BY DEF ChangeHash
<1> QED
  BY <1>1, EmitPlaced DEF EmitChange

\* A written node keeps its place, and a new one has none.
LEMMA WritePlaced ==
  ASSUME PlacedInv, NEW n \in NodeId, NEW c \in Content, WriteNode(n, c)
  PROVE  PlacedStep
<1> DEFINE t == [m \in {n} |-> WrittenRow(nodes, n, c)]
           ds == WriteDeltas(nodes, n, c)
<1>1. Placed(n, WrittenRow(nodes, n, c))
  <2>1. CASE n \in DOMAIN nodes
    <3>1. nodes[n] \in NodeRow /\ Placed(n, nodes[n])
      BY <2>1 DEF PlacedInv, TypeInv, TypeOK, IsGraph, IsTable, AllPlaced
    <3>2. WrittenRow(nodes, n, c) = [nodes[n] EXCEPT !.content = c]
      BY <2>1 DEF WrittenRow
    <3> QED
      BY <3>1, <3>2 DEF Placed, NodeRow
  <2>2. CASE n \notin DOMAIN nodes
    BY <2>2 DEF WrittenRow, Placed
  <2> QED
    BY <2>1, <2>2
<1>2. WithOp(ds, {"add", "mod"}) \subseteq {n}
  BY DEF WriteDeltas, DiffFlat, WithOp, Added, Modified, Removed
<1>3. \A m \in WithOp(ds, {"add", "mod"}) : Placed(m, t[m])
  BY <1>1, <1>2
<1>4. EmitChange(ds, t)
  BY DEF WriteNode
<1> HIDE DEF t, ds
<1> QED
  BY <1>3, <1>4, ChangePlaced

LEMMA RemovalPlaced ==
  ASSUME PlacedInv, NEW S, NEW t, EmitChange(RemovalOf(nodes, S), t)
  PROVE  PlacedStep
<1>1. WithOp(RemovalOf(nodes, S), {"add", "mod"}) = {}
  BY DEF WithOp, RemovalOf, Removed
<1> QED
  BY <1>1, ChangePlaced

\* Promotion goes to an ancestor.
LEMMA ReparentPlaced ==
  ASSUME PlacedInv, NEW n \in DOMAIN nodes,
         EmitChange(ReparentDeltas(nodes, n), Promoted(nodes, n))
  PROVE  PlacedStep
<1>1. WithOp(ReparentDeltas(nodes, n), {"add", "mod"}) \subseteq ChildrenOf(nodes, n)
  BY DEF WithOp, ReparentDeltas, Removed, Modified
<1>2. ASSUME NEW c \in ChildrenOf(nodes, n) PROVE Placed(c, Promoted(nodes, n)[c])
  <2>1. /\ c \in NodeId /\ n \in NodeId /\ nodes[c] \in NodeRow /\ nodes[c].parent = n
        /\ Placed(c, nodes[c]) /\ Placed(n, nodes[n])
    BY <1>2 DEF ChildrenOf, PlacedInv, TypeInv, TypeOK, IsGraph, IsTable, AllPlaced
  <2>2. nodes[n].parent # NoNode => nodes[c].file = HomeFile[c] /\ Above(c, nodes[n].parent)
    BY <2>1, PromotionPlaces
  <2>3. Promoted(nodes, n)[c] = [nodes[c] EXCEPT !.parent = nodes[n].parent]
    BY <1>2 DEF Promoted
  <2> QED
    BY <2>1, <2>2, <2>3 DEF Placed, NodeRow
<1> QED
  BY <1>1, <1>2, ChangePlaced

\* What a parse yields.
LEMMA ParsedRows ==
  ASSUME NEW fs \in SUBSET File, NEW t \in Parses(fs)
  PROVE  /\ DOMAIN t \subseteq NodeId
         /\ \A n \in DOMAIN t : /\ t[n] \in NodeRow
                                /\ HomeFile[n] \in fs /\ t[n].file = HomeFile[n]
                                /\ t[n].parent = HomeParent[n]
                                /\ HomeParent[n] \in DOMAIN t \cup {NoNode}
<1>1. PICK S \in ParsedSets(fs) :
        \E c \in [S -> Content] :
          t = [n \in S |-> [parent |-> HomeParent[n], file |-> HomeFile[n], content |-> c[n]]]
  BY DEF Parses
<1>2. S \subseteq NodeId /\ \A n \in S : HomeFile[n] \in fs /\ HomeParent[n] \in S \cup {NoNode}
  BY <1>1 DEF ParsedSets
<1> QED
  BY <1>1, <1>2, HomeAssumption DEF NodeRow

LEMMA CompilePlaced ==
  ASSUME PlacedInv, NEW fs \in SUBSET File, NEW t \in Parses(fs), NEW known, NEW root \in Root,
         CompileTree(t, known, root)
  PROVE  PlacedStep
<1> DEFINE ds == DiffFlat(t, ContentsOf(nodes, known))
<1>1. \A n \in DOMAIN t : Placed(n, t[n])
  BY ParsedRows, AboveParent DEF Placed
<1>2. WithOp(ds, {"add", "mod"}) \subseteq DOMAIN t
  BY DEF DiffFlat, WithOp, Added, Modified, Removed
<1>3. Emit(ds, t, CompileHash(head, t), root) /\ CompileHash(head, t).prev = head
  BY DEF CompileTree, CompileHash
<1> HIDE DEF ds
<1> QED
  BY <1>1, <1>2, <1>3, EmitPlaced

\* The rows of the table a rollback restores are rows of the present or of a diff.
LEMMA UndoPlaced ==
  ASSUME NEW g, NEW rows, IsGraph(g), IsTable(rows, DiffRow), AllPlaced(g), RowsPlaced(rows)
  PROVE  AllPlaced(Undo(g, rows))
<1> DEFINE reborn == {n \in DOMAIN rows : rows[n].op = "rem" /\ rows[n].meta # None}
           kept   == {n \in DOMAIN g : n \in DOMAIN rows => rows[n].op # "add"}
           undone(n) == IF n \in DOMAIN rows /\ (rows[n].op = "mod" \/ n \in reborn)
                        THEN UndoneRow(rows[n], IF n \in DOMAIN g THEN g[n] ELSE None)
                        ELSE g[n]
<1>1. Undo(g, rows) = [n \in kept \cup reborn |-> undone(n)]
  BY DEF Undo
<1>2. ASSUME NEW n \in kept \cup reborn PROVE Placed(n, undone(n))
  <2>1. CASE n \notin DOMAIN rows \/ ~(rows[n].op = "mod" \/ n \in reborn)
    BY <1>2, <2>1 DEF AllPlaced
  <2>2. CASE n \in DOMAIN rows /\ (rows[n].op = "mod" \/ n \in reborn) /\ rows[n].meta = None
    <3>1. n \in DOMAIN g /\ g[n] \in NodeRow /\ Placed(n, g[n])
      BY <1>2, <2>2 DEF AllPlaced, IsGraph, IsTable
    <3>2. undone(n) = [g[n] EXCEPT !.content = rows[n].old]
      BY <2>2, <3>1 DEF UndoneRow
    <3> QED
      BY <3>1, <3>2 DEF Placed, NodeRow
  <2>3. CASE n \in DOMAIN rows /\ (rows[n].op = "mod" \/ n \in reborn) /\ rows[n].meta # None
    BY <2>3 DEF UndoneRow, RowsPlaced, Placed
  <2> QED
    BY <2>1, <2>2, <2>3
<1> HIDE DEF kept, reborn, undone
<1> QED
  BY <1>1, <1>2 DEF AllPlaced

\* The table a rollback leaves holds the rows it put, and those it had no delta for.
LEMMA RollbackRows ==
  ASSUME NEW g, NEW target, NEW ds, DOMAIN g \subseteq NodeId, DOMAIN ds \subseteq NodeId,
         NEW n \in DOMAIN ApplyInIdOrder(g, target, ds)
  PROVE  IF n \in DOMAIN ds THEN ds[n].op # "rem" /\ ApplyInIdOrder(g, target, ds)[n] = target[n]
         ELSE n \in DOMAIN g /\ ApplyInIdOrder(g, target, ds)[n] = g[n]
<1>1. PICK p : IsPass(p, g, target, ds) /\ ApplyInIdOrder(g, target, ds) = p[NodeCount]
  BY PassExists
<1> DEFINE Right(k) == \A m \in DOMAIN p[k] :
                         /\ m \in NodeId
                         /\ IF m \in DOMAIN ds /\ m <= k THEN ds[m].op # "rem" /\ p[k][m] = target[m]
                            ELSE m \in DOMAIN g /\ p[k][m] = g[m]
           S == {k \in Nat : k <= NodeCount => Right(k)}
<1>2. 0 \in S
  <2>1. p[0] = g
    BY <1>1, NodeCountAssumption DEF IsPass
  <2> QED
    BY <2>1, NodeCountAssumption DEF NodeId
<1>3. ASSUME NEW k \in S PROVE k + 1 \in S
  <2> SUFFICES ASSUME k + 1 <= NodeCount PROVE Right(k + 1)
    OBVIOUS
  <2>1. PICK i \in NodeId : i = k + 1
    BY NodeCountAssumption DEF NodeId
  <2>2. k \in Nat /\ Right(k) /\ i - 1 = k /\ i \in 0..NodeCount /\ i # 0
    BY <2>1, NodeCountAssumption
  <2>3. p[i] = IF i \notin DOMAIN ds THEN p[k]
               ELSE IF ds[i].op = "rem" THEN Drop(p[k], {i})
               ELSE Put(p[k], target, {i})
    BY <1>1, <2>2 DEF IsPass
  <2>4. \A m \in NodeId : m <= i <=> (m <= k \/ m = i)
    BY <2>1, <2>2 DEF NodeId
  <2>5. ~(i <= k)
    BY <2>1, <2>2
  <2>6. CASE i \notin DOMAIN ds
    BY <2>1, <2>2, <2>3, <2>4, <2>6
  <2>7. CASE i \in DOMAIN ds /\ ds[i].op = "rem"
    <3>1. p[i] = Drop(p[k], {i})
      BY <2>3, <2>7
    <3>2. \A m \in DOMAIN p[i] : m \in DOMAIN p[k] /\ m # i /\ p[i][m] = p[k][m]
      <4> HIDE DEF Right
      <4> QED
        BY <3>1, DropKeepsRows
    <3> QED
      BY <2>1, <2>2, <2>4, <3>2
  <2>8. CASE i \in DOMAIN ds /\ ds[i].op # "rem"
    <3>1. p[i] = [m \in DOMAIN p[k] \cup {i} |-> IF m \in {i} THEN target[m] ELSE p[k][m]]
      BY <2>3, <2>8 DEF Put
    <3>2. ASSUME NEW m \in DOMAIN p[i]
          PROVE  /\ m \in NodeId
                 /\ IF m \in DOMAIN ds /\ m <= i THEN ds[m].op # "rem" /\ p[i][m] = target[m]
                    ELSE m \in DOMAIN g /\ p[i][m] = g[m]
      <4>1. CASE m = i
        BY <2>1, <2>4, <2>8, <3>1, <4>1
      <4>2. CASE m # i
        BY <2>2, <2>4, <3>1, <4>2
      <4> QED
        BY <4>1, <4>2
    <3> QED
      BY <2>1, <3>2
  <2> QED
    BY <2>6, <2>7, <2>8
<1>4. S = Nat
  <2>1. S \in SUBSET Nat
    OBVIOUS
  <2> HIDE DEF S
  <2> QED
    BY <1>2, <1>3, <2>1, SetInduction
<1>5. Right(NodeCount)
  BY <1>4, NodeCountAssumption
<1>6. n \in DOMAIN ds => n <= NodeCount
  BY DEF NodeId
<1> QED
  BY <1>1, <1>5, <1>6

\* The node table a walk back ends with is placed.
LEMMA RestoredPlaced ==
  ASSUME PlacedInv, NEW target \in 0..seq
  PROVE  IsGraph(RestoreToSnapshot(target)) /\ AllPlaced(RestoreToSnapshot(target))
<1> DEFINE Placeds == {g \in Graphs : AllPlaced(g)}
           Good == [s \in target..seq |-> Placeds]
<1>1. seq \in Nat /\ nodes \in Placeds
  BY GraphsAre DEF PlacedInv, TypeInv, TypeOK, ChainInv, TailInv
<1>2. ASSUME NEW g \in Placeds, NEW s \in DOMAIN diffs PROVE Undo(g, diffs[s]) \in Placeds
  <2>1. IsGraph(g) /\ AllPlaced(g) /\ IsTable(diffs[s], DiffRow) /\ RowsPlaced(diffs[s])
    BY GraphsAre DEF PlacedInv, TypeInv, TypeOK
  <2> QED
    BY <2>1, UndoIsGraph, UndoPlaced, GraphsAre
<1>3. RestoreToSnapshot(target) \in Good[target]
  <2>1. nodes \in Good[seq]
    BY <1>1
  <2>2. ASSUME NEW s \in target..seq, s # seq, NEW g \in Good[s + 1] PROVE BackOne(g, s) \in Good[s]
    <3>1. s + 1 \in target..seq /\ g \in Placeds /\ Good[s] = Placeds
      BY <1>1, <2>2
    <3> HIDE DEF Placeds, Good
    <3> QED
      BY <1>2, <3>1 DEF BackOne
  <2> HIDE DEF Good
  <2> QED
    BY <1>1, <2>1, <2>2, WalkKeeps
<1> QED
  BY <1>1, <1>3, GraphsAre

\* A rollback puts restored rows and its foreign keys are checked.
LEMMA RollbackPlaced ==
  ASSUME PlacedInv, NEW target \in 1..seq, NEW d \in BOOLEAN, Rollback(target, d)
  PROVE  PlacedStep
<1> DEFINE restored == RestoreToSnapshot(target)
           ds == RollbackDeltas(nodes, restored)
           g == ApplyInIdOrder(nodes, restored, ds)
           hash == RollbackHash(head, target, ds)
           survivors == DOMAIN snaps \ (IF d THEN Pruned(target) ELSE {})
<1>1. IsGraph(nodes) /\ AllPlaced(nodes) /\ target \in 0..seq
  BY DEF PlacedInv, TypeInv, TypeOK, ChainInv, TailInv
<1>2. IsGraph(restored) /\ AllPlaced(restored)
  BY <1>1, RestoredPlaced
<1>3. /\ FKIntact(g)
      /\ target \in DOMAIN snaps /\ target < head
      /\ Land(g, RowsFor(nodes, ds), hash, NoRoot, RollbackParent(target, d), survivors)
  BY DEF Rollback
<1>4. ChainStep(hash, RollbackParent(target, d), survivors)
  BY <1>3 DEF ChainStep, TailStep, RollbackParent, RollbackHash, Pruned
<1>5. DOMAIN nodes \subseteq NodeId /\ DOMAIN ds \subseteq NodeId
  BY <1>1, <1>2 DEF IsGraph, IsTable, RollbackDeltas
<1>6. \A n \in DOMAIN ds : ds[n].op # "rem" => n \in DOMAIN restored
  BY DEF RollbackDeltas, Removed
<1> HIDE DEF restored, ds
<1>7. \A n \in DOMAIN g : Placed(n, g[n])
  BY <1>1, <1>2, <1>5, <1>6, RollbackRows DEF AllPlaced
<1>8. PlacedLanding(g, RowsFor(nodes, ds))
  BY <1>1, <1>3, <1>7, PreStatePlaced DEF PlacedLanding, AllPlaced
<1> HIDE DEF g, hash, survivors
<1> QED
  BY <1>3, <1>4, <1>8 DEF PlacedStep

LEMMA NextPlaced == PlacedInv /\ Next => PlacedStep
<1> SUFFICES ASSUME PlacedInv, Next PROVE PlacedStep
  OBVIOUS
<1>1. ASSUME NEW n \in NodeId \cup {NoNode}, NEW c \in Content, Write(n, c) PROVE PlacedStep
  <2>1. PICK m \in NodeId : WriteNode(m, c)
    BY <1>1, HomeAssumption DEF Write
  <2> QED
    BY <2>1, WritePlaced
<1>2. ASSUME NEW n \in NodeId, NEW c \in Content, Summarize(n, c) PROVE PlacedStep
  BY <1>2, WritePlaced DEF Summarize
<1>3. ASSUME NEW n \in NodeId, ForgetStrict(n) \/ ForgetCascade(n) PROVE PlacedStep
  BY <1>3, RemovalPlaced DEF ForgetStrict, ForgetCascade
<1>4. ASSUME NEW n \in NodeId, ForgetReparent(n) PROVE PlacedStep
  BY <1>4, ReparentPlaced DEF ForgetReparent
<1>5. ASSUME NEW r \in Root, NEW fs \in SUBSET File, NEW t \in Parses(fs),
             CompileDir(r, fs, t) \/ CompileFiles(r, fs, t)
      PROVE  PlacedStep
  BY <1>5, CompilePlaced DEF CompileDir, CompileFiles
<1>6. ASSUME NEW fs \in SUBSET File, PurgeFiles(fs) PROVE PlacedStep
  BY <1>6, RemovalPlaced DEF PurgeFiles
<1> QED
  BY <1>1, <1>2, <1>3, <1>4, <1>5, <1>6, RollbackPlaced DEF Next

LEMMA PlacedInit == Init => PlacedInv
<1> SUFFICES ASSUME Init PROVE PlacedInv
  OBVIOUS
<1>1. TypeInv
  BY TypeInit
<1> QED
  BY <1>1 DEF Init, PlacedInv, AllPlaced, FKIntact, EmptyGraph

LEMMA PlacedPreserved == PlacedInv /\ [Next]_vars => PlacedInv'
<1> SUFFICES ASSUME PlacedInv, [Next]_vars PROVE PlacedInv'
  OBVIOUS
<1>1. TypeInv'
  BY TypePreserved DEF PlacedInv
<1>2. CASE UNCHANGED vars
  BY <1>1, <1>2 DEF PlacedInv, vars
<1>3. CASE Next
  <2>1. PICK g, rows, hash, root, parent, survivors :
          /\ PlacedLanding(g, rows)
          /\ ChainStep(hash, parent, survivors)
          /\ Land(g, rows, hash, root, parent, survivors)
    BY <1>3, NextPlaced DEF PlacedStep
  <2> DEFINE entry == [hash |-> hash, parent |-> parent, root |-> root]
  <2>2. PICK id \in Nat : id = seq + 1 /\ LandedOn(g, rows, entry, parent, survivors, id)
    BY <2>1, LandsOnTop DEF ChainStep, PlacedInv, TypeInv, ChainInv
  <2>3. DOMAIN diffs = DOMAIN snaps /\ DOMAIN world = DOMAIN snaps
    BY DEF PlacedInv, TypeInv, TypeOK
  <2> HIDE DEF entry
  <2>4. AllPlaced(nodes') /\ FKIntact(nodes')
    BY <2>1, <2>2 DEF PlacedLanding, LandedOn
  <2>5. \A s \in DOMAIN diffs' : RowsPlaced(diffs'[s])
    BY <2>1, <2>2, <2>3 DEF PlacedLanding, LandedOn, PlacedInv
  <2>6. \A s \in DOMAIN world' : FKIntact(world'[s])
    BY <2>1, <2>2, <2>3 DEF PlacedLanding, LandedOn, PlacedInv
  <2> QED
    BY <1>1, <2>4, <2>5, <2>6 DEF PlacedInv
<1> QED
  BY <1>2, <1>3

\* The node table is a forest: no call leaves a row below a parent that is gone, or in a
\* cycle, promotions and their rollbacks included.
THEOREM ForestRooted == Spec => []Rooted
<1>1. PlacedInv => Rooted
  <2> SUFFICES ASSUME PlacedInv PROVE Rooted
    OBVIOUS
  <2>1. DOMAIN nodes \subseteq NodeId /\ AllPlaced(nodes) /\ FKIntact(nodes)
    BY DEF PlacedInv, TypeInv, TypeOK, IsGraph, IsTable
  <2> QED
    BY <2>1, PlacedIsForest DEF Rooted
<1> QED
  BY <1>1, PlacedInit, PlacedPreserved, PTL DEF Spec

-----------------------------------------------------------------------------
(* Rows.  The strengthening of StepReversible says more of the rows of an   *)
(* exact snapshot, that they tell all that changed; and says less, but      *)
(* enough, of every snapshot that pruned nothing: a rollback that reached   *)
(* its target walked over those.                                           *)

ExactRowsAt(s) == RowsExact(WorldAt(PreviousOf(s)), world[s], diffs[s])

TellingRowsAt(s) == RowsTell(WorldAt(PreviousOf(s)), world[s], diffs[s])

HistoryInv ==
  /\ PlacedInv
  /\ WorldAt(head) = nodes
  /\ \A s \in DOMAIN snaps : /\ snaps[s].hash.target \in {0} \cup {r \in DOMAIN snaps : r < s}
                             /\ ~Prunes(s) => TellingRowsAt(s)
                             /\ Exact(s) => ExactRowsAt(s)

\* The snapshot before one is there.
LEMMA PreviousIsThere ==
  ASSUME TailInv, NEW s \in 1..(seq + 1)
  PROVE  /\ PreviousOf(s) \in Earlier(s)
         /\ \A r \in Earlier(s) : r <= PreviousOf(s)
<1>1. seq \in Nat /\ DOMAIN snaps \subseteq 1..seq
  BY DEF TailInv
<1>2. Earlier(s) \in SUBSET (0..seq) /\ 0 \in Earlier(s)
  BY <1>1 DEF Earlier
<1> QED
  BY <1>1, <1>2, MaxOf DEF PreviousOf

\* What a compile of a root has to know to get every node's delta right.
KnownUnder(root) ==
  \A n \in DOMAIN nodes : HomeFile[n] \in File =>
     nodes[n].file = HomeFile[n] /\ n \in NodesOfRoot(root)

\* When what a call lands is exact, told before it lands.
LandsExact(g, hash, root, parent) ==
  /\ parent = head
  /\ root = NoRoot \/ KnownUnder(root)
  /\ hash.target # 0 => /\ g = world[hash.target]
                        /\ \A r \in DOMAIN snaps : hash.target < r => ~Prunes(r)

\* A snapshot that stays is what it was.
LEMMA SurvivorsStay ==
  ASSUME HistoryInv, NEW g, NEW rows, NEW entry, NEW parent, NEW survivors, NEW id \in Nat,
         id = seq + 1, LandedOn(g, rows, entry, parent, survivors, id),
         NEW s \in survivors
  PROVE  /\ Prunes(s)' <=> Prunes(s)
         /\ Exact(s)' <=> Exact(s)
         /\ TellingRowsAt(s)' <=> TellingRowsAt(s)
         /\ ExactRowsAt(s)' <=> ExactRowsAt(s)
         /\ snaps'[s] = snaps[s]
         /\ {r \in DOMAIN snaps' : r < s} = {r \in DOMAIN snaps : r < s}
<1>1. /\ TailInv /\ seq \in Nat /\ DOMAIN snaps \subseteq 1..seq
      /\ DOMAIN diffs = DOMAIN snaps
  BY DEF HistoryInv, PlacedInv, TypeInv, TypeOK, ChainInv, TailInv
<1>2. /\ survivors \subseteq DOMAIN snaps /\ id \notin DOMAIN snaps /\ s < id
      /\ DOMAIN snaps' = survivors \cup {id} /\ DOMAIN diffs' = survivors \cup {id}
      /\ \A r \in survivors : snaps'[r] = snaps[r] /\ diffs'[r] = diffs[r] /\ world'[r] = world[r]
      /\ \A r \in survivors : \A q \in DOMAIN snaps : q < r => q \in survivors
      /\ \A r \in survivors : Earlier(r)' = Earlier(r) /\ PreviousOf(r)' = PreviousOf(r)
  BY DEF LandedOn
<1>3. s \in DOMAIN snaps /\ s \in 1..(seq + 1)
  BY <1>1, <1>2
<1>4. {r \in DOMAIN snaps' : r < s} = {r \in DOMAIN snaps : r < s}
  BY <1>1, <1>2, <1>3
<1>5. PreviousOf(s) \in survivors \cup {0}
  BY <1>1, <1>2, <1>3, PreviousIsThere DEF Earlier
<1>6. WorldAt(PreviousOf(s))' = WorldAt(PreviousOf(s))
  BY <1>2, <1>5 DEF WorldAt
<1>7. ASSUME NEW r \in survivors PROVE Prunes(r)' <=> Prunes(r)
  BY <1>2 DEF Prunes
<1>8. ASSUME NEW n \in NodeId PROVE RootBefore(s, n)' = RootBefore(s, n)
  <2> DEFINE before == {r \in SnapshotsTouching(n) : r < s}
  <2>1. before' = before
    BY <1>1, <1>2, <1>4 DEF SnapshotsTouching
  <2>2. before # {} => Max(before) \in before
    <3>1. before \in SUBSET (0..seq)
      BY <1>1 DEF SnapshotsTouching
    <3> HIDE DEF before
    <3> QED
      BY <1>1, <3>1, MaxOf
  <2>3. before \subseteq survivors
    BY <1>1, <1>2 DEF SnapshotsTouching
  <2>4. before # {} => snaps'[Max(before)].root = snaps[Max(before)].root
    BY <1>2, <2>2, <2>3
  <2>5. RootBefore(s, n) = IF before = {} THEN None ELSE snaps[Max(before)].root
    BY DEF RootBefore
  <2>6. RootBefore(s, n)' = IF before' = {} THEN None ELSE snaps'[Max(before')].root
    BY DEF RootBefore
  <2> HIDE DEF before
  <2> QED
    BY <2>1, <2>4, <2>5, <2>6
<1>9. DOMAIN WorldAt(PreviousOf(s)) \subseteq NodeId
  <2>1. \A r \in DOMAIN snaps : DOMAIN world[r] \subseteq NodeId
    BY DEF HistoryInv, PlacedInv, TypeInv, TypeOK, IsGraph, IsTable
  <2> QED
    BY <1>2, <1>5, <2>1 DEF WorldAt, EmptyGraph
<1>10. KnowsItsNodes(s)' <=> KnowsItsNodes(s)
  BY <1>2, <1>6, <1>8, <1>9 DEF KnowsItsNodes
<1>11. ASSUME snaps[s].hash.target # 0
       PROVE  Reaches(s, snaps[s].hash.target)' <=> Reaches(s, snaps[s].hash.target)
  <2> DEFINE t == snaps[s].hash.target
  <2>1. t \in survivors /\ snaps'[s] = snaps[s]
    BY <1>2, <1>3, <1>11 DEF HistoryInv
  <2>2. \A r : r \in DOMAIN snaps' /\ r < s <=> r \in DOMAIN snaps /\ r < s
    BY <1>4
  <2>3. \A r \in DOMAIN snaps : r < s => r \in survivors
    BY <1>2
  <2> QED
    BY <1>2, <1>7, <2>1, <2>2, <2>3 DEF Reaches
<1>12. Exact(s)' <=> Exact(s)
  BY <1>2, <1>7, <1>10, <1>11 DEF Exact
<1>13. (TellingRowsAt(s)' <=> TellingRowsAt(s)) /\ (ExactRowsAt(s)' <=> ExactRowsAt(s))
  BY <1>2, <1>6 DEF TellingRowsAt, ExactRowsAt
<1> QED
  BY <1>2, <1>4, <1>7, <1>12, <1>13

\* What every call hands to Land tells what it changed.
HistoryLanding(g, rows, hash, root, parent, survivors) ==
  /\ hash.target \in {0} \cup survivors
  /\ parent = head => RowsTell(nodes, g, rows)
  /\ LandsExact(g, hash, root, parent) => RowsExact(nodes, g, rows)

HistoryStep ==
  \E g, rows, hash, root, parent, survivors :
     /\ HistoryLanding(g, rows, hash, root, parent, survivors)
     /\ ChainStep(hash, parent, survivors)
     /\ Land(g, rows, hash, root, parent, survivors)

\* What a delta list must be for its rows to be exact.
RightDeltas(t, ds) ==
  /\ Faithful(nodes, ds)
  /\ \A n \in WithOp(ds, {"add", "mod"}) : t[n].content = ds[n].new
  /\ ClosedBelow(Put(nodes, t, WithOp(ds, {"add", "mod"})), WithOp(ds, {"rem"}))

LEMMA EmitTells ==
  ASSUME HistoryInv, NEW ds, NEW t, NEW hash, NEW root, hash.prev = head, hash.target = 0,
         IsTable(ds, DeltaRow), \A n \in DOMAIN ds : ds[n].op # "add" => n \in DOMAIN nodes,
         root = NoRoot \/ KnownUnder(root) => RightDeltas(t, ds),
         Emit(ds, t, hash, root)
  PROVE  HistoryStep
<1>1. IsGraph(nodes)
  BY DEF HistoryInv, PlacedInv, TypeInv, TypeOK
<1>2. RowsTell(nodes, ApplyDeltas(nodes, t, ds), RowsFor(nodes, ds))
  BY AppliedRowsTell
<1>3. RightDeltas(t, ds) => RowsExact(nodes, ApplyDeltas(nodes, t, ds), RowsFor(nodes, ds))
  BY <1>1, FaithfulIsExact DEF RightDeltas
<1>4. HistoryLanding(ApplyDeltas(nodes, t, ds), RowsFor(nodes, ds), hash, root, head, DOMAIN snaps)
  BY <1>2, <1>3 DEF HistoryLanding, LandsExact
<1>5. ChainStep(hash, head, DOMAIN snaps)
  BY DEF ChainStep, TailStep
<1> QED
  BY <1>4, <1>5 DEF Emit, HistoryStep

LEMMA ChangeTells ==
  ASSUME HistoryInv, NEW ds, NEW t, IsTable(ds, DeltaRow), RightDeltas(t, ds), EmitChange(ds, t)
  PROVE  HistoryStep
<1>1. ChangeHash(head, ds).prev = head /\ ChangeHash(head, ds).target = 0
  BY DEF ChangeHash
<1>2. \A n \in DOMAIN ds : ds[n].op # "add" => n \in DOMAIN nodes
  BY DEF RightDeltas, Faithful
<1> QED
  BY <1>1, <1>2, EmitTells DEF EmitChange

\* A comparison with what is stored, of nodes that are all that is stored of t.
LEMMA DiffIsFaithful ==
  ASSUME NEW g, NEW t, NEW known \in SUBSET DOMAIN g
  PROVE  LET ds == DiffFlat(t, ContentsOf(g, known)) IN
         /\ \A n \in DOMAIN ds : ds[n].op # "add" => n \in known
         /\ \A n \in WithOp(ds, {"add", "mod"}) : n \in DOMAIN t /\ t[n].content = ds[n].new
         /\ WithOp(ds, {"rem"}) = known \ DOMAIN t
         /\ DOMAIN t \cap DOMAIN g \subseteq known => Faithful(g, ds)
<1> DEFINE prev == ContentsOf(g, known)
           ds == DiffFlat(t, prev)
<1>1. DOMAIN prev = known /\ \A n \in known : prev[n] = g[n].content
  BY DEF ContentsOf
<1> HIDE DEF prev
<1>2. \A n \in DOMAIN ds : ds[n] = IF n \notin known THEN Added(t[n].content)
                                   ELSE IF n \in DOMAIN t THEN Modified(prev[n], t[n].content)
                                   ELSE Removed(prev[n])
  BY <1>1 DEF DiffFlat
<1>3. DOMAIN ds = {n \in DOMAIN t \cup known :
                     ~(n \in DOMAIN t /\ n \in known /\ prev[n] = t[n].content)}
  BY <1>1 DEF DiffFlat
<1> HIDE DEF ds
<1>4. \A n \in DOMAIN ds :
        /\ ds[n].op = IF n \notin known THEN "add" ELSE IF n \in DOMAIN t THEN "mod" ELSE "rem"
        /\ n \in DOMAIN t => ds[n].new = t[n].content
        /\ n \in known => ds[n].old = prev[n]
  <2> TAKE n \in DOMAIN ds
  <2>1. CASE n \notin known
    BY <1>2, <2>1 DEF Added
  <2>2. CASE n \in known /\ n \in DOMAIN t
    BY <1>2, <2>2 DEF Modified
  <2>3. CASE n \in known /\ n \notin DOMAIN t
    BY <1>2, <2>3 DEF Removed
  <2> QED
    BY <2>1, <2>2, <2>3
<1>5. \A n \in WithOp(ds, {"add", "mod"}) : n \in DOMAIN t /\ t[n].content = ds[n].new
  <2> SUFFICES ASSUME NEW n \in DOMAIN ds, ds[n].op \in {"add", "mod"}
               PROVE  n \in DOMAIN t /\ t[n].content = ds[n].new
    BY DEF WithOp
  <2>1. n \in known \/ n \in DOMAIN t
    BY <1>3
  <2> QED
    BY <1>4, <2>1
<1>6. WithOp(ds, {"rem"}) = known \ DOMAIN t
  BY <1>3, <1>4 DEF WithOp
<1>7. ASSUME DOMAIN t \cap DOMAIN g \subseteq known PROVE Faithful(g, ds)
  <2> SUFFICES ASSUME NEW n \in DOMAIN ds
               PROVE  /\ ds[n].op = "add" <=> n \notin DOMAIN g
                      /\ ds[n].op # "add" => ds[n].old = g[n].content
    BY DEF Faithful
  <2>1. n \in known <=> n \in DOMAIN g
    BY <1>3, <1>7
  <2> QED
    BY <1>1, <1>4, <2>1
<1> QED
  BY <1>4, <1>5, <1>6, <1>7 DEF ds, prev

LEMMA WriteTells ==
  ASSUME HistoryInv, NEW n \in NodeId, NEW c \in Content, WriteNode(n, c)
  PROVE  HistoryStep
<1> DEFINE t == [m \in {n} |-> WrittenRow(nodes, n, c)]
           known == {n} \cap DOMAIN nodes
           ds == DiffFlat(t, ContentsOf(nodes, known))
<1>1. IsGraph(nodes)
  BY DEF HistoryInv, PlacedInv, TypeInv, TypeOK
<1>2. \A m \in DOMAIN t : t[m].content \in Content
  BY <1>1 DEF WrittenRow, IsGraph, IsTable, NodeRow
<1>3. \A m \in DOMAIN ContentsOf(nodes, known) : ContentsOf(nodes, known)[m] \in Content
  BY <1>1 DEF ContentsOf, IsGraph, IsTable, NodeRow
<1>4. DOMAIN t \cup DOMAIN ContentsOf(nodes, known) \subseteq NodeId
  BY DEF ContentsOf
<1>5. known \in SUBSET DOMAIN nodes /\ DOMAIN t \cap DOMAIN nodes \subseteq known
      /\ known \ DOMAIN t = {}
  OBVIOUS
<1>6. EmitChange(ds, t)
  BY DEF WriteNode, WriteDeltas
<1> HIDE DEF t, known
<1>7. IsTable(ds, DeltaRow)
  BY <1>2, <1>3, <1>4, DiffIsDeltas
<1>8. RightDeltas(t, ds)
  BY <1>5, DiffIsFaithful DEF RightDeltas, ClosedBelow
<1> QED
  BY <1>6, <1>7, <1>8, ChangeTells

\* Removals of rows with nothing else below them.
LEMMA RemovalTells ==
  ASSUME HistoryInv, NEW S \in SUBSET DOMAIN nodes, ClosedBelow(nodes, S), NEW t,
         EmitChange(RemovalOf(nodes, S), t)
  PROVE  HistoryStep
<1> DEFINE ds == RemovalOf(nodes, S)
<1>1. IsTable(ds, DeltaRow)
  BY DEF HistoryInv, PlacedInv, TypeInv, TypeOK, RemovalOf, Removed, IsGraph, IsTable, NodeRow, DeltaRow
<1>2. WithOp(ds, {"add", "mod"}) = {} /\ WithOp(ds, {"rem"}) = S
  BY DEF WithOp, RemovalOf, Removed
<1>3. Faithful(nodes, ds)
  BY DEF Faithful, RemovalOf, Removed
<1> HIDE DEF ds
<1>4. ClosedBelow(Put(nodes, t, {}), S)
  BY DEF Put, ClosedBelow
<1>5. RightDeltas(t, ds)
  BY <1>2, <1>3, <1>4 DEF RightDeltas
<1> QED
  BY <1>1, <1>5, ChangeTells DEF ds

\* A file has all that is below its nodes.
LEMMA FilesClosed ==
  ASSUME PlacedInv, NEW fs \in SUBSET File, NEW n \in DOMAIN nodes,
         nodes[n].parent \in NodesOfFiles(fs)
  PROVE  n \in NodesOfFiles(fs)
<1>1. /\ n \in NodeId /\ nodes[n].parent \in NodeId /\ nodes[n].parent \in DOMAIN nodes
      /\ \A m \in DOMAIN nodes : Placed(m, nodes[m])
  BY NoNodeOutside DEF PlacedInv, TypeInv, TypeOK, IsGraph, IsTable, NodesOfFiles, AllPlaced
<1>2. nodes[n].file = HomeFile[n] /\ Above(n, nodes[n].parent)
  BY <1>1, NoNodeOutside DEF Placed
<1>3. nodes[nodes[n].parent].file = HomeFile[nodes[n].parent]
  BY <1>1, FileAssumption DEF Placed, NodesOfFiles
<1>4. HomeFile[nodes[n].parent] = HomeFile[n]
  BY <1>1, <1>2, AboveOrder
<1> QED
  BY <1>2, <1>3, <1>4 DEF NodesOfFiles

\* The children go up before their parent goes, so that nothing goes with it.
LEMMA ReparentTells ==
  ASSUME HistoryInv, NEW n \in DOMAIN nodes,
         EmitChange(ReparentDeltas(nodes, n), Promoted(nodes, n))
  PROVE  HistoryStep
<1> DEFINE ds == ReparentDeltas(nodes, n)
           t == Promoted(nodes, n)
           ups == ChildrenOf(nodes, n) \ {n}
<1>1. /\ IsGraph(nodes) /\ n \in NodeId /\ Placed(n, nodes[n])
      /\ \A m \in DOMAIN nodes : nodes[m] \in NodeRow /\ nodes[m].content \in Content
  BY DEF HistoryInv, PlacedInv, TypeInv, TypeOK, IsGraph, IsTable, NodeRow, AllPlaced
<1>2. /\ DOMAIN ds = ChildrenOf(nodes, n) \cup {n}
      /\ DOMAIN ds \subseteq DOMAIN nodes
      /\ ds[n].op = "rem" /\ ds[n].old = nodes[n].content
      /\ \A m \in ups : /\ ds[m].op = "mod" /\ ds[m].old = nodes[m].content
                        /\ ds[m].new = nodes[m].content
  BY DEF ReparentDeltas, ChildrenOf, Removed, Modified
<1>3. \A m \in ChildrenOf(nodes, n) : t[m] = [nodes[m] EXCEPT !.parent = nodes[n].parent]
  BY DEF Promoted
<1>4. ChildrenOf(nodes, n) = {c \in DOMAIN nodes : nodes[c].parent = n}
  BY DEF ChildrenOf
<1>5. EmitChange(ds, t)
  OBVIOUS
<1>6. IsTable(ds, DeltaRow)
  BY <1>1 DEF ReparentDeltas, ChildrenOf, Removed, Modified, IsGraph, IsTable, NodeRow, DeltaRow
<1> HIDE DEF ds, t
<1>7. Faithful(nodes, ds)
  BY <1>2 DEF Faithful
<1>8. WithOp(ds, {"add", "mod"}) = ups /\ WithOp(ds, {"rem"}) = {n}
  BY <1>2 DEF WithOp
<1>9. \A m \in ups : /\ t[m].content = nodes[m].content /\ ds[m].new = nodes[m].content
                     /\ t[m].parent = nodes[n].parent
  BY <1>1, <1>2, <1>3, <1>4 DEF NodeRow
<1>10. nodes[n].parent # n
  BY <1>1, AboveOrder, NoNodeOutside DEF Placed, NodeId
<1>11. ClosedBelow(Put(nodes, t, ups), {n})
  BY <1>4, <1>9, <1>10 DEF ClosedBelow, Put
<1>12. RightDeltas(t, ds)
  BY <1>7, <1>8, <1>9, <1>11 DEF RightDeltas
<1> QED
  BY <1>5, <1>6, <1>12, ChangeTells

\* A compile that knows what is stored of its files, and all that is below it.
LEMMA CompileTells ==
  ASSUME HistoryInv, NEW fs \in SUBSET File, NEW t \in Parses(fs), NEW known \in SUBSET DOMAIN nodes,
         NEW root \in Root, CompileTree(t, known, root),
         KnownUnder(root) => /\ DOMAIN t \cap DOMAIN nodes \subseteq known
                             /\ \A n \in DOMAIN nodes : nodes[n].parent \in known => n \in known
  PROVE  HistoryStep
<1> DEFINE prev == ContentsOf(nodes, known)
           ds == DiffFlat(t, prev)
           ups == WithOp(ds, {"add", "mod"})
<1>1. /\ IsGraph(nodes) /\ DOMAIN nodes \subseteq NodeId
      /\ \A n \in DOMAIN nodes : Placed(n, nodes[n])
  BY DEF HistoryInv, PlacedInv, TypeInv, TypeOK, IsGraph, IsTable, AllPlaced
<1>2. /\ DOMAIN t \subseteq NodeId
      /\ \A n \in DOMAIN t : /\ t[n].content \in Content
                             /\ t[n].parent = HomeParent[n]
                             /\ HomeParent[n] \in DOMAIN t \cup {NoNode}
  BY ParsedRows DEF NodeRow
<1>3. /\ Emit(ds, t, CompileHash(head, t), root)
      /\ CompileHash(head, t).prev = head /\ CompileHash(head, t).target = 0
  BY DEF CompileTree, CompileHash
<1>4. IsTable(ds, DeltaRow)
  <2>1. DOMAIN prev \subseteq NodeId /\ \A n \in DOMAIN prev : prev[n] \in Content
    BY <1>1 DEF ContentsOf, IsGraph, IsTable, NodeRow
  <2> HIDE DEF prev
  <2> QED
    BY <1>2, <2>1, DiffIsDeltas
<1>5. /\ \A n \in DOMAIN ds : ds[n].op # "add" => n \in DOMAIN nodes
      /\ \A n \in ups : n \in DOMAIN t /\ t[n].content = ds[n].new
      /\ WithOp(ds, {"rem"}) = known \ DOMAIN t
      /\ DOMAIN t \cap DOMAIN nodes \subseteq known => Faithful(nodes, ds)
  BY DiffIsFaithful
<1> HIDE DEF prev, ds
<1>6. ASSUME KnownUnder(root) PROVE ClosedBelow(Put(nodes, t, ups), known \ DOMAIN t)
  <2> SUFFICES ASSUME NEW n \in DOMAIN nodes \cup ups, NEW p \in known \ DOMAIN t,
                      p = (IF n \in ups THEN t[n] ELSE nodes[n]).parent
               PROVE  n \in known \ DOMAIN t
    BY DEF ClosedBelow, Put
  <2>1. p \in NodeId /\ p # NoNode
    BY <1>1, NoNodeOutside
  <2>2. n \notin ups
    BY <1>2, <1>5, <2>1
  <2>3. n \in known /\ n \in DOMAIN nodes /\ n \in NodeId
    BY <1>1, <1>6, <2>2
  <2>4. Above(n, p)
    BY <1>1, <2>1, <2>2, <2>3 DEF Placed
  <2>5. n \notin DOMAIN t
    BY <1>2, <2>3, <2>4, AboveIn DEF Above
  <2> QED
    BY <2>3, <2>5
<1>7. KnownUnder(root) => RightDeltas(t, ds)
  BY <1>5, <1>6 DEF RightDeltas
<1>8. root # NoRoot
  BY RootAssumption
<1> QED
  BY <1>3, <1>4, <1>5, <1>7, <1>8, EmitTells

LEMMA CompileDirTells ==
  ASSUME HistoryInv, NEW fs \in SUBSET File, NEW t \in Parses(fs), NEW root \in Root,
         CompileDir(root, fs, t)
  PROVE  HistoryStep
<1>1. NodesOfRoot(root) \in SUBSET DOMAIN nodes
  BY DEF NodesOfRoot
<1>2. DOMAIN nodes \subseteq NodeId /\ \A n \in DOMAIN nodes : Placed(n, nodes[n])
  BY DEF HistoryInv, PlacedInv, TypeInv, TypeOK, IsGraph, IsTable, AllPlaced
<1>3. \A n \in DOMAIN t : n \in NodeId /\ HomeFile[n] \in File
  BY ParsedRows
<1>4. ASSUME KnownUnder(root), NEW n \in DOMAIN nodes, nodes[n].parent \in NodesOfRoot(root)
      PROVE  n \in NodesOfRoot(root)
  <2>1. nodes[n].parent # NoNode
    BY <1>1, <1>2, <1>4, NoNodeOutside
  <2>2. n \in NodeId /\ HomeParent[n] # NoNode
    BY <1>2, <2>1 DEF Placed, Above
  <2>3. HomeFile[n] \in File
    BY <2>2, HomeAssumption, PayloadAssumption
  <2> QED
    BY <1>4, <2>3 DEF KnownUnder
<1>5. KnownUnder(root) => DOMAIN t \cap DOMAIN nodes \subseteq NodesOfRoot(root)
  BY <1>3 DEF KnownUnder
<1> QED
  BY <1>1, <1>4, <1>5, CompileTells DEF CompileDir

LEMMA CompileFilesTells ==
  ASSUME HistoryInv, NEW fs \in SUBSET File, NEW t \in Parses(fs), NEW root \in Root,
         CompileFiles(root, fs, t)
  PROVE  HistoryStep
<1>1. NodesOfFiles(fs) \in SUBSET DOMAIN nodes
  BY DEF NodesOfFiles
<1>2. \A n \in DOMAIN t : HomeFile[n] \in fs
  BY ParsedRows
<1>3. KnownUnder(root) => DOMAIN t \cap DOMAIN nodes \subseteq NodesOfFiles(fs)
  BY <1>2 DEF KnownUnder, NodesOfFiles
<1>4. \A n \in DOMAIN nodes : nodes[n].parent \in NodesOfFiles(fs) => n \in NodesOfFiles(fs)
  BY FilesClosed DEF HistoryInv
<1> QED
  BY <1>1, <1>3, <1>4, CompileTells DEF CompileFiles

\* From one number to the next: a snapshot is its own last one.
LEMMA PreviousNext ==
  ASSUME TailInv, NEW s \in 1..seq
  PROVE  PreviousOf(s + 1) = IF s \in DOMAIN snaps THEN s ELSE PreviousOf(s)
<1>1. seq \in Nat /\ DOMAIN snaps \subseteq 1..seq
  BY DEF TailInv
<1>2. CASE s \in DOMAIN snaps
  <2>1. s \in Earlier(s + 1) /\ Earlier(s + 1) \in SUBSET Int /\ \A r \in Earlier(s + 1) : r <= s
    BY <1>1, <1>2 DEF Earlier
  <2> QED
    BY <1>2, <2>1, MaxIs DEF PreviousOf
<1>3. CASE s \notin DOMAIN snaps
  <2>1. Earlier(s + 1) = Earlier(s)
    BY <1>1, <1>3 DEF Earlier
  <2> QED
    BY <1>3, <2>1 DEF PreviousOf
<1> QED
  BY <1>2, <1>3

LEMMA PreviousIsHead == ASSUME TailInv PROVE PreviousOf(seq + 1) = head
<1>1. seq \in Nat /\ DOMAIN snaps \subseteq 1..seq /\ head = seq /\ (head # 0 => head \in DOMAIN snaps)
  BY DEF TailInv, LinearChain
<1>2. head \in Earlier(seq + 1) /\ Earlier(seq + 1) \in SUBSET Int
      /\ \A r \in Earlier(seq + 1) : r <= head
  BY <1>1 DEF Earlier
<1> QED
  BY <1>2, MaxIs DEF PreviousOf

\* A walk over snapshots that pruned nothing brings back no node the target did not have.
LEMMA RestoredWithin ==
  ASSUME HistoryInv, NEW target \in DOMAIN snaps,
         \A r \in DOMAIN snaps : target < r => ~Prunes(r)
  PROVE  DOMAIN RestoreToSnapshot(target) \subseteq DOMAIN world[target]
<1> DEFINE Within(s) == {g \in Graphs : DOMAIN g \subseteq DOMAIN WorldAt(PreviousOf(s + 1))}
           Good == [s \in target..seq |-> Within(s)]
<1>1. /\ TailInv /\ seq \in Nat /\ target \in 1..seq /\ IsGraph(nodes) /\ WorldAt(head) = nodes
      /\ DOMAIN diffs = DOMAIN snaps
  BY DEF HistoryInv, PlacedInv, TypeInv, TypeOK, ChainInv, TailInv
<1>2. nodes \in Good[seq]
  BY <1>1, PreviousIsHead, GraphsAre
<1>3. ASSUME NEW s \in target..seq, s # seq, NEW g \in Good[s + 1] PROVE BackOne(g, s) \in Good[s]
  <2>1. s + 1 \in target..seq /\ s + 1 \in 1..seq /\ target < s + 1
    BY <1>1, <1>3
  <2>2. IsGraph(g) /\ DOMAIN g \subseteq DOMAIN WorldAt(PreviousOf((s + 1) + 1))
    BY <1>3, <2>1, GraphsAre
  <2>3. CASE s + 1 \notin DOMAIN snaps
    <3>1. PreviousOf((s + 1) + 1) = PreviousOf(s + 1) /\ BackOne(g, s) = g
      BY <1>1, <2>1, <2>3, PreviousNext DEF BackOne
    <3> QED
      BY <1>3, <2>2, <3>1, GraphsAre
  <2>4. CASE s + 1 \in DOMAIN snaps
    <3> DEFINE before == WorldAt(PreviousOf(s + 1))
               rows == diffs[s + 1]
    <3>1. PreviousOf((s + 1) + 1) = s + 1 /\ BackOne(g, s) = Undo(g, rows)
      BY <1>1, <2>1, <2>4, PreviousNext DEF BackOne
    <3>2. DOMAIN g \subseteq DOMAIN world[s + 1]
      BY <2>1, <2>2, <3>1 DEF WorldAt
    <3>3. IsTable(rows, DiffRow) /\ RowsTell(before, world[s + 1], rows)
      BY <1>1, <2>1, <2>4 DEF HistoryInv, TellingRowsAt, PlacedInv, TypeInv, TypeOK
    <3>4. IsGraph(Undo(g, rows))
      BY <2>2, <3>3, UndoIsGraph
    <3> HIDE DEF before, rows
    <3>5. DOMAIN Undo(g, rows) = {n \in DOMAIN g : n \in DOMAIN rows => rows[n].op # "add"}
                                 \cup {n \in DOMAIN rows : rows[n].op = "rem" /\ rows[n].meta # None}
      BY DEF Undo
    <3>6. DOMAIN Undo(g, rows) \subseteq DOMAIN before
      BY <3>2, <3>3, <3>5 DEF RowsTell
    <3> QED
      BY <1>3, <3>1, <3>4, <3>6, GraphsAre DEF before
  <2> QED
    BY <2>3, <2>4
<1>4. RestoreToSnapshot(target) \in Good[target]
  <2>1. target \in 0..seq
    BY <1>1
  <2> HIDE DEF Good
  <2> QED
    BY <1>1, <1>2, <1>3, <2>1, WalkKeeps
<1>5. PreviousOf(target + 1) = target /\ WorldAt(target) = world[target]
  BY <1>1, PreviousNext DEF WorldAt
<1> QED
  BY <1>1, <1>4, <1>5

\* The deltas of a rollback, and when there is one.
LEMMA RollbackDeltasAre ==
  ASSUME NEW g, NEW target
  PROVE  LET ds == RollbackDeltas(g, target) IN
         /\ DOMAIN ds \subseteq DOMAIN g \cup DOMAIN target
         /\ \A n \in DOMAIN g \cup DOMAIN target :
              n \in DOMAIN ds \/ (n \in DOMAIN g /\ n \in DOMAIN target /\ g[n] = target[n])
         /\ \A n \in DOMAIN ds :
              \/ /\ n \notin DOMAIN g /\ n \in DOMAIN target
                 /\ ds[n].op = "add" /\ ds[n].new = target[n].content
              \/ /\ n \in DOMAIN g /\ n \in DOMAIN target
                 /\ ds[n].op = "mod" /\ ds[n].old = g[n].content /\ ds[n].new = target[n].content
              \/ /\ n \in DOMAIN g /\ n \notin DOMAIN target
                 /\ ds[n].op = "rem" /\ ds[n].old = g[n].content
<1> DEFINE ds == RollbackDeltas(g, target)
<1>1. DOMAIN ds = {n \in DOMAIN g \cup DOMAIN target :
                     ~(n \in DOMAIN g /\ n \in DOMAIN target /\ g[n] = target[n])}
  BY DEF RollbackDeltas
<1>2. ASSUME NEW n \in DOMAIN ds
      PROVE  ds[n] = IF n \notin DOMAIN target THEN Removed(g[n].content)
                     ELSE IF n \notin DOMAIN g THEN Added(target[n].content)
                     ELSE Modified(g[n].content, target[n].content)
  BY DEF RollbackDeltas
<1> HIDE DEF ds
<1>3. ASSUME NEW n \in DOMAIN ds
      PROVE  \/ /\ n \notin DOMAIN g /\ n \in DOMAIN target
                /\ ds[n].op = "add" /\ ds[n].new = target[n].content
             \/ /\ n \in DOMAIN g /\ n \in DOMAIN target
                /\ ds[n].op = "mod" /\ ds[n].old = g[n].content /\ ds[n].new = target[n].content
             \/ /\ n \in DOMAIN g /\ n \notin DOMAIN target
                /\ ds[n].op = "rem" /\ ds[n].old = g[n].content
  <2>1. n \in DOMAIN g \cup DOMAIN target
    BY <1>1
  <2>2. CASE n \notin DOMAIN target
    BY <1>2, <2>1, <2>2 DEF Removed
  <2>3. CASE n \in DOMAIN target /\ n \notin DOMAIN g
    BY <1>2, <2>3 DEF Added
  <2>4. CASE n \in DOMAIN target /\ n \in DOMAIN g
    BY <1>2, <2>4 DEF Modified
  <2> QED
    BY <2>2, <2>3, <2>4
<1> QED
  BY <1>1, <1>3 DEF ds

\* A rollback that reaches its target starts from a table within the target: whatever has no
\* delta is in both, and no removal took it.
LEMMA ReachedIsExact ==
  ASSUME NEW g, NEW restored, NEW h, IsGraph(g), IsGraph(restored),
         h = ApplyInIdOrder(g, restored, RollbackDeltas(g, restored)),
         DOMAIN restored \subseteq DOMAIN h
  PROVE  RowsExact(g, h, RowsFor(g, RollbackDeltas(g, restored)))
<1> DEFINE ds == RollbackDeltas(g, restored)
           rows == RowsFor(g, ds)
<1>1. /\ DOMAIN ds \subseteq DOMAIN g \cup DOMAIN restored
      /\ \A n \in DOMAIN g \cup DOMAIN restored :
           n \in DOMAIN ds \/ (n \in DOMAIN g /\ n \in DOMAIN restored /\ g[n] = restored[n])
      /\ \A n \in DOMAIN ds :
           \/ /\ n \notin DOMAIN g /\ n \in DOMAIN restored
              /\ ds[n].op = "add" /\ ds[n].new = restored[n].content
           \/ /\ n \in DOMAIN g /\ n \in DOMAIN restored
              /\ ds[n].op = "mod" /\ ds[n].old = g[n].content /\ ds[n].new = restored[n].content
           \/ /\ n \in DOMAIN g /\ n \notin DOMAIN restored
              /\ ds[n].op = "rem" /\ ds[n].old = g[n].content
  BY RollbackDeltasAre
<1>2. h = ApplyInIdOrder(g, restored, ds)
  OBVIOUS
<1>3. /\ DOMAIN rows = DOMAIN ds
      /\ \A n \in DOMAIN ds : /\ rows[n].op = ds[n].op /\ rows[n].old = ds[n].old
                              /\ rows[n].new = ds[n].new /\ rows[n].meta = PreState(g, ds, n)
  BY DEF RowsFor
<1> HIDE DEF ds, rows
<1>4. DOMAIN g \subseteq NodeId /\ DOMAIN ds \subseteq NodeId
  BY <1>1 DEF IsGraph, IsTable
<1>5. \A n \in DOMAIN h : IF n \in DOMAIN ds THEN ds[n].op # "rem" /\ h[n] = restored[n]
                          ELSE n \in DOMAIN g /\ h[n] = g[n]
  BY <1>2, <1>4, RollbackRows
<1>6. ASSUME NEW n \in DOMAIN ds PROVE RowExact(g, h, n, rows[n])
  <2>1. CASE ds[n].op = "add"
    BY <1>1, <1>3, <1>5, <2>1 DEF RowExact
  <2>2. CASE ds[n].op = "mod"
    BY <1>1, <1>3, <1>5, <2>2 DEF RowExact, PreState
  <2>3. CASE ds[n].op = "rem"
    BY <1>1, <1>3, <1>5, <2>3 DEF RowExact, PreState
  <2> QED
    BY <1>1, <2>1, <2>2, <2>3
<1>7. ASSUME NEW n \in NodeId, n \notin DOMAIN ds PROVE Unchanged(g, h, n)
  BY <1>1, <1>5, <1>7 DEF Unchanged
<1>8. RowsExact(g, h, rows)
  BY <1>3, <1>6, <1>7 DEF RowsExact
<1> QED
  BY <1>8 DEF ds, rows

LEMMA RollbackTells ==
  ASSUME HistoryInv, NEW target \in 1..seq, NEW d \in BOOLEAN, Rollback(target, d)
  PROVE  HistoryStep
<1> DEFINE restored == RestoreToSnapshot(target)
           ds == RollbackDeltas(nodes, restored)
           g == ApplyInIdOrder(nodes, restored, ds)
           rows == RowsFor(nodes, ds)
           hash == RollbackHash(head, target, ds)
           parent == RollbackParent(target, d)
           survivors == DOMAIN snaps \ (IF d THEN Pruned(target) ELSE {})
<1>1. /\ IsGraph(nodes) /\ target \in 0..seq /\ PlacedInv
      /\ seq \in Nat /\ DOMAIN snaps \subseteq 1..seq
  BY DEF HistoryInv, PlacedInv, TypeInv, TypeOK, ChainInv, TailInv
<1>2. IsGraph(restored)
  BY <1>1, RestoredPlaced
<1>3. /\ target \in DOMAIN snaps /\ target < head
      /\ Land(g, rows, hash, NoRoot, parent, survivors)
  BY DEF Rollback
<1>4. ChainStep(hash, parent, survivors)
  BY <1>3 DEF ChainStep, TailStep, RollbackParent, RollbackHash, Pruned
<1>5. hash.target = target /\ target \in survivors /\ target # 0
  BY <1>1, <1>3 DEF RollbackHash, Pruned
<1> HIDE DEF restored
<1>6. RowsTell(nodes, g, rows)
  <2>1. /\ DOMAIN ds \subseteq DOMAIN nodes \cup DOMAIN restored
        /\ \A n \in DOMAIN ds : /\ ds[n].op = "rem" => n \in DOMAIN nodes
                                /\ n \in DOMAIN nodes \/ ds[n].op = "add"
    BY RollbackDeltasAre
  <2>2. DOMAIN rows = DOMAIN ds /\ \A n \in DOMAIN ds : rows[n].op = ds[n].op
    BY DEF RowsFor
  <2>3. DOMAIN nodes \subseteq NodeId /\ DOMAIN ds \subseteq NodeId
    BY <1>1, <1>2, <2>1 DEF IsGraph, IsTable
  <2> HIDE DEF ds, rows
  <2>4. \A n \in DOMAIN g : n \in DOMAIN ds \/ n \in DOMAIN nodes
    BY <2>3, RollbackRows
  <2> QED
    BY <2>1, <2>2, <2>4 DEF RowsTell
<1>7. ASSUME LandsExact(g, hash, NoRoot, parent) PROVE RowsExact(nodes, g, rows)
  <2>1. g = world[target] /\ \A r \in DOMAIN snaps : target < r => ~Prunes(r)
    BY <1>5, <1>7 DEF LandsExact
  <2>2. DOMAIN restored \subseteq DOMAIN g
    BY <1>3, <2>1, RestoredWithin DEF restored
  <2> QED
    BY <1>1, <1>2, <2>2, ReachedIsExact
<1>8. HistoryLanding(g, rows, hash, NoRoot, parent, survivors)
  BY <1>5, <1>6, <1>7 DEF HistoryLanding
<1> HIDE DEF g, rows, hash, parent, survivors
<1> QED
  BY <1>3, <1>4, <1>8 DEF HistoryStep

LEMMA NextTells == HistoryInv /\ Next => HistoryStep
<1> SUFFICES ASSUME HistoryInv, Next PROVE HistoryStep
  OBVIOUS
<1>0. PlacedInv
  BY DEF HistoryInv
<1>1. ASSUME NEW n \in NodeId \cup {NoNode}, NEW c \in Content, Write(n, c) PROVE HistoryStep
  <2>1. PICK m \in NodeId : WriteNode(m, c)
    BY <1>1, HomeAssumption DEF Write
  <2> QED
    BY <2>1, WriteTells
<1>2. ASSUME NEW n \in NodeId, NEW c \in Content, Summarize(n, c) PROVE HistoryStep
  BY <1>2, WriteTells DEF Summarize
<1>3. ASSUME NEW n \in NodeId, ForgetStrict(n) PROVE HistoryStep
  <2>1. {n} \in SUBSET DOMAIN nodes /\ ClosedBelow(nodes, {n})
    BY <1>3 DEF ForgetStrict, ChildrenOf, ClosedBelow
  <2> QED
    BY <1>3, <2>1, RemovalTells DEF ForgetStrict
<1>4. ASSUME NEW n \in NodeId, ForgetCascade(n) PROVE HistoryStep
  <2>1. Subtree(nodes, n) \in SUBSET DOMAIN nodes /\ ClosedBelow(nodes, Subtree(nodes, n))
    BY CascadeCloses DEF Subtree
  <2> QED
    BY <1>4, <2>1, RemovalTells DEF ForgetCascade
<1>5. ASSUME NEW n \in NodeId, ForgetReparent(n) PROVE HistoryStep
  BY <1>5, ReparentTells DEF ForgetReparent
<1>6. ASSUME NEW fs \in SUBSET File, PurgeFiles(fs) PROVE HistoryStep
  <2>1. NodesOfFiles(fs) \in SUBSET DOMAIN nodes /\ ClosedBelow(nodes, NodesOfFiles(fs))
    BY <1>0, FilesClosed DEF NodesOfFiles, ClosedBelow
  <2> QED
    BY <1>6, <2>1, RemovalTells DEF PurgeFiles
<1> QED
  BY <1>1, <1>2, <1>3, <1>4, <1>5, <1>6, CompileDirTells, CompileFilesTells, RollbackTells DEF Next

\* A landed snapshot is exact only if it was so to be told before it landed.
LEMMA ExactIsTold ==
  ASSUME HistoryInv, TypeInv',
         NEW g, NEW rows, NEW hash, NEW root, NEW parent, NEW survivors, NEW id \in Nat,
         ChainStep(hash, parent, survivors), hash.target \in {0} \cup survivors,
         id = seq + 1,
         LandedOn(g, rows, [hash |-> hash, parent |-> parent, root |-> root], parent, survivors, id)
  PROVE  /\ ~Prunes(id)' => parent = head /\ WorldAt(PreviousOf(id))' = nodes
         /\ Exact(id)' => LandsExact(g, hash, root, parent)
<1>1. /\ TailInv /\ seq \in Nat /\ DOMAIN snaps \subseteq 1..seq /\ head = seq
      /\ (head # 0 => head \in DOMAIN snaps) /\ WorldAt(head) = nodes
      /\ DOMAIN nodes \subseteq NodeId /\ DOMAIN diffs = DOMAIN snaps
  BY DEF HistoryInv, PlacedInv, TypeInv, TypeOK, ChainInv, TailInv, LinearChain, IsGraph, IsTable
<1>2. /\ id \notin DOMAIN snaps /\ survivors \subseteq DOMAIN snaps
      /\ DOMAIN snaps' = survivors \cup {id} /\ DOMAIN diffs' = survivors \cup {id}
      /\ snaps'[id] = [hash |-> hash, parent |-> parent, root |-> root] /\ world'[id] = g
      /\ \A s \in survivors : snaps'[s] = snaps[s] /\ diffs'[s] = diffs[s] /\ world'[s] = world[s]
      /\ PreviousOf(id)' = parent
      /\ \A s \in survivors : s < id
  BY DEF LandedOn
<1>3. parent = head => survivors = DOMAIN snaps
  BY <1>1 DEF ChainStep, TailStep
<1>4. ASSUME ~Prunes(id)' PROVE parent = head /\ WorldAt(PreviousOf(id))' = nodes
  <2>1. parent = head
    BY <1>2, <1>4 DEF Prunes, ChainStep
  <2>2. head # 0 => world'[head] = world[head]
    BY <1>1, <1>2, <1>3, <2>1
  <2> QED
    BY <1>1, <1>2, <2>1, <2>2 DEF WorldAt
<1>5. ASSUME Exact(id)' PROVE LandsExact(g, hash, root, parent)
  <2>1. ~Prunes(id)' /\ KnowsItsNodes(id)'
    BY <1>5 DEF Exact
  <2>2. parent = head /\ WorldAt(PreviousOf(id))' = nodes /\ survivors = DOMAIN snaps
    BY <1>3, <1>4, <2>1
  <2>3. ASSUME root # NoRoot PROVE KnownUnder(root)
    <3>1. root \in Root /\ root # None
      BY <1>2, <2>3, RootAssumption DEF TypeInv, TypeOK, IsSnapshot
    <3>2. \A n \in DOMAIN nodes : HomeFile[n] \in File =>
            nodes[n].file = HomeFile[n] /\ RootBefore(id, n)' = root
      BY <1>2, <2>1, <2>2, <2>3 DEF KnowsItsNodes
    <3>3. ASSUME NEW n \in DOMAIN nodes, RootBefore(id, n)' = root PROVE n \in NodesOfRoot(root)
      <4> DEFINE before == {r \in SnapshotsTouching(n) : r < id}
                 touching == SnapshotsTouching(n)
      <4>1. before' = touching
        BY <1>1, <1>2, <2>2 DEF SnapshotsTouching
      <4>2. RootBefore(id, n)' = IF before' = {} THEN None ELSE snaps'[Max(before')].root
        BY DEF RootBefore
      <4>3. touching \in SUBSET (0..seq) /\ touching \subseteq survivors
        BY <1>1, <2>2 DEF SnapshotsTouching
      <4> HIDE DEF before
      <4>4. touching # {} /\ snaps'[Max(touching)].root = root
        BY <3>1, <3>3, <4>1, <4>2
      <4> HIDE DEF touching
      <4>5. Max(touching) \in touching
        BY <1>1, <4>3, <4>4, MaxOf
      <4>6. snaps[Max(touching)].root = root
        BY <1>2, <4>3, <4>4, <4>5
      <4> QED
        BY <4>4, <4>6 DEF NodesOfRoot, touching
    <3> QED
      BY <3>2, <3>3 DEF KnownUnder
  <2>4. ASSUME hash.target # 0
        PROVE  g = world[hash.target] /\ \A r \in DOMAIN snaps : hash.target < r => ~Prunes(r)
    <3>1. Reaches(id, hash.target)'
      BY <1>2, <1>5, <2>4 DEF Exact
    <3>2. hash.target \in survivors
      BY <2>4
    <3>3. \A r \in DOMAIN snaps : Prunes(r)' <=> Prunes(r)
      BY <2>2, SurvivorsStay
    <3> QED
      BY <1>2, <2>2, <3>1, <3>2, <3>3 DEF Reaches
  <2> QED
    BY <2>2, <2>3, <2>4 DEF LandsExact
<1> QED
  BY <1>4, <1>5

LEMMA HistoryInit == Init => HistoryInv
  BY PlacedInit DEF Init, HistoryInv, WorldAt

LEMMA HistoryPreserved == HistoryInv /\ [Next]_vars => HistoryInv'
<1> SUFFICES ASSUME HistoryInv, [Next]_vars PROVE HistoryInv'
  OBVIOUS
<1>1. PlacedInv'
  BY PlacedPreserved DEF HistoryInv
<1>2. CASE UNCHANGED vars
  <2>1. \A s \in DOMAIN snaps : /\ PreviousOf(s)' = PreviousOf(s)
                                /\ \A n : RootBefore(s, n)' = RootBefore(s, n)
    BY <1>2 DEF vars, PreviousOf, Earlier, RootBefore, SnapshotsTouching
  <2> QED
    BY <1>1, <1>2, <2>1 DEF vars, HistoryInv, WorldAt, Prunes, TellingRowsAt, ExactRowsAt, Exact,
                           KnowsItsNodes, Reaches
<1>3. CASE Next
  <2>1. PICK g, rows, hash, root, parent, survivors :
          /\ HistoryLanding(g, rows, hash, root, parent, survivors)
          /\ ChainStep(hash, parent, survivors)
          /\ Land(g, rows, hash, root, parent, survivors)
    BY <1>3, NextTells DEF HistoryStep
  <2> DEFINE entry == [hash |-> hash, parent |-> parent, root |-> root]
  <2>2. PICK id \in Nat : id = seq + 1 /\ LandedOn(g, rows, entry, parent, survivors, id)
    BY <2>1, LandsOnTop DEF ChainStep, HistoryInv, PlacedInv, TypeInv, ChainInv
  <2>3. /\ seq \in Nat /\ nodes' = g /\ head' = id /\ world'[id] = g /\ diffs'[id] = rows
        /\ DOMAIN snaps' = survivors \cup {id} /\ survivors \subseteq DOMAIN snaps
        /\ \A s \in survivors : s < id
        /\ snaps'[id].hash = hash
    BY <2>2 DEF LandedOn, HistoryInv, PlacedInv, TypeInv, ChainInv, TailInv
  <2>4. /\ ~Prunes(id)' => parent = head /\ WorldAt(PreviousOf(id))' = nodes
        /\ Exact(id)' => LandsExact(g, hash, root, parent)
    BY <1>1, <2>1, <2>2, ExactIsTold DEF HistoryLanding, PlacedInv
  <2>5. WorldAt(head)' = nodes'
    BY <2>2, <2>3 DEF WorldAt
  <2>6. /\ snaps'[id].hash.target \in {0} \cup {r \in DOMAIN snaps' : r < id}
        /\ ~Prunes(id)' => TellingRowsAt(id)'
        /\ Exact(id)' => ExactRowsAt(id)'
    BY <2>1, <2>3, <2>4 DEF HistoryLanding, TellingRowsAt, ExactRowsAt, Exact
  <2>7. ASSUME NEW s \in survivors
        PROVE  /\ snaps'[s].hash.target \in {0} \cup {r \in DOMAIN snaps' : r < s}
               /\ ~Prunes(s)' => TellingRowsAt(s)'
               /\ Exact(s)' => ExactRowsAt(s)'
    BY <2>2, <2>3, SurvivorsStay DEF HistoryInv
  <2> QED
    BY <1>1, <2>3, <2>5, <2>6, <2>7 DEF HistoryInv
<1> QED
  BY <1>2, <1>3

\* Undoing the rows of an exact snapshot gives the node table before it.
THEOREM StepsReversible == Spec => []StepReversible
<1>1. HistoryInv => StepReversible
  <2> SUFFICES ASSUME HistoryInv, NEW s \in DOMAIN diffs, Exact(s)
               PROVE  Undo(world[s], diffs[s]) = WorldAt(PreviousOf(s))
    BY DEF StepReversible
  <2>1. /\ TailInv /\ s \in DOMAIN snaps /\ s \in 1..seq /\ seq \in Nat
        /\ IsGraph(world[s]) /\ IsTable(diffs[s], DiffRow)
        /\ \A r \in DOMAIN snaps : IsGraph(world[r])
    BY DEF HistoryInv, PlacedInv, TypeInv, TypeOK, ChainInv, TailInv
  <2>2. PreviousOf(s) \in DOMAIN snaps \cup {0}
    BY <2>1, PreviousIsThere DEF Earlier
  <2>3. IsGraph(WorldAt(PreviousOf(s)))
    BY <2>1, <2>2, EmptyIsGraph DEF WorldAt
  <2> QED
    BY <2>1, <2>3, ExactRowsUndo DEF HistoryInv, ExactRowsAt, IsGraph, IsTable
<1> QED
  BY <1>1, HistoryInit, HistoryPreserved, PTL DEF Spec

-----------------------------------------------------------------------------
(* The walk back over exact snapshots, and where a rollback lands.         *)

LEMMA RestoredIsWorld ==
  ASSUME HistoryInv, StepReversible, NEW target \in DOMAIN snaps, ExactBetween(target, head)
  PROVE  RestoreToSnapshot(target) = world[target]
<1> DEFINE Good == [s \in target..seq |-> {WorldAt(PreviousOf(s + 1))}]
<1>1. /\ TailInv /\ seq \in Nat /\ target \in 1..seq /\ WorldAt(head) = nodes /\ head = seq
      /\ DOMAIN diffs = DOMAIN snaps
  BY DEF HistoryInv, PlacedInv, TypeInv, TypeOK, ChainInv, TailInv, LinearChain
<1>2. nodes \in Good[seq]
  BY <1>1, PreviousIsHead
<1>3. ASSUME NEW s \in target..seq, s # seq, NEW g \in Good[s + 1] PROVE BackOne(g, s) \in Good[s]
  <2>1. s + 1 \in target..seq /\ s + 1 \in 1..seq /\ target < s + 1 /\ s + 1 <= head
    BY <1>1, <1>3
  <2>2. g = WorldAt(PreviousOf((s + 1) + 1))
    BY <2>1
  <2>3. BackOne(g, s) = WorldAt(PreviousOf(s + 1))
    <3>1. CASE s + 1 \notin DOMAIN snaps
      BY <1>1, <2>1, <2>2, <3>1, PreviousNext DEF BackOne
    <3>2. CASE s + 1 \in DOMAIN snaps
      <4>1. PreviousOf((s + 1) + 1) = s + 1 /\ BackOne(g, s) = Undo(g, diffs[s + 1])
        BY <1>1, <2>1, <3>2, PreviousNext DEF BackOne
      <4>2. g = world[s + 1]
        BY <2>1, <2>2, <4>1 DEF WorldAt
      <4>3. Exact(s + 1)
        BY <2>1, <3>2 DEF ExactBetween
      <4> QED
        BY <1>1, <3>2, <4>1, <4>2, <4>3 DEF StepReversible
    <3> QED
      BY <3>1, <3>2
  <2> QED
    BY <2>3
<1>4. RestoreToSnapshot(target) \in Good[target]
  <2>1. target \in 0..seq
    BY <1>1
  <2> HIDE DEF Good
  <2> QED
    BY <1>1, <1>2, <1>3, <2>1, WalkKeeps
<1>5. PreviousOf(target + 1) = target /\ WorldAt(target) = world[target]
  BY <1>1, PreviousNext DEF WorldAt
<1> QED
  BY <1>1, <1>4, <1>5

\* Rows alone rebuild every snapshot behind exact ones, however long the walk.
THEOREM RestoreIsExact == Spec => []RestoreExact
<1>1. HistoryInv /\ StepReversible => RestoreExact
  BY RestoredIsWorld DEF RestoreExact
<1> QED
  BY <1>1, HistoryInit, HistoryPreserved, StepsReversible, PTL DEF Spec

\* A removal by cascade takes no node of a table that has the parents of its nodes, when the
\* nodes it shares with that table hang where they hang there.
LEMMA CascadeSpares ==
  ASSUME NEW h, NEW target, NEW n, FKIntact(target), n \notin DOMAIN target,
         NoNode \notin DOMAIN h,
         \A m \in DOMAIN h \cap DOMAIN target : h[m].parent = target[m].parent
  PROVE  DOMAIN h \cap DOMAIN target \subseteq DOMAIN Drop(h, {n})
<1> DEFINE C == DOMAIN h \ DOMAIN target
<1>1. ClosedBelow(h, C)
  BY DEF ClosedBelow, FKIntact
<1>2. C \in SUBSET DOMAIN h /\ {n} \cap DOMAIN h \subseteq C
  OBVIOUS
<1> HIDE DEF C
<1>3. Cascade(h, {n}) \subseteq C
  BY <1>1, <1>2, CascadeLeast
<1> QED
  BY <1>3 DEF C, Drop, Restrict

\* The statements of a rollback lose nothing of the target.
LEMMA PassLands ==
  ASSUME NEW g, NEW target, IsGraph(g), IsGraph(target), FKIntact(target),
         \A m \in DOMAIN g \cap DOMAIN target : g[m].parent = target[m].parent
  PROVE  ApplyInIdOrder(g, target, RollbackDeltas(g, target)) = target
<1> DEFINE ds == RollbackDeltas(g, target)
           h == ApplyInIdOrder(g, target, ds)
<1>1. /\ DOMAIN ds \subseteq DOMAIN g \cup DOMAIN target
      /\ \A n \in DOMAIN g \cup DOMAIN target :
           n \in DOMAIN ds \/ (n \in DOMAIN g /\ n \in DOMAIN target /\ g[n] = target[n])
      /\ \A n \in DOMAIN ds : ds[n].op = "rem" <=> n \notin DOMAIN target
  BY RollbackDeltasAre
<1>2. /\ DOMAIN g \subseteq NodeId /\ DOMAIN target \subseteq NodeId /\ NodeCount \in Nat
      /\ target = [n \in DOMAIN target |-> target[n]]
  BY NodeCountAssumption DEF IsGraph, IsTable
<1>3. PICK p : IsPass(p, g, target, ds) /\ h = p[NodeCount]
  BY PassExists
<1>4. IsFun(h)
  BY <1>2, RolledBackIsFun DEF IsFun, IsGraph, IsTable
<1> HIDE DEF ds, h
<1> DEFINE Kept(k) ==
             /\ DOMAIN p[k] \subseteq NodeId
             /\ \A m \in DOMAIN target : m \in DOMAIN g \/ m <= k => m \in DOMAIN p[k]
             /\ \A m \in DOMAIN p[k] \cap DOMAIN target : p[k][m].parent = target[m].parent
           S == {k \in Nat : k <= NodeCount => Kept(k)}
<1>5. 0 \in S
  <2>1. p[0] = g
    BY <1>2, <1>3 DEF IsPass
  <2> QED
    BY <1>2, <2>1 DEF NodeId
<1>6. ASSUME NEW k \in S PROVE k + 1 \in S
  <2> SUFFICES ASSUME k + 1 <= NodeCount PROVE Kept(k + 1)
    OBVIOUS
  <2>1. PICK i \in NodeId : i = k + 1
    BY <1>2 DEF NodeId
  <2>2. k \in Nat /\ Kept(k) /\ i - 1 = k /\ i \in 0..NodeCount /\ i # 0
    BY <1>2, <2>1
  <2>3. p[i] = IF i \notin DOMAIN ds THEN p[k]
               ELSE IF ds[i].op = "rem" THEN Drop(p[k], {i})
               ELSE Put(p[k], target, {i})
    BY <1>3, <2>2 DEF IsPass
  <2>4. \A m \in DOMAIN target : m <= i <=> (m <= k \/ m = i)
    BY <1>2, <2>1, <2>2 DEF NodeId
  <2>5. CASE i \notin DOMAIN ds
    BY <1>1, <2>1, <2>2, <2>3, <2>4, <2>5
  <2>6. CASE i \in DOMAIN ds /\ ds[i].op = "rem"
    <3>1. p[i] = Drop(p[k], {i}) /\ i \notin DOMAIN target
      BY <1>1, <2>3, <2>6
    <3>2. NoNode \notin DOMAIN p[k]
      BY <2>2, NoNodeOutside
    <3>3. DOMAIN p[k] \cap DOMAIN target \subseteq DOMAIN p[i]
      BY <2>2, <3>1, <3>2, CascadeSpares
    <3>4. DOMAIN p[i] \subseteq DOMAIN p[k] /\ \A m \in DOMAIN p[i] : p[i][m] = p[k][m]
      <4> HIDE DEF Kept
      <4> QED
        BY <3>1, DropKeepsRows
    <3> QED
      BY <2>1, <2>2, <2>4, <3>1, <3>3, <3>4
  <2>7. CASE i \in DOMAIN ds /\ ds[i].op # "rem"
    <3>1. p[i] = [m \in DOMAIN p[k] \cup {i} |-> IF m \in {i} THEN target[m] ELSE p[k][m]]
      BY <2>3, <2>7 DEF Put
    <3> QED
      BY <2>1, <2>2, <2>4, <3>1
  <2> QED
    BY <2>5, <2>6, <2>7
<1>7. S = Nat
  <2>1. S \in SUBSET Nat
    OBVIOUS
  <2> HIDE DEF S
  <2> QED
    BY <1>5, <1>6, <2>1, SetInduction
<1>8. DOMAIN target \subseteq DOMAIN h
  BY <1>2, <1>3, <1>7 DEF NodeId
<1>9. \A n \in DOMAIN h : n \in DOMAIN target /\ h[n] = target[n]
  <2>1. DOMAIN ds \subseteq NodeId
    BY <1>1, <1>2
  <2>2. \A n \in DOMAIN h : IF n \in DOMAIN ds THEN ds[n].op # "rem" /\ h[n] = target[n]
                            ELSE n \in DOMAIN g /\ h[n] = g[n]
    BY <1>2, <2>1, RollbackRows DEF h
  <2> QED
    BY <1>1, <2>2
<1>10. h = target
  BY <1>2, <1>4, <1>8, <1>9 DEF IsFun
<1> QED
  BY <1>10 DEF h, ds

\* A rollback over exact snapshots, of nodes that have not moved, leaves the table of its
\* target, in whatever order its removals cascade.
THEOREM RollbacksLand == Spec => RollbackLands
<1> DEFINE Lands1 == \A s \in DOMAIN snaps :
                       ExactBetween(s, head) /\ SamePlaces(s) /\ RollbackStep(s) => nodes' = world[s]
<1>1. HistoryInv /\ StepReversible /\ [Next]_vars => [Lands1]_vars
  <2> SUFFICES ASSUME HistoryInv, StepReversible, NEW s \in DOMAIN snaps,
                      ExactBetween(s, head), SamePlaces(s), NEW d \in BOOLEAN, Rollback(s, d)
               PROVE  nodes' = world[s]
    BY DEF RollbackStep
  <2>1. IsGraph(nodes) /\ IsGraph(world[s]) /\ FKIntact(world[s])
    BY DEF HistoryInv, PlacedInv, TypeInv, TypeOK
  <2>2. RestoreToSnapshot(s) = world[s]
    BY RestoredIsWorld
  <2>3. nodes' = ApplyInIdOrder(nodes, world[s], RollbackDeltas(nodes, world[s]))
    BY <2>2 DEF Rollback, Land
  <2> QED
    BY <2>1, <2>3, PassLands DEF SamePlaces
<1> QED
  BY <1>1, HistoryInit, HistoryPreserved, StepsReversible, PTL DEF Spec, RollbackLands

-----------------------------------------------------------------------------
(* The net change between two snapshots.                                   *)

\* The content of a node at a snapshot; contents are never NULL.
HeldAt(s, n) == IF n \in DOMAIN WorldAt(s) THEN WorldAt(s)[n].content ELSE None

\* The row of a change from content a to content b, NULL for a node that is not there.
RowOfChange(a, b) ==
  IF a = None THEN Added(b) ELSE IF b = None THEN Removed(a) ELSE Modified(a, b)

\* Min of a set of natural numbers.
LEMMA MinOf ==
  ASSUME NEW S \in SUBSET Nat, S # {}
  PROVE  Min(S) \in S /\ \A x \in S : Min(S) <= x
<1>1. \E m \in S : \A x \in S : m <= x
  BY LeastNat
<1> QED
  BY <1>1 DEF Min

\* What the tables and the previous snapshot are to HistoryInv.
LEMMA HistoryFacts ==
  ASSUME HistoryInv
  PROVE  /\ TailInv /\ seq \in Nat /\ DOMAIN snaps \subseteq 1..seq
         /\ DOMAIN diffs = DOMAIN snaps
         /\ \A s \in DOMAIN snaps \cup {0} : IsGraph(WorldAt(s))
         /\ \A s \in DOMAIN snaps : PreviousOf(s) \in DOMAIN snaps \cup {0} /\ PreviousOf(s) < s
         /\ \A s \in DOMAIN snaps : \A r \in Earlier(s) : r <= PreviousOf(s)
<1>1. /\ TailInv /\ seq \in Nat /\ DOMAIN snaps \subseteq 1..seq /\ DOMAIN diffs = DOMAIN snaps
      /\ \A s \in DOMAIN snaps : IsGraph(world[s])
  BY DEF HistoryInv, PlacedInv, TypeInv, TypeOK, ChainInv, TailInv
<1>2. \A s \in DOMAIN snaps \cup {0} : IsGraph(WorldAt(s))
  BY <1>1, EmptyIsGraph DEF WorldAt
<1>3. ASSUME NEW s \in DOMAIN snaps
      PROVE  /\ PreviousOf(s) \in Earlier(s)
             /\ \A r \in Earlier(s) : r <= PreviousOf(s)
  <2>1. s \in 1..(seq + 1)
    BY <1>1
  <2> QED
    BY <1>1, <2>1, PreviousIsThere
<1> QED
  BY <1>1, <1>2, <1>3 DEF Earlier

\* An exact snapshot's rows, by content.
LEMMA RowsByContent ==
  ASSUME HistoryInv, NEW s \in DOMAIN snaps, Exact(s), NEW n \in NodeId
  PROVE  IF n \in DOMAIN diffs[s]
         THEN /\ diffs[s][n].op = "add" <=> HeldAt(PreviousOf(s), n) = None
              /\ diffs[s][n].op = "rem" <=> HeldAt(s, n) = None
              /\ diffs[s][n].op # "add" => diffs[s][n].old = HeldAt(PreviousOf(s), n)
              /\ diffs[s][n].op # "rem" => diffs[s][n].new = HeldAt(s, n)
         ELSE HeldAt(s, n) = HeldAt(PreviousOf(s), n)
<1>1. s # 0 /\ PreviousOf(s) \in DOMAIN snaps \cup {0}
  BY HistoryFacts
<1>2. /\ \A m \in DOMAIN WorldAt(PreviousOf(s)) : WorldAt(PreviousOf(s))[m].content \in Content
      /\ \A m \in DOMAIN world[s] : world[s][m].content \in Content
  <2>1. IsGraph(WorldAt(PreviousOf(s))) /\ IsGraph(world[s])
    BY <1>1, HistoryFacts DEF WorldAt
  <2> QED
    BY <2>1 DEF IsGraph, IsTable, NodeRow
<1>3. None \notin Content
  BY FileAssumption
<1>4. WorldAt(s) = world[s]
  BY <1>1 DEF WorldAt
<1>5. RowsExact(WorldAt(PreviousOf(s)), world[s], diffs[s])
  BY DEF HistoryInv, ExactRowsAt
<1>6. CASE n \in DOMAIN diffs[s]
  <2>1. RowExact(WorldAt(PreviousOf(s)), world[s], n, diffs[s][n])
    BY <1>5, <1>6 DEF RowsExact
  <2> QED
    BY <1>2, <1>3, <1>4, <1>6, <2>1 DEF RowExact, HeldAt
<1>7. CASE n \notin DOMAIN diffs[s]
  <2>1. Unchanged(WorldAt(PreviousOf(s)), world[s], n)
    BY <1>5, <1>7 DEF RowsExact
  <2> QED
    BY <1>4, <1>7, <2>1 DEF Unchanged, HeldAt
<1> QED
  BY <1>6, <1>7

\* A node no snapshot of an exact stretch has a row for holds at its end what it held before.
LEMMA HeldStays ==
  ASSUME HistoryInv, NEW a \in DOMAIN snaps \cup {0}, NEW b \in DOMAIN snaps \cup {0}, a <= b,
         NEW n \in NodeId,
         \A s \in DOMAIN snaps : a < s /\ s <= b => Exact(s) /\ n \notin DOMAIN diffs[s]
  PROVE  HeldAt(b, n) = HeldAt(a, n)
<1> DEFINE Same(k) == HeldAt(PreviousOf(a + k + 1), n) = HeldAt(a, n)
           S == {k \in Nat : a + k <= b => Same(k)}
<1>1. TailInv /\ seq \in Nat /\ DOMAIN snaps \subseteq 1..seq /\ a \in 0..seq /\ b \in 0..seq
  BY HistoryFacts
<1>2. ASSUME NEW s \in DOMAIN snaps \cup {0} PROVE PreviousOf(s + 1) = s
  <2>1. CASE s = 0
    <3>1. Earlier(0 + 1) = {0}
      BY <1>1 DEF Earlier
    <3>2. {0} \in SUBSET Int /\ \A x \in {0} : x <= 0
      OBVIOUS
    <3> QED
      BY <2>1, <3>1, <3>2, MaxIs DEF PreviousOf
  <2>2. CASE s # 0
    BY <1>1, <1>2, <2>2, PreviousNext
  <2> QED
    BY <2>1, <2>2
<1>3. 0 \in S
  BY <1>1, <1>2
<1>4. ASSUME NEW k \in S PROVE k + 1 \in S
  <2> SUFFICES ASSUME a + (k + 1) <= b PROVE Same(k + 1)
    OBVIOUS
  <2>1. PICK s \in 1..seq : s = a + k + 1
    BY <1>1
  <2>2. Same(k) /\ a + (k + 1) + 1 = s + 1 /\ a < s /\ s <= b
    BY <1>1, <2>1
  <2>3. HeldAt(PreviousOf(s), n) = HeldAt(a, n)
    BY <2>1, <2>2
  <2>4. CASE s \in DOMAIN snaps
    BY <1>2, <2>2, <2>3, <2>4, RowsByContent
  <2>5. CASE s \notin DOMAIN snaps
    BY <1>1, <2>2, <2>3, <2>5, PreviousNext
  <2> QED
    BY <2>4, <2>5
<1>5. S = Nat
  <2>1. S \in SUBSET Nat
    OBVIOUS
  <2> HIDE DEF S
  <2> QED
    BY <1>3, <1>4, <2>1, SetInduction
<1>6. PICK k \in Nat : a + k = b
  <2>1. b - a \in Nat /\ a + (b - a) = b
    BY <1>1
  <2> QED
    BY <2>1
<1>7. a + k <= b /\ a + k + 1 = b + 1
  BY <1>1, <1>6
<1>8. k \in S
  <2> HIDE DEF S
  <2> QED
    BY <1>5
<1>9. Same(k)
  BY <1>7, <1>8
<1> QED
  BY <1>2, <1>7, <1>9

\* What the folded rows of a node say, of an exact stretch.
LEMMA FoldedRow ==
  ASSUME HistoryInv, NEW to \in DOMAIN snaps, NEW from \in Earlier(to), ExactBetween(from, to),
         NEW n \in NodeId, NEW within,
         within = {s \in SnapshotsTouching(n) : from < s /\ s <= to}
  PROVE  LET first == diffs[Min(within)][n]
             last  == diffs[Max(within)][n]
             old   == HeldAt(from, n)
             new   == HeldAt(to, n)
         IN  IF within = {} THEN old = new
             ELSE /\ first.op = "add" <=> old = None
                  /\ last.op = "rem" <=> new = None
                  /\ first.op # "add" => first.old = old
                  /\ last.op # "rem" => last.new = new
<1>1. /\ seq \in Nat /\ DOMAIN snaps \subseteq 1..seq /\ DOMAIN diffs = DOMAIN snaps
      /\ \A s \in DOMAIN snaps : PreviousOf(s) \in DOMAIN snaps \cup {0} /\ PreviousOf(s) < s
      /\ \A s \in DOMAIN snaps : \A r \in Earlier(s) : r <= PreviousOf(s)
  BY HistoryFacts
<1>2. from \in DOMAIN snaps \cup {0} /\ from \in 0..seq /\ to \in 1..seq /\ from <= to
  BY <1>1 DEF Earlier
<1>3. \A s \in DOMAIN snaps : from < s /\ s <= to => Exact(s)
  BY DEF ExactBetween
<1>4. \A s : s \in within <=> s \in DOMAIN snaps /\ n \in DOMAIN diffs[s] /\ from < s /\ s <= to
  BY <1>1 DEF SnapshotsTouching
<1>5. CASE within = {}
  <2>1. \A s \in DOMAIN snaps : from < s /\ s <= to => Exact(s) /\ n \notin DOMAIN diffs[s]
    BY <1>3, <1>4, <1>5
  <2> QED
    BY <1>2, <1>5, <2>1, HeldStays
<1>6. CASE within # {}
  <2>1. within \in SUBSET (0..seq) /\ within \in SUBSET Nat
    BY <1>1, <1>4
  <2>2. PICK lo \in within : lo = Min(within) /\ \A x \in within : lo <= x
    BY <1>6, <2>1, MinOf
  <2>3. PICK hi \in within : hi = Max(within) /\ \A x \in within : x <= hi
    BY <1>1, <1>6, <2>1, MaxOf
  <2>4. /\ lo \in DOMAIN snaps /\ lo \in 1..seq /\ n \in DOMAIN diffs[lo] /\ from < lo /\ lo <= to
        /\ hi \in DOMAIN snaps /\ hi \in 1..seq /\ n \in DOMAIN diffs[hi] /\ from < hi /\ hi <= to
    BY <1>1, <1>4
  <2>5. HeldAt(PreviousOf(lo), n) = HeldAt(from, n)
    <3>1. from \in Earlier(lo)
      BY <1>2, <2>4 DEF Earlier
    <3>2. PreviousOf(lo) \in DOMAIN snaps \cup {0} /\ PreviousOf(lo) \in 0..seq /\ PreviousOf(lo) < lo
          /\ from <= PreviousOf(lo)
      BY <1>1, <2>4, <3>1
    <3>3. ASSUME NEW s \in DOMAIN snaps, from < s, s <= PreviousOf(lo)
          PROVE  Exact(s) /\ n \notin DOMAIN diffs[s]
      <4>1. s \in Int /\ lo \in Int /\ to \in Int /\ PreviousOf(lo) \in Int
        BY <1>1, <1>2, <2>4, <3>2
      <4>2. s <= to /\ ~(lo <= s)
        BY <2>4, <3>2, <3>3, <4>1
      <4> QED
        BY <1>3, <1>4, <2>2, <3>3, <4>2
    <3> QED
      BY <1>2, <3>2, <3>3, HeldStays
  <2>6. HeldAt(to, n) = HeldAt(hi, n)
    <3>1. ASSUME NEW s \in DOMAIN snaps, hi < s, s <= to
          PROVE  Exact(s) /\ n \notin DOMAIN diffs[s]
      <4>1. s \in Int /\ hi \in Int /\ from \in Int
        BY <1>1, <1>2, <2>4
      <4>2. from < s /\ ~(s <= hi)
        BY <2>4, <3>1, <4>1
      <4> QED
        BY <1>3, <1>4, <2>3, <3>1, <4>2
    <3> QED
      BY <2>4, <3>1, HeldStays
  <2>7. Exact(lo) /\ Exact(hi)
    BY <1>3, <2>4
  <2>8. /\ diffs[lo][n].op = "add" <=> HeldAt(from, n) = None
        /\ diffs[lo][n].op # "add" => diffs[lo][n].old = HeldAt(from, n)
    BY <2>4, <2>5, <2>7, RowsByContent
  <2>9. /\ diffs[hi][n].op = "rem" <=> HeldAt(to, n) = None
        /\ diffs[hi][n].op # "rem" => diffs[hi][n].new = HeldAt(to, n)
    BY <2>4, <2>6, <2>7, RowsByContent
  <2> QED
    BY <1>6, <2>2, <2>3, <2>8, <2>9
<1> QED
  BY <1>5, <1>6

\* A comparison of two tables, by content.
LEMMA DiffByContent ==
  ASSUME HistoryInv, NEW to \in DOMAIN snaps, NEW from \in DOMAIN snaps \cup {0}
  PROVE  DiffFlat(WorldAt(to), ContentsOf(WorldAt(from), DOMAIN WorldAt(from))) =
           [n \in {n \in NodeId : HeldAt(from, n) # HeldAt(to, n)}
              |-> RowOfChange(HeldAt(from, n), HeldAt(to, n))]
<1> DEFINE t == WorldAt(to)
           g == WorldAt(from)
           prev == ContentsOf(g, DOMAIN g)
           changed == {n \in DOMAIN t \cup DOMAIN prev :
                         ~(n \in DOMAIN t /\ n \in DOMAIN prev /\ prev[n] = t[n].content)}
           row(n) == IF n \notin DOMAIN prev THEN Added(t[n].content)
                     ELSE IF n \in DOMAIN t THEN Modified(prev[n], t[n].content)
                     ELSE Removed(prev[n])
<1>1. IsGraph(t) /\ IsGraph(g)
  BY HistoryFacts
<1>2. /\ DOMAIN t \subseteq NodeId /\ DOMAIN g \subseteq NodeId
      /\ \A n \in DOMAIN t : t[n].content # None
      /\ \A n \in DOMAIN g : g[n].content # None
  BY <1>1, FileAssumption DEF IsGraph, IsTable, NodeRow
<1>3. DOMAIN prev = DOMAIN g /\ \A n \in DOMAIN g : prev[n] = g[n].content
  BY DEF ContentsOf
<1>4. \A n : /\ HeldAt(to, n) = IF n \in DOMAIN t THEN t[n].content ELSE None
             /\ HeldAt(from, n) = IF n \in DOMAIN g THEN g[n].content ELSE None
  BY DEF HeldAt
<1> HIDE DEF t, g, prev
<1>5. changed = {n \in NodeId : HeldAt(from, n) # HeldAt(to, n)}
  BY <1>2, <1>3, <1>4
<1>6. \A n \in changed : row(n) = RowOfChange(HeldAt(from, n), HeldAt(to, n))
  <2> TAKE n \in changed
  <2>1. CASE n \notin DOMAIN g
    BY <1>2, <1>3, <1>4, <2>1 DEF RowOfChange
  <2>2. CASE n \in DOMAIN g /\ n \in DOMAIN t
    BY <1>2, <1>3, <1>4, <2>2 DEF RowOfChange
  <2>3. CASE n \in DOMAIN g /\ n \notin DOMAIN t
    BY <1>2, <1>3, <1>4, <2>3 DEF RowOfChange
  <2> QED
    BY <2>1, <2>2, <2>3
<1>7. DiffFlat(t, prev) = [n \in changed |-> row(n)]
  BY DEF DiffFlat
<1> HIDE DEF changed, row
<1>8. DiffFlat(t, prev) = [n \in {n \in NodeId : HeldAt(from, n) # HeldAt(to, n)}
                             |-> RowOfChange(HeldAt(from, n), HeldAt(to, n))]
  BY <1>5, <1>6, <1>7
<1> QED
  BY <1>8 DEF t, g, prev

\* MemoryDiff over exact snapshots is the difference of the two tables, whatever happened
\* to a node in between.
THEOREM NetChangesExact == Spec => []NetChangeExact
<1>1. HistoryInv => NetChangeExact
  <2> SUFFICES ASSUME HistoryInv, NEW to \in DOMAIN snaps, NEW from \in Earlier(to),
                      ExactBetween(from, to)
               PROVE  ConsolidateDiffs(from, to) =
                        DiffFlat(WorldAt(to), ContentsOf(WorldAt(from), DOMAIN WorldAt(from)))
    BY DEF NetChangeExact
  <2> DEFINE within(n) == {s \in SnapshotsTouching(n) : from < s /\ s <= to}
             first(n)  == diffs[Min(within(n))][n]
             last(n)   == diffs[Max(within(n))][n]
             old(n)    == HeldAt(from, n)
             new(n)    == HeldAt(to, n)
             visible(n) ==
               /\ within(n) # {}
               /\ ~(first(n).op = "add" /\ last(n).op = "rem")
               /\ (first(n).op # "add" /\ last(n).op # "rem") => first(n).old # last(n).new
  <2>1. ASSUME NEW n \in NodeId
        PROVE  IF within(n) = {} THEN old(n) = new(n)
               ELSE /\ first(n).op = "add" <=> old(n) = None
                    /\ last(n).op = "rem" <=> new(n) = None
                    /\ first(n).op # "add" => first(n).old = old(n)
                    /\ last(n).op # "rem" => last(n).new = new(n)
    <3>1. PICK w : w = {s \in SnapshotsTouching(n) : from < s /\ s <= to}
      OBVIOUS
    <3>2. LET one == diffs[Min(w)][n]
              two == diffs[Max(w)][n]
          IN  IF w = {} THEN HeldAt(from, n) = HeldAt(to, n)
              ELSE /\ one.op = "add" <=> HeldAt(from, n) = None
                   /\ two.op = "rem" <=> HeldAt(to, n) = None
                   /\ one.op # "add" => one.old = HeldAt(from, n)
                   /\ two.op # "rem" => two.new = HeldAt(to, n)
      BY <3>1, FoldedRow
    <3>3. within(n) = w
      BY <3>1
    <3> HIDE DEF within
    <3> QED
      BY <3>2, <3>3
  <2>2. ConsolidateDiffs(from, to) = [n \in {n \in NodeId : visible(n)} |-> NetRow(first(n), last(n))]
    BY DEF ConsolidateDiffs
  <2> HIDE DEF within, first, last, old, new
  <2>3. ASSUME NEW n \in NodeId PROVE visible(n) <=> old(n) # new(n)
    BY <2>1
  <2>4. ASSUME NEW n \in NodeId, visible(n)
        PROVE  NetRow(first(n), last(n)) = RowOfChange(old(n), new(n))
    <3>1. within(n) # {}
      BY <2>4
    <3> QED
      BY <2>1, <2>4, <3>1 DEF NetRow, RowOfChange
  <2> HIDE DEF visible
  <2>5. ConsolidateDiffs(from, to) =
          [n \in {n \in NodeId : old(n) # new(n)} |-> RowOfChange(old(n), new(n))]
    BY <2>2, <2>3, <2>4
  <2>6. from \in DOMAIN snaps \cup {0}
    BY DEF Earlier
  <2> QED
    BY <2>5, <2>6, DiffByContent DEF old, new
<1> QED
  BY <1>1, HistoryInit, HistoryPreserved, PTL DEF Spec

-----------------------------------------------------------------------------
(* Snapshots.  Nothing is known of what a goroutine has read: another       *)
(* server may have committed since.                                        *)

LEMMA EmitAppends ==
  ASSUME NEW ds, NEW t, NEW hash, NEW root, Emit(ds, t, hash, root)
  PROVE  Lands
<1>1. Land(ApplyDeltas(nodes, t, ds), RowsFor(nodes, ds), hash, root, head, DOMAIN snaps)
  BY DEF Emit
<1>2. TailStep(head, DOMAIN snaps)
  BY DEF TailStep
<1> QED
  BY <1>1, <1>2 DEF Lands

LEMMA RollbackCuts ==
  ASSUME NEW target, NEW d \in BOOLEAN, Rollback(target, d)
  PROVE  Lands
<1> DEFINE restored == RestoreToSnapshot(target)
           ds == RollbackDeltas(nodes, restored)
           survivors == DOMAIN snaps \ (IF d THEN Pruned(target) ELSE {})
<1>1. /\ target \in DOMAIN snaps /\ target < head
      /\ Land(ApplyInIdOrder(nodes, restored, ds), RowsFor(nodes, ds),
              RollbackHash(head, target, ds), NoRoot, RollbackParent(target, d), survivors)
  BY DEF Rollback
<1>2. TailStep(RollbackParent(target, d), survivors)
  BY <1>1 DEF TailStep, RollbackParent, Pruned
<1> QED
  BY <1>1, <1>2 DEF Lands

\* The sort of a job is in its op.
LEMMA JobOps ==
  ASSUME NEW job \in Job
  PROVE  \/ job \in WriteJobs /\ job.op = "write"
         \/ job \in ForgetJobs /\ job.op \in {"strict", "cascade", "reparent"}
         \/ job \in PurgeJobs /\ job.op = "purge"
         \/ job \in CompileJobs /\ job.op = "compile_files"
         \/ job \in RollbackJobs /\ job.op = (IF job.drop THEN "drop_after" ELSE "rollback")
                                /\ job.drop \in BOOLEAN
<1>1. job \in WriteJobs => job.op = "write"
  BY DEF WriteJobs
<1>2. job \in ForgetJobs => job.op \in {"strict", "cascade", "reparent"}
  BY DEF ForgetJobs
<1>3. job \in PurgeJobs => job.op = "purge"
  BY DEF PurgeJobs
<1>4. job \in CompileJobs => job.op = "compile_files"
  BY DEF CompileJobs
<1>5. job \in RollbackJobs => /\ job.op = (IF job.drop THEN "drop_after" ELSE "rollback")
                             /\ job.drop \in BOOLEAN
  BY DEF RollbackJobs
<1> QED
  BY <1>1, <1>2, <1>3, <1>4, <1>5 DEF Job

-----------------------------------------------------------------------------
(* What a goroutine holds.                                                 *)

\* The jobs of the calls in flight, and OpMu: whoever runs holds its server's.
Locked ==
  /\ serverOf \in [Thread -> Server]
  /\ opMu \in [Server -> Thread \cup {NoThread}]
  /\ DOMAIN call = Thread /\ call = [th \in Thread |-> call[th]]
  /\ \A th \in Thread :
       Running(th) => /\ opMu[serverOf[th]] = th
                      /\ call[th].job \in Job

\* What a step of a goroutine does to the locks and to the others.
LEMMA LockedInit == SharedInit => Locked
  BY ServerAssumption DEF SharedInit, Locked, Running, Idle

LEMMA LockedPreserved == Locked /\ [SharedNext]_sharedVars => Locked'
<1> SUFFICES ASSUME Locked, [SharedNext]_sharedVars PROVE Locked'
  OBVIOUS
<1>1. CASE UNCHANGED sharedVars
  BY <1>1 DEF Locked, sharedVars, Running
<1>2. ASSUME NEW th \in Thread, UNCHANGED serverOf, Arrive(th) PROVE Locked'
  BY <1>2 DEF Arrive, Locked, Running, Waiting
<1>3. ASSUME NEW th \in Thread, UNCHANGED serverOf, Acquire(th) PROVE Locked'
  <2>1. PICK job \in Job : call' = [call EXCEPT ![th] = [step |-> FirstStep(job), job |-> job]]
    BY <1>3 DEF Acquire
  <2>2. opMu' = [opMu EXCEPT ![serverOf[th]] = th] /\ opMu[serverOf[th]] = NoThread
    BY <1>3 DEF Acquire, Free
  <2> QED
    BY <1>3, <2>1, <2>2, ServerAssumption DEF Locked, Running
<1>4. ASSUME NEW th \in Thread, UNCHANGED serverOf, Running(th), UNCHANGED opMu,
             NEW my, my.job = call[th].job, call' = [call EXCEPT ![th] = my]
      PROVE  Locked'
  BY <1>4 DEF Locked, Running
<1>5. ASSUME NEW th \in Thread, UNCHANGED serverOf, Running(th),
             opMu' = Released(th), call' = [call EXCEPT ![th] = Idle]
      PROVE  Locked'
  BY <1>5, ServerAssumption DEF Locked, Running, Released, Idle
<1>6. ASSUME NEW th \in Thread, UNCHANGED serverOf, Work(th) PROVE Locked'
  <2>1. CASE Fail(th)
    BY <1>5, <1>6, <2>1 DEF Fail
  <2>2. CASE Commit(th)
    BY <1>5, <1>6, <2>2 DEF Commit, At, Running
  <2>3. CASE ReadHead(th)
    BY <1>4, <1>6, <2>3 DEF ReadHead, At, Running
  <2>4. ASSUME NEW step, NEW ds, NEW t, Goes(th, step, ds, t), Running(th) PROVE Locked'
    BY <1>4, <1>6, <2>4 DEF Goes
  <2>5. CASE ReadWritten(th) \/ ReadTarget(th) \/ ReadBelow(th) \/ ReadPurged(th) \/ ReadPrev(th)
    BY <2>4, <2>5 DEF ReadWritten, ReadTarget, ReadBelow, ReadPurged, ReadPrev, At, Running
  <2> QED
    BY <1>6, <2>1, <2>2, <2>3, <2>5 DEF Work
<1> QED
  BY <1>1, <1>2, <1>3, <1>6 DEF SharedNext

-----------------------------------------------------------------------------
(* The chain of the snapshots, and the log, with several servers.          *)

\* A goroutine changes the tables by landing a snapshot, or not at all.
LEMMA GoroutinesLand == Locked /\ SharedNext => UNCHANGED vars \/ Lands
<1> SUFFICES ASSUME Locked, NEW th \in Thread, Work(th) PROVE UNCHANGED vars \/ Lands
  BY DEF SharedNext, Arrive, Acquire
<1>1. CASE Commit(th)
  <2>1. CASE EmitRead(th)
    BY <2>1, EmitAppends DEF EmitRead
  <2>2. CASE EmitCompiled(th)
    BY <2>2, EmitAppends DEF EmitCompiled
  <2>3. CASE RollBack(th)
    <3>1. call[th].job \in Job /\ call[th].job.op \in {"rollback", "drop_after"}
      BY <1>1, <2>3 DEF Locked, Commit, At, Running, RollBack
    <3>2. call[th].job.drop \in BOOLEAN
      BY <3>1, JobOps
    <3> QED
      BY <2>3, <3>2, RollbackCuts DEF RollBack
  <2> QED
    BY <1>1, <2>1, <2>2, <2>3 DEF Commit
<1>2. CASE ~Commit(th)
  BY <1>2 DEF Work, Fail, ReadWritten, ReadTarget, ReadBelow, ReadPurged, ReadPrev, ReadHead, Goes
<1> QED
  BY <1>1, <1>2

SharedInv == Locked /\ TailInv

LEMMA SharedInvInit == SharedInit => SharedInv
  BY LockedInit, ChainInit DEF SharedInit, SharedInv, ChainInv

LEMMA SharedInvPreserved == SharedInv /\ [SharedNext]_sharedVars => SharedInv'
<1> SUFFICES ASSUME SharedInv, [SharedNext]_sharedVars PROVE SharedInv'
  OBVIOUS
<1>1. Locked'
  BY LockedPreserved DEF SharedInv
<1>2. UNCHANGED vars \/ Lands
  BY GoroutinesLand DEF SharedInv, sharedVars
<1>3. UNCHANGED vars => TailInv'
  BY DEF SharedInv, TailInv, LinearChain, PreviousOf, Earlier, vars
<1> QED
  BY <1>1, <1>2, <1>3, TailPreserved DEF SharedInv

\* However many servers read, compute and commit to one database, and prune it between each
\* other's reads and commits, the snapshots are one linear chain that ends at HEAD.
THEOREM SharedChain == Sharing => []LinearChain
<1>1. SharedInv => LinearChain
  BY DEF SharedInv, TailInv
<1> QED
  BY <1>1, SharedInvInit, SharedInvPreserved, PTL DEF Sharing

\* So the servers together still implement the log that one of them does.
THEOREM SharedIsLog == Sharing => LogRefined
<1>1. SharedInit => Log!Init
  BY EmptyLog DEF SharedInit
<1>2. SharedInv /\ [SharedNext]_sharedVars => [Log!Next]_(Log!logVars)
  <2>1. SharedInv /\ [SharedNext]_sharedVars => UNCHANGED vars \/ Lands
    BY GoroutinesLand DEF SharedInv, sharedVars
  <2> QED
    BY <2>1, LandsInLog, LogStutters DEF SharedInv
<1> QED
  BY <1>1, <1>2, SharedInvInit, SharedInvPreserved, PTL DEF Sharing, LogRefined, Log!Spec

-----------------------------------------------------------------------------
(* One server: what a handler has read is still so when it commits.        *)

FilesIn(g, fs) == {n \in DOMAIN g : g[n].file \in fs}

Written(job) == IF job.node = NoNode THEN PayloadNode[job.content] ELSE job.node

\* The deltas ds over the tree t are those the job has on the graph g.
Computed(job, ds, t, g) ==
  \/ /\ job.op = "write"
     /\ job.node \in DOMAIN g \cup {NoNode} \/ "write_unknown" \in Calls
     /\ ds = WriteDeltas(g, Written(job), job.content)
     /\ t = [m \in {Written(job)} |-> WrittenRow(g, Written(job), job.content)]
  \/ /\ job.op = "strict"
     /\ job.node \in DOMAIN g
     /\ ChildrenOf(g, job.node) = {}
     /\ ds = RemovalOf(g, {job.node})
     /\ t = EmptyGraph
  \/ /\ job.op = "cascade"
     /\ job.node \in DOMAIN g
     /\ ds = RemovalOf(g, Subtree(g, job.node))
     /\ t = EmptyGraph
  \/ /\ job.op = "reparent"
     /\ job.node \in DOMAIN g
     /\ ds = ReparentDeltas(g, job.node)
     /\ t = Promoted(g, job.node)
  \/ /\ job.op = "purge"
     /\ ds = RemovalOf(g, FilesIn(g, job.files))
     /\ t = EmptyGraph

\* What a goroutine carries is true of the graph g and the head h.
Fresh(my, g, h) ==
  /\ my.step = "below" =>
       /\ my.job.op \in {"strict", "cascade", "reparent"}
       /\ my.job.node \in DOMAIN g
       /\ my.ds = RemovalOf(g, {my.job.node})
       /\ my.tree = [m \in {my.job.node} |-> g[m]]
  /\ my.step = "head" => Computed(my.job, my.ds, my.tree, g)
  /\ my.step = "commit" =>
       \/ my.job.op \in {"rollback", "drop_after"}
       \/ /\ my.job.op = "compile_files"
          /\ my.tree = my.job.tree
          /\ my.ds = DiffFlat(my.tree, ContentsOf(g, FilesIn(g, my.job.files)))
       \/ Computed(my.job, my.ds, my.tree, g) /\ my.prev = h

AllFresh == \A th \in Thread : Running(th) => Fresh(call[th], nodes, head)

AtomicInv == SharedInv /\ (OneServer => AllFresh)

LEMMA SelfInSubtree ==
  ASSUME NEW g, NEW n \in DOMAIN g
  PROVE  n \in Subtree(g, n) /\ Subtree(g, n) \subseteq DOMAIN g
  BY DEF Subtree, Cascade

\* The second read of a MemoryForget completes what the first began.
LEMMA BelowComputed ==
  ASSUME NEW th \in Thread, ReadBelow(th), Fresh(call[th], nodes, head)
  PROVE  \E ds, t : Goes(th, "head", ds, t) /\ Computed(call[th].job, ds, t, nodes)
<1> DEFINE job == call[th].job
           n == job.node
           kids == ChildrenOf(nodes, n)
           below == Subtree(nodes, n) \ {n}
           read == call[th]
<1>1. n \in DOMAIN nodes /\ read.ds = RemovalOf(nodes, {n}) /\ read.tree = [m \in {n} |-> nodes[m]]
  BY DEF ReadBelow, At, Fresh
<1>2. read.ds[n] = Removed(nodes[n].content) /\ read.tree[n] = nodes[n]
  BY <1>1 DEF RemovalOf
<1>3. CASE job.op = "strict" /\ kids = {} /\ Goes(th, "head", read.ds, EmptyGraph)
  BY <1>1, <1>3 DEF Computed
<1>4. CASE /\ job.op = "cascade"
           /\ Goes(th, "head", [m \in {n} \cup below |->
                                  IF m = n THEN read.ds[m] ELSE Removed(nodes[m].content)],
                   EmptyGraph)
  <2>1. {n} \cup below = Subtree(nodes, n)
    BY <1>1, SelfInSubtree
  <2>2. [m \in {n} \cup below |-> IF m = n THEN read.ds[m] ELSE Removed(nodes[m].content)]
          = RemovalOf(nodes, Subtree(nodes, n))
    BY <1>2, <2>1 DEF RemovalOf
  <2> QED
    BY <1>1, <1>4, <2>2 DEF Computed
<1>5. CASE /\ job.op = "reparent"
           /\ Goes(th, "head", [m \in {n} \cup kids |->
                                  IF m = n THEN read.ds[m]
                                  ELSE Modified(nodes[m].content, nodes[m].content)],
                   [c \in kids |-> [nodes[c] EXCEPT !.parent = read.tree[n].parent]])
  <2>1. [m \in {n} \cup kids |-> IF m = n THEN read.ds[m]
                                 ELSE Modified(nodes[m].content, nodes[m].content)]
          = ReparentDeltas(nodes, n)
    BY <1>2 DEF ReparentDeltas
  <2>2. [c \in kids |-> [nodes[c] EXCEPT !.parent = read.tree[n].parent]] = Promoted(nodes, n)
    BY <1>2 DEF Promoted
  <2> QED
    BY <1>1, <1>5, <2>1, <2>2 DEF Computed
<1> QED
  BY <1>3, <1>4, <1>5 DEF ReadBelow

\* A read of one goroutine leaves what the others carry true.
LEMMA ReadsKeepFresh ==
  ASSUME SharedInv, AllFresh, NEW th \in Thread, NEW my,
         UNCHANGED vars, call' = [call EXCEPT ![th] = my], Fresh(my, nodes, head)
  PROVE  AllFresh'
<1>1. nodes' = nodes /\ head' = head
  BY DEF vars
<1>2. ASSUME NEW o \in Thread, Running(o)' PROVE Fresh(call'[o], nodes, head)
  <2>1. CASE o = th
    BY <2>1 DEF SharedInv, Locked
  <2>2. CASE o # th
    BY <1>2, <2>2 DEF AllFresh, SharedInv, Locked, Running
  <2> QED
    BY <2>1, <2>2
<1> QED
  BY <1>1, <1>2 DEF AllFresh

\* In one server nobody else runs when a transaction commits.
LEMMA Alone ==
  ASSUME SharedInv, OneServer, NEW th \in Thread, NEW o \in Thread, Running(th), Running(o)
  PROVE  o = th
  BY DEF SharedInv, Locked, OneServer

LEMMA AtomicInvPreserved == AtomicInv /\ [SharedNext]_sharedVars => AtomicInv'
<1> SUFFICES ASSUME AtomicInv, [SharedNext]_sharedVars PROVE AtomicInv'
  OBVIOUS
<1>1. SharedInv'
  BY SharedInvPreserved DEF AtomicInv
<1>2. CASE UNCHANGED sharedVars
  <2>1. OneServer' = OneServer
    BY <1>2 DEF sharedVars, OneServer
  <2>2. AllFresh => AllFresh'
    BY <1>2 DEF sharedVars, vars, AllFresh, Running
  <2> QED
    BY <1>1, <2>1, <2>2 DEF AtomicInv
<1>3. ASSUME NEW th \in Thread, UNCHANGED serverOf, Arrive(th) \/ Acquire(th) \/ Work(th), OneServer
      PROVE  AllFresh'
  <2>1. SharedInv /\ AllFresh
    BY <1>3 DEF AtomicInv
  <2>2. CASE Arrive(th)
    BY <2>1, <2>2, ReadsKeepFresh DEF Arrive, Fresh, Waiting
  <2>3. CASE Acquire(th)
    <3>1. PICK job \in Job : call' = [call EXCEPT ![th] = [step |-> FirstStep(job), job |-> job]]
      BY <2>3 DEF Acquire
    <3>2. Fresh([step |-> FirstStep(job), job |-> job], nodes, head)
      BY DEF Fresh, FirstStep
    <3> QED
      BY <2>1, <2>3, <3>1, <3>2, ReadsKeepFresh DEF Acquire
  <2>4. CASE Fail(th)
    BY <2>1, <2>4, ReadsKeepFresh DEF Fail, Fresh, Idle
  <2>5. CASE Commit(th)
    <3>1. ASSUME NEW o \in Thread PROVE ~Running(o)'
      BY <1>3, <2>1, <2>5, Alone DEF Commit, At, Running, SharedInv, Locked, Idle
    <3> QED
      BY <3>1 DEF AllFresh
  <2>6. ASSUME Running(th), NEW ds, NEW t, Goes(th, "head", ds, t), Computed(call[th].job, ds, t, nodes)
        PROVE  AllFresh'
    <3>1. Fresh([step |-> "head", job |-> call[th].job, ds |-> ds, tree |-> t], nodes, head)
      BY <2>6 DEF Fresh
    <3> QED
      BY <2>1, <2>6, <3>1, ReadsKeepFresh DEF Goes
  <2>7. CASE ReadWritten(th)
    <3>1. \E ds, t : Goes(th, "head", ds, t) /\ Computed(call[th].job, ds, t, nodes)
      BY <2>7 DEF ReadWritten, Computed, Written
    <3> QED
      BY <2>6, <2>7, <3>1 DEF ReadWritten, At, Running
  <2>8. CASE ReadTarget(th)
    <3> DEFINE my == [step |-> "below", job |-> call[th].job,
                      ds |-> RemovalOf(nodes, {call[th].job.node}),
                      tree |-> [m \in {call[th].job.node} |-> nodes[m]]]
    <3>1. Fresh(my, nodes, head)
      BY <2>8 DEF ReadTarget, Fresh
    <3> QED
      BY <2>1, <2>8, <3>1, ReadsKeepFresh DEF ReadTarget, Goes
  <2>9. CASE ReadBelow(th)
    <3>1. Running(th) /\ Fresh(call[th], nodes, head)
      BY <2>1, <2>9 DEF ReadBelow, At, Running, AllFresh
    <3> QED
      BY <2>6, <2>9, <3>1, BelowComputed
  <2>10. CASE ReadPurged(th)
    <3>1. \E ds, t : Goes(th, "head", ds, t) /\ Computed(call[th].job, ds, t, nodes)
      BY <2>10 DEF ReadPurged, Computed, NodesOfFiles, FilesIn
    <3> QED
      BY <2>6, <2>10, <3>1 DEF ReadPurged, At, Running
  <2>11. CASE ReadPrev(th)
    <3> DEFINE job == call[th].job
               my == [step |-> "commit", job |-> job,
                      ds |-> DiffFlat(job.tree, ContentsOf(nodes, NodesOfFiles(job.files))),
                      tree |-> job.tree]
    <3>1. Fresh(my, nodes, head)
      BY <2>11 DEF ReadPrev, Fresh, NodesOfFiles, FilesIn
    <3> QED
      BY <2>1, <2>11, <3>1, ReadsKeepFresh DEF ReadPrev, Goes
  <2>12. CASE ReadHead(th)
    <3> DEFINE my == [step |-> "commit", job |-> call[th].job, ds |-> call[th].ds,
                      tree |-> call[th].tree, prev |-> head]
    <3>1. Computed(call[th].job, call[th].ds, call[th].tree, nodes)
      BY <2>1, <2>12 DEF ReadHead, At, Running, AllFresh, Fresh
    <3>2. Fresh(my, nodes, head)
      BY <3>1 DEF Fresh
    <3> QED
      BY <2>1, <2>12, <3>2, ReadsKeepFresh DEF ReadHead
  <2> QED
    BY <1>3, <2>2, <2>3, <2>4, <2>5, <2>7, <2>8, <2>9, <2>10, <2>11, <2>12 DEF Work
<1>4. UNCHANGED serverOf => OneServer' = OneServer
  BY DEF OneServer
<1> QED
  BY <1>1, <1>2, <1>3, <1>4 DEF AtomicInv, SharedNext

\* What a goroutine commits is then a call of VersionTrail.
LEMMA CommitIsCall ==
  ASSUME SharedInv, NEW th \in Thread, Commit(th), Fresh(call[th], nodes, head)
  PROVE  Next
<1> DEFINE job == call[th].job
           ds == call[th].ds
           t == call[th].tree
<1>1. call[th].step = "commit" /\ job \in Job
  BY DEF Commit, At, Running, SharedInv, Locked
<1>2. CASE EmitRead(th)
  <2>1. Computed(job, ds, t, nodes) /\ call[th].prev = head
    BY <1>1, <1>2 DEF Fresh, EmitRead
  <2>2. EmitChange(ds, t)
    BY <1>2, <2>1 DEF EmitRead, EmitChange
  <2>3. CASE job.op = "write"
    <3>1. job.node \in NodeId \cup {NoNode} /\ job.content \in Content /\ "write" \in Calls
      BY <1>1, <2>3, JobOps DEF WriteJobs
    <3>2. Write(job.node, job.content)
      BY <2>1, <2>2, <2>3, <3>1 DEF Computed, Write, WriteNode, Written
    <3> QED
      BY <3>1, <3>2 DEF Next
  <2>4. CASE job.op \in {"strict", "cascade", "reparent"}
    <3>1. job.node \in NodeId /\ job.op \in Calls
      BY <1>1, <2>4, JobOps DEF ForgetJobs
    <3>2. ForgetStrict(job.node) \/ ForgetCascade(job.node) \/ ForgetReparent(job.node)
      BY <2>1, <2>2, <2>4, <3>1 DEF Computed, ForgetStrict, ForgetCascade, ForgetReparent
    <3> QED
      BY <3>1, <3>2 DEF Next
  <2>5. CASE job.op = "purge"
    <3>1. job.files \in (SUBSET File) \ {{}} /\ "purge" \in Calls
      BY <1>1, <2>5, JobOps DEF PurgeJobs
    <3>2. PurgeFiles(job.files)
      BY <2>1, <2>2, <2>5, <3>1 DEF Computed, PurgeFiles, NodesOfFiles, FilesIn
    <3> QED
      BY <3>1, <3>2 DEF Next
  <2> QED
    BY <1>1, <1>2, <2>3, <2>4, <2>5, JobOps DEF EmitRead
<1>3. CASE EmitCompiled(th)
  <2>1. job.op = "compile_files" /\ job \in CompileJobs
    BY <1>1, <1>3, JobOps DEF EmitCompiled
  <2>2. job.files \in (SUBSET File) \ {{}} /\ job.tree \in Parses(job.files) /\ "compile_files" \in Calls
    BY <2>1 DEF CompileJobs
  <2>3. t = job.tree /\ ds = DiffFlat(t, ContentsOf(nodes, NodesOfFiles(job.files)))
    BY <1>1, <2>1 DEF Fresh, Computed, FilesIn, NodesOfFiles
  <2>4. PICK r \in Root : Emit(ds, t, CompileHash(head, t), r)
    BY <1>3 DEF EmitCompiled
  <2>5. CompileFiles(r, job.files, job.tree)
    BY <2>2, <2>3, <2>4 DEF CompileFiles, CompileTree
  <2> QED
    BY <2>2, <2>5 DEF Next
<1>4. CASE RollBack(th)
  <2>1. job \in RollbackJobs /\ job.drop \in BOOLEAN
    BY <1>1, <1>4, JobOps DEF RollBack
  <2>2. Rollback(job.target, job.drop)
    BY <1>4 DEF RollBack
  <2>3. job.target \in 1..seq
    BY <2>2 DEF Rollback, SharedInv, TailInv
  <2> QED
    BY <2>1, <2>2, <2>3 DEF Next
<1> QED
  BY <1>2, <1>3, <1>4 DEF Commit

\* In one server OpMu makes every handler atomic: what its goroutines do to the database,
\* statement by statement, is a behaviour of VersionTrail.
THEOREM HandlersAreAtomic == Sharing => AtomicTrail
<1>1. SharedInit => Init /\ AtomicInv
  <2>1. SharedInit => AllFresh
    BY DEF SharedInit, AllFresh, Running, Idle
  <2> QED
    BY <2>1, SharedInvInit DEF SharedInit, AtomicInv
<1>2. AtomicInv /\ [SharedNext]_sharedVars => [OneServer => Next]_vars
  <2> SUFFICES ASSUME AtomicInv, OneServer, NEW th \in Thread, Arrive(th) \/ Acquire(th) \/ Work(th)
               PROVE  UNCHANGED vars \/ Next
    BY DEF SharedNext, sharedVars
  <2>1. CASE Commit(th)
    <3>1. Fresh(call[th], nodes, head)
      BY <2>1 DEF AtomicInv, AllFresh, Commit, At, Running
    <3> QED
      BY <2>1, <3>1, CommitIsCall DEF AtomicInv
  <2>2. CASE ~Commit(th)
    BY <2>2 DEF Arrive, Acquire, Work, Fail, ReadWritten, ReadTarget, ReadBelow, ReadPurged,
                ReadPrev, ReadHead, Goes
  <2> QED
    BY <2>1, <2>2
<1> QED
  BY <1>1, <1>2, AtomicInvPreserved, PTL DEF Sharing, AtomicTrail

-----------------------------------------------------------------------------
(* Foreign keys of the nodes, which no commit breaks.                      *)

\* A database the doctor finds nothing wrong with.
Healthy == Sound(nodes) /\ IsFun(diffs) /\ DOMAIN diffs = DOMAIN snaps

LEMMA HealthyInit == Init => Healthy
  BY DEF Init, Healthy, Sound, IsFun, FKIntact, EmptyGraph

\* A commit leaves a healthy database: an upsert needs its parent, a removal takes what is
\* below, and the foreign keys of a rollback are checked when it commits.
LEMMA HealthyPreserved == SharedInv /\ Healthy /\ SharedNext => Healthy'
<1>1. ASSUME Healthy, NEW g, NEW rows, NEW hash, NEW root, NEW parent, NEW survivors,
             Land(g, rows, hash, root, parent, survivors), Sound(g)
      PROVE  Healthy'
  BY <1>1 DEF Healthy, Land, IsFun
<1>2. ASSUME Healthy, NEW ds, NEW t, NEW hash, NEW root, Emit(ds, t, hash, root)
      PROVE  Healthy'
  <2>1. Sound(ApplyDeltas(nodes, t, ds))
    BY <1>2, ApplySound DEF Emit, Healthy, Sound
  <2> QED
    BY <1>1, <1>2, <2>1 DEF Emit
<1>3. ASSUME Healthy, NEW target, NEW d, Rollback(target, d) PROVE Healthy'
  <2> DEFINE restored == RestoreToSnapshot(target)
             ds == RollbackDeltas(nodes, restored)
             g == ApplyInIdOrder(nodes, restored, ds)
  <2>1. FKIntact(g) /\ Land(g, RowsFor(nodes, ds), RollbackHash(head, target, ds), NoRoot,
                            RollbackParent(target, d),
                            DOMAIN snaps \ (IF d THEN Pruned(target) ELSE {}))
    BY <1>3 DEF Rollback
  <2>2. IsFun(g)
    BY <1>3, RolledBackIsFun DEF Healthy, Sound
  <2> QED
    BY <1>1, <1>3, <2>1, <2>2 DEF Sound
<1>4. ASSUME Healthy, UNCHANGED vars PROVE Healthy'
  BY <1>4 DEF Healthy, vars
<1>5. ASSUME Healthy, NEW th \in Thread, Commit(th) PROVE Healthy'
  BY <1>2, <1>3, <1>5 DEF Commit, EmitRead, EmitCompiled, RollBack
<1>6. ASSUME NEW th \in Thread, Arrive(th) \/ Acquire(th) \/ Work(th), ~Commit(th)
      PROVE  UNCHANGED vars
  BY <1>6 DEF Arrive, Acquire, Work, Fail, ReadWritten, ReadTarget, ReadBelow, ReadPurged,
              ReadPrev, ReadHead, Goes
<1> QED
  BY <1>4, <1>5, <1>6 DEF SharedNext

-----------------------------------------------------------------------------
(* Repairs.                                                                *)

AllChecks == {"orphan_parent_id", "head_cursor", "dangling_diffs"}

\* The newest of some snapshots is one of them.
LEMMA NewestIsThere ==
  ASSUME NEW S \in SUBSET SnapshotId, S # {}
  PROVE  Max(S) \in S
<1>1. S \in SUBSET (0..MaxSnapshot)
  BY MaxSnapshotAssumption DEF SnapshotId
<1> QED
  BY <1>1, MaxOf, MaxSnapshotAssumption

\* What a repair does to a database, however damaged it is.
Heals(db, after, check) ==
  /\ IsDatabase(after)
  /\ KeepsRows(db, after)
  /\ Passes(after)[check]
  /\ \A other \in DOMAIN Passes(db) : Passes(db)[other] => Passes(after)[other]

LEMMA PassesEach ==
  ASSUME NEW db
  PROVE  /\ DOMAIN Passes(db) = AllChecks
         /\ Passes(db)["orphan_parent_id"] = (OrphanParents(db.nodes) = {})
         /\ Passes(db)["head_cursor"] = (db.head # 0 => db.head \in DOMAIN db.snaps)
         /\ Passes(db)["dangling_diffs"] = (DanglingDiffs(db) = {})
  BY DEF Passes, AllChecks

LEMMA ParentsHeal ==
  ASSUME NEW db, IsDatabase(db)
  PROVE  Heals(db, PromoteOrphansToRoots(db), "orphan_parent_id")
<1> DEFINE after == PromoteOrphansToRoots(db)
           orphans == OrphanParents(db.nodes)
<1>1. /\ after.nodes = [n \in DOMAIN db.nodes |->
                         IF n \in orphans THEN [db.nodes[n] EXCEPT !.parent = NoNode] ELSE db.nodes[n]]
      /\ after.snaps = db.snaps /\ after.diffs = db.diffs /\ after.head = db.head
      /\ after = [nodes |-> after.nodes, snaps |-> after.snaps, diffs |-> after.diffs, head |-> after.head]
  BY DEF IsDatabase, PromoteOrphansToRoots
<1> HIDE DEF after
<1>2. \A n \in DOMAIN db.nodes : db.nodes[n] \in NodeRow
  BY DEF IsDatabase, IsGraph, IsTable
<1>3. \A n \in DOMAIN db.nodes : after.nodes[n] \in NodeRow
  BY <1>1, <1>2 DEF NodeRow
<1>4. IsDatabase(after)
  BY <1>1, <1>3 DEF IsDatabase, IsGraph, IsTable
<1>5. KeepsRows(db, after)
  BY <1>1 DEF KeepsRows
<1>6. OrphanParents(after.nodes) = {}
  BY <1>1, <1>2 DEF OrphanParents, NodeRow
<1>7. DanglingDiffs(after) = DanglingDiffs(db)
  BY <1>1 DEF DanglingDiffs
<1>8. \A other \in AllChecks : Passes(db)[other] \/ other = "orphan_parent_id" => Passes(after)[other]
  BY <1>1, <1>4, <1>5, <1>6, <1>7, PassesEach DEF AllChecks
<1>9. Heals(db, after, "orphan_parent_id")
  BY <1>1, <1>4, <1>5, <1>6, <1>7, <1>8, PassesEach DEF Heals, AllChecks
<1> QED
  BY <1>9 DEF after

LEMMA HeadHeals ==
  ASSUME NEW db, IsDatabase(db)
  PROVE  Heals(db, RepointHeadCursor(db), "head_cursor")
<1> DEFINE after == RepointHeadCursor(db)
<1>1. /\ after.nodes = db.nodes /\ after.snaps = db.snaps /\ after.diffs = db.diffs
      /\ after.head = (IF DOMAIN db.snaps = {} THEN 0 ELSE Max(DOMAIN db.snaps))
      /\ after = [nodes |-> after.nodes, snaps |-> after.snaps, diffs |-> after.diffs, head |-> after.head]
  BY DEF IsDatabase, RepointHeadCursor, MaxSnapshotID
<1> HIDE DEF after
<1>2. after.head # 0 => after.head \in DOMAIN after.snaps
  BY <1>1, NewestIsThere DEF IsDatabase
<1>3. IsDatabase(after)
  BY <1>1 DEF IsDatabase
<1>4. KeepsRows(db, after)
  BY <1>1 DEF KeepsRows
<1>5. DanglingDiffs(after) = DanglingDiffs(db)
  BY <1>1 DEF DanglingDiffs
<1>6. \A other \in AllChecks : Passes(db)[other] \/ other = "head_cursor" => Passes(after)[other]
  BY <1>1, <1>2, <1>3, <1>4, <1>5, PassesEach DEF AllChecks
<1>7. Heals(db, after, "head_cursor")
  BY <1>1, <1>2, <1>3, <1>4, <1>5, <1>6, PassesEach DEF Heals, AllChecks
<1> QED
  BY <1>7 DEF after

LEMMA DiffsHeal ==
  ASSUME NEW db, IsDatabase(db)
  PROVE  Heals(db, DeleteDanglingDiffs(db), "dangling_diffs")
<1> DEFINE after == DeleteDanglingDiffs(db)
<1>1. /\ after.nodes = db.nodes /\ after.snaps = db.snaps /\ after.head = db.head
      /\ after.diffs = [s \in DOMAIN db.diffs \cap DOMAIN db.snaps |-> db.diffs[s]]
      /\ after = [nodes |-> after.nodes, snaps |-> after.snaps, diffs |-> after.diffs, head |-> after.head]
  BY DEF IsDatabase, DeleteDanglingDiffs, DanglingDiffs, Restrict
<1> HIDE DEF after
<1>2. DanglingDiffs(after) = {}
  BY <1>1 DEF DanglingDiffs
<1>3. IsDatabase(after)
  BY <1>1 DEF IsDatabase
<1>4. KeepsRows(db, after)
  BY <1>1 DEF KeepsRows
<1>5. \A other \in AllChecks : Passes(db)[other] \/ other = "dangling_diffs" => Passes(after)[other]
  BY <1>1, <1>2, <1>3, <1>4, PassesEach DEF AllChecks
<1>6. Heals(db, after, "dangling_diffs")
  BY <1>1, <1>2, <1>3, <1>4, <1>5, PassesEach DEF Heals, AllChecks
<1> QED
  BY <1>6 DEF after

\* A healthy database has nothing to repair.
LEMMA HealthyUntouched ==
  ASSUME TailInv, Healthy, NEW check \in AllChecks, live, Writes(Repaired(check))
  PROVE  UNCHANGED vars
<1>1. Sees = Tables
  BY DEF Sees
<1>2. OrphanParents(nodes) = {} /\ DanglingDiffs(Tables) = {}
  BY DEF OrphanParents, DanglingDiffs, Tables, Healthy, Sound, FKIntact
<1>3. PromoteOrphansToRoots(Tables).nodes = nodes
  BY <1>2 DEF PromoteOrphansToRoots, Tables, Healthy, Sound, IsFun
<1>4. DeleteDanglingDiffs(Tables).diffs = diffs
  BY <1>2 DEF DeleteDanglingDiffs, Tables, Healthy, IsFun, Restrict
<1>5. RepointHeadCursor(Tables).head = head
  <2>1. CASE DOMAIN snaps = {}
    BY <2>1 DEF RepointHeadCursor, MaxSnapshotID, Tables, TailInv, LinearChain
  <2>2. CASE DOMAIN snaps # {}
    <3>1. /\ head = seq /\ seq \in Nat /\ DOMAIN snaps \subseteq 1..seq
          /\ head # 0 => head \in DOMAIN snaps
      BY DEF TailInv, LinearChain
    <3>2. head \in DOMAIN snaps /\ DOMAIN snaps \in SUBSET Int /\ \A s \in DOMAIN snaps : s <= head
      BY <2>2, <3>1
    <3> QED
      BY <2>2, <3>2, MaxIs DEF RepointHeadCursor, MaxSnapshotID, Tables
  <2> QED
    BY <2>1, <2>2
<1>6. LET db == Repaired(check) IN
      db.nodes = nodes /\ db.snaps = snaps /\ db.diffs = diffs /\ db.head = head
  BY <1>1, <1>3, <1>4, <1>5
  DEF AllChecks, Repaired, PromoteOrphansToRoots, DeleteDanglingDiffs, RepointHeadCursor,
      MaxSnapshotID, Tables
<1> QED
  BY <1>6 DEF Writes, vars

-----------------------------------------------------------------------------
(* The doctor at work.                                                     *)

DoctorInv ==
  /\ SharedInv
  /\ Healthy
  /\ live \in BOOLEAN
  /\ ~live => IsDatabase(patient)
  /\ doctor.at = "fix" => doctor.checks \subseteq AllChecks

LEMMA DoctorInvInit == DoctorInit => DoctorInv
<1>1. DoctorInit => SharedInv
  BY SharedInvInit DEF DoctorInit
<1>2. DoctorInit => Healthy
  BY HealthyInit DEF DoctorInit, SharedInit
<1>3. DoctorInit => live \in BOOLEAN
  BY DEF DoctorInit
<1>4. DoctorInit => (~live => IsDatabase(patient))
  BY DamagedAssumption, Zenon DEF DoctorInit
<1>5. DoctorInit => doctor.at # "fix"
  BY DEF DoctorInit, Resting
<1> QED
  BY <1>1, <1>2, <1>3, <1>4, <1>5 DEF DoctorInv

\* A repair heals what is damaged, and changes nothing in the database of the servers.
LEMMA FixHeals ==
  ASSUME DoctorInv, Fix, UNCHANGED live
  PROVE  /\ UNCHANGED vars
         /\ live => UNCHANGED patient
         /\ ~live => \E check \in doctor.checks : Heals(patient, patient', check)
<1>1. PICK check \in AllChecks : check \in doctor.checks /\ Writes(Repaired(check))
  BY DEF Fix, DoctorInv
<1>2. CASE live
  BY <1>1, <1>2, HealthyUntouched DEF DoctorInv, SharedInv, Writes
<1>3. CASE ~live
  <2>1. patient' = Repaired(check) /\ UNCHANGED vars /\ Sees = patient
    BY <1>1, <1>3 DEF Writes, Sees
  <2>2. Heals(patient, patient', check)
    BY <1>1, <1>3, <2>1, ParentsHeal, HeadHeals, DiffsHeal DEF Repaired, AllChecks, DoctorInv
  <2> QED
    BY <1>1, <1>3, <2>1, <2>2
<1> QED
  BY <1>2, <1>3 DEF DoctorInv

\* Beside servers that work, a step of the doctor is none of theirs.
LEMMA DoctorIsUnseen == DoctorInv /\ [DoctorNext]_doctorVars => [SharedNext]_sharedVars
  BY FixHeals DEF DoctorNext, DoctorStep, FixFails, doctorVars, sharedVars

LEMMA DoctorInvPreserved == DoctorInv /\ [DoctorNext]_doctorVars => DoctorInv'
<1> SUFFICES ASSUME DoctorInv, [DoctorNext]_doctorVars PROVE DoctorInv'
  OBVIOUS
<1>1. SharedInv'
  BY DoctorIsUnseen, SharedInvPreserved DEF DoctorInv
<1>2. Healthy'
  <2>1. UNCHANGED vars => Healthy'
    BY DEF DoctorInv, Healthy, vars
  <2> QED
    BY <2>1, DoctorIsUnseen, HealthyPreserved DEF DoctorInv, sharedVars
<1>3. live' = live
  BY DEF DoctorNext, DoctorStep, doctorVars
<1>4. ~live => IsDatabase(patient')
  <2>1. Fix /\ ~live => IsDatabase(patient')
    BY <1>3, FixHeals DEF Heals
  <2> QED
    BY <2>1 DEF DoctorInv, DoctorNext, DoctorStep, FixFails, doctorVars
<1>5. doctor'.at = "fix" => doctor'.checks \subseteq AllChecks
  BY DEF DoctorInv, DoctorNext, DoctorStep, CheckParents, CheckDiffs, ReadHeadCursor, VerifyHead,
         SnapshotExists, CheckErrs, Fix, FixFails, Found, Repairs, Resting, AllChecks, doctorVars
<1> QED
  BY <1>1, <1>2, <1>3, <1>4, <1>5 DEF DoctorInv

\* With a doctor beside them the servers behave as they do without.
THEOREM DoctorUnseen == DoctorSpec => Sharing
<1>1. DoctorInit => SharedInit
  BY DEF DoctorInit
<1> QED
  BY <1>1, DoctorInvInit, DoctorInvPreserved, DoctorIsUnseen, PTL DEF DoctorSpec, Sharing

\* So the snapshots of several servers are one linear chain that ends at HEAD.
THEOREM ChainBesideDoctor == DoctorSpec => []LinearChain
  BY DoctorUnseen, SharedChain, PTL

\* And every commit of a lone server is one step of VersionTrail: OpMu makes handlers atomic.
THEOREM AtomicBesideDoctor == DoctorSpec => AtomicTrail
  BY DoctorUnseen, HandlersAreAtomic, PTL

\* Whatever servers do beside it, and whatever has happened to a database, a repair does no
\* harm: a healthy database stays as it is, a damaged one gets what the check asks for, keeps
\* what it had, and passes every check it passed.
THEOREM RepairsHeal == DoctorSpec => DoctorHeals
<1>1. DoctorInv /\ [DoctorNext]_doctorVars =>
        [IF live THEN doctor' # doctor => UNCHANGED vars
         ELSE /\ KeepsRows(patient, patient')
              /\ patient' # patient => \E check \in doctor.checks : Passes(patient')[check]
              /\ \A check \in DOMAIN Passes(patient) :
                   Passes(patient)[check] => Passes(patient')[check]]_doctorVars
  <2> SUFFICES ASSUME DoctorInv, DoctorNext
               PROVE  IF live THEN doctor' # doctor => UNCHANGED vars
                      ELSE /\ KeepsRows(patient, patient')
                           /\ patient' # patient => \E check \in doctor.checks : Passes(patient')[check]
                           /\ \A check \in DOMAIN Passes(patient) :
                                Passes(patient)[check] => Passes(patient')[check]
    OBVIOUS
  <2>1. UNCHANGED live
    BY DEF DoctorNext, DoctorStep
  <2>2. CASE Fix
    BY <2>1, <2>2, FixHeals DEF Heals
  <2>3. CASE ~Fix
    <3>1. UNCHANGED patient
      BY <2>3 DEF DoctorNext, DoctorStep, FixFails
    <3>2. live => (doctor' # doctor => UNCHANGED vars)
      BY <2>3 DEF DoctorNext, DoctorStep, FixFails
    <3> QED
      BY <3>1, <3>2 DEF KeepsRows
  <2> QED
    BY <2>2, <2>3
<1> QED
  BY <1>1, DoctorInvInit, DoctorInvPreserved, PTL DEF DoctorSpec, DoctorHeals
=============================================================================
