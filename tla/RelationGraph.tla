--------------------------- MODULE RelationGraph ---------------------------
(***************************************************************************)
(* The lateral edges between nodes: relations and pending_relations, as     *)
(* compiles resolve wiki-links into them, MemoryRelate adds to them, and    *)
(* the deletion of nodes (forget, purge, compile, rollback) turns edges     *)
(* back into pending rows, or takes them along with their source.           *)
(*                                                                         *)
(* Left out: weights (RelatedWalk has them), the normalisation of labels    *)
(* and the suffix match of source qualifiers, MemoryWrite and               *)
(* MemorySummarize, which touch no edge, and what a rollback may restore    *)
(* other than the table its target had (VersionTrail).  Two pending rows    *)
(* that differ in their id only are one.                                   *)
(***************************************************************************)
EXTENDS Naturals, FiniteSets, Sequences, NodeTree

CONSTANTS
  NodeCount,     \* identifiers are 1..NodeCount, in the order of their hashes
  HomeParent,    \* parent of each identifier in its source file, or NoNode
  FileOf,        \* the source file of each node
  Heading,       \* the nodes that are headings
  Rank,          \* the order of source_file, depth, id
  Titles,        \* the labels each node can have
  Refs,          \* the sets of links each node's text can have
  ManualRefs,    \* the targets MemoryRelate is called with
  AnyFile,       \* no source qualifier
  NoId,          \* no identifier hint
  MaxKept        \* bound on how many snapshots a rollback can go back

Node == 1..NodeCount

ASSUME NodeAssumption ==
  /\ NodeCount \in Nat /\ MaxKept \in Nat
  /\ Heading \subseteq Node
  /\ NoId \notin Node
  /\ \A n \in Node : FileOf[n] # AnyFile /\ Rank[n] \in Nat

ASSUME HomeAssumption ==
  \A n \in Node : HomeParent[n] # NoNode =>
     HomeParent[n] \in Node /\ FileOf[HomeParent[n]] = FileOf[n]

VARIABLES
  nodes,       \* table nodes: place, and the links of its text the resolver was last given
  relations,   \* table relations
  pending,     \* table pending_relations
  snapshots,   \* the places of the nodes before each call, newest first
  struck       \* history: the rows the last call deleted, to put back or not, with their labels

vars == <<nodes, relations, pending, snapshots, struck>>

Alive == DOMAIN nodes
Files == {FileOf[n] : n \in Node}

\* The columns of a row that a snapshot restores.
PlaceOf(row) == [label |-> row.label, parent |-> row.parent]
RowOf(place, refs) == [label |-> place.label, parent |-> place.parent, refs |-> refs]
PlacesOf(ns) == [n \in DOMAIN ns |-> PlaceOf(ns[n])]

Ref(label, source, hint) == [label |-> label, source |-> source, hint |-> hint]

EdgeTo(src, dst, origin) == [src |-> src, dst |-> dst, origin |-> origin]
PendingOn(src, ref, origin) == [src |-> src, ref |-> ref, origin |-> origin]

-----------------------------------------------------------------------------
(* ResolveTx: by identifier, or the first heading of that label.           *)

HeadingsNamed(ns, label) == {n \in Heading \cap DOMAIN ns : ns[n].label = label}
HeadingsNamedIn(ns, source, label) == {n \in HeadingsNamed(ns, label) : FileOf[n] = source}

Candidates(ns, ref) ==
  IF ref.hint # NoId THEN {ref.hint} \cap DOMAIN ns
  ELSE IF ref.source # AnyFile THEN HeadingsNamedIn(ns, ref.source, ref.label)
  ELSE HeadingsNamed(ns, ref.label)

Resolves(ns, ref) == Candidates(ns, ref) # {}
Resolve(ns, ref) ==
  CHOOSE n \in Candidates(ns, ref) : \A m \in Candidates(ns, ref) : Rank[n] <= Rank[m]

\* emit: an edge, or a pending row.
EdgesFor(ns, src, refs, origin) ==
  {EdgeTo(src, Resolve(ns, ref), origin) : ref \in {r \in refs : Resolves(ns, r)}}
PendingFor(ns, src, refs, origin) ==
  {PendingOn(src, ref, origin) : ref \in {r \in refs : ~Resolves(ns, r)}}

-----------------------------------------------------------------------------
(* One statement after the other on the tables.                            *)

NothingStruck == [n \in {} |-> NoId]

Tables(ns, es, ps, labels) == [nodes |-> ns, relations |-> es, pending |-> ps, struck |-> labels]

Stored == Tables(nodes, relations, pending, NothingStruck)

\* UPSERT of the rows t: a new row has no links yet, another keeps what hangs from it.
Placed(ns, t) ==
  [n \in DOMAIN t |-> RowOf(t[n], IF n \in DOMAIN ns THEN ns[n].refs ELSE {})]

Upserted(db, t) ==
  Tables(Put(db.nodes, Placed(db.nodes, t), DOMAIN t), db.relations, db.pending, db.struck)

\* The trigger: an edge into a deleted row becomes a pending row that names its label and file.
RependAs(db, e) == PendingOn(e.src, Ref(db.nodes[e.dst].label, FileOf[e.dst], NoId), e.origin)

\* Mutant: only edges a compile made are kept as pending rows.
RependedParsed(db, gone) ==
  {RependAs(db, e) : e \in {e \in db.relations :
                              e.dst \in gone /\ e.src \notin gone /\ e.origin = "parsed"}}

Repended(db, gone) ==
  {RependAs(db, e) : e \in {e \in db.relations : e.dst \in gone /\ e.src \notin gone}}

EdgesWithout(db, gone) == {e \in db.relations : e.src \notin gone /\ e.dst \notin gone}

\* Mutant: no trigger, edges into a deleted node just go.
PendingUntouched(db, gone) == {p \in db.pending : p.src \notin gone}

PendingWithout(db, gone) == {p \in db.pending : p.src \notin gone} \cup Repended(db, gone)

StruckWith(db, gone) ==
  [n \in DOMAIN db.struck \cup gone |->
     IF n \in DOMAIN db.struck THEN db.struck[n] ELSE db.nodes[n].label]

\* DELETE of the rows R: what cascades from them goes too, with the edges and the pending
\* rows out of it.
Deleted(db, R) ==
  LET gone == Cascade(db.nodes, R) IN
  Tables(Restrict(db.nodes, DOMAIN db.nodes \ gone),
         EdgesWithout(db, gone), PendingWithout(db, gone), StruckWith(db, gone))

Newest(s) == IF Len(s) <= MaxKept THEN s ELSE [i \in 1..MaxKept |-> s[i]]

\* A table no place of which changed is not kept twice.
Recorded(ns) ==
  snapshots' = IF PlacesOf(ns) = PlacesOf(nodes) THEN snapshots
               ELSE Newest(<<PlacesOf(nodes)>> \o snapshots)

\* The commit, where deferred foreign keys are checked.
Committed(db) ==
  /\ FKIntact(db.nodes)
  /\ nodes' = db.nodes
  /\ relations' = db.relations
  /\ pending' = db.pending
  /\ struck' = db.struck
  /\ Recorded(db.nodes)

-----------------------------------------------------------------------------
(* What a compile of the files fs can find.                                *)
OneOf(sets, S) == {f \in [S -> UNION {sets[n] : n \in S}] : \A n \in S : f[n] \in sets[n]}

TextsOf(S) ==
  {[n \in S |-> [label |-> l[n], refs |-> r[n]]] : l \in OneOf(Titles, S), r \in OneOf(Refs, S)}

ParsedSets(fs) ==
  {S \in SUBSET {n \in Node : FileOf[n] \in fs} : \A n \in S : HomeParent[n] \in S \cup {NoNode}}

Texts(fs) == UNION {TextsOf(S) : S \in ParsedSets(fs)}

\* Mutant: pending rows of other sources are not tried again.
RetriedOwn(ns, ps) == {p \in ps : p.src \in {n \in DOMAIN ns : ns[n].refs # {}} /\ Resolves(ns, p.ref)}

Retried(ns, ps) == {p \in ps : Resolves(ns, p.ref)}

\* RunTx clears the old parsed rows of the sources that have links ...
Linking(t) == {n \in DOMAIN t : t[n].refs # {}}
Cleared(ps, sources) == {p \in ps : ~(p.origin = "parsed" /\ p.src \in sources)}

Homes(t, S) == [n \in S |-> [label |-> t[n].label, parent |-> HomeParent[n]]]

\* Compile: emit, then RunTx in the same transaction.  Rows of `same` have the content that
\* was parsed and are left where they are.  A compile of a directory takes a node that
\* another kind of call wrote last for absent: it is not in `gone`, nor in `same`.
Compile(fs, t, gone, same) ==
  LET db      == Deleted(Upserted(Stored, Homes(t, DOMAIN t \ same)), gone)
      ns      == [n \in DOMAIN db.nodes |->
                    IF n \in DOMAIN t THEN RowOf(PlaceOf(db.nodes[n]), t[n].refs) ELSE db.nodes[n]]
      edges   == UNION {EdgesFor(ns, n, t[n].refs, "parsed") : n \in Linking(t)}
      waiting == Cleared(db.pending, Linking(t))
                   \cup UNION {PendingFor(ns, n, t[n].refs, "parsed") : n \in Linking(t)}
      retried == Retried(ns, waiting)
      hung    == {EdgeTo(p.src, Resolve(ns, p.ref), p.origin) : p \in retried}
  IN
  /\ gone \subseteq {n \in Alive : FileOf[n] \in fs} \ DOMAIN t
  /\ same \subseteq {n \in Alive \cap DOMAIN t : nodes[n].label = t[n].label}
  /\ Linking(t) \subseteq DOMAIN ns   \* the foreign keys of the link tables
  /\ Committed(Tables(ns, db.relations \cup edges \cup hung, waiting \ retried, db.struck))

\* MemoryForget.
ForgetStrict(n) ==
  /\ n \in Alive
  /\ ChildrenOf(nodes, n) = {}
  /\ Committed(Deleted(Stored, {n}))

ForgetCascade(n) ==
  /\ n \in Alive
  /\ Committed(Deleted(Stored, Subtree(nodes, n)))

Promoted(n) == [c \in ChildrenOf(nodes, n) |-> [label |-> nodes[c].label, parent |-> nodes[n].parent]]

ForgetReparent(n) ==
  /\ n \in Alive
  /\ Committed(Deleted(Upserted(Stored, Promoted(n)), {n}))

\* The purge of a rescan tick.
Purge(fs) ==
  LET R == {n \in Alive : FileOf[n] \in fs} IN
  /\ R # {}
  /\ Committed(Deleted(Stored, R))

\* applyRollbackMutations: one statement per delta, in the order of the identifiers.
InIdOrder(target, deltas) ==
  LET after[i \in 0..NodeCount] ==
        IF i = 0 THEN Stored
        ELSE IF i \notin deltas THEN after[i - 1]
        ELSE IF i \in DOMAIN target THEN Upserted(after[i - 1], Restrict(target, {i}))
        ELSE Deleted(after[i - 1], {i})
  IN  after[NodeCount]

Moved(target) ==
  {n \in Alive \cup DOMAIN target :
     ~(n \in Alive /\ n \in DOMAIN target /\ PlaceOf(nodes[n]) = target[n])}

\* MemoryRollback writes nodes and never resolves links.  Rows of `rewritten` differ in their
\* content alone.
Rollback(target, rewritten) ==
  /\ rewritten \subseteq Alive \cap DOMAIN target
  /\ Moved(target) \cup rewritten # {}
  /\ Committed(InIdOrder(target, Moved(target) \cup rewritten))

\* MemoryRelate.
Relate(src, ref) ==
  /\ src \in Alive
  /\ relations' = relations \cup EdgesFor(nodes, src, {ref}, "manual")
  /\ pending' = pending \cup PendingFor(nodes, src, {ref}, "manual")
  /\ struck' = NothingStruck
  /\ UNCHANGED <<nodes, snapshots>>

Init ==
  /\ nodes = [n \in {} |-> NoId]
  /\ relations = {}
  /\ pending = {}
  /\ snapshots = <<>>
  /\ struck = NothingStruck

\* Rows that a promotion left elsewhere than their file has them.
Displaced == {n \in Alive : nodes[n].parent # HomeParent[n]}

CompileStep ==
  \E fs \in (SUBSET Files) \ {{}} : \E t \in Texts(fs) :
    \E gone \in SUBSET (Alive \ DOMAIN t) : \E same \in SUBSET Displaced :
      Compile(fs, t, gone, same)

Next ==
  \/ CompileStep
  \/ \E n \in Node : ForgetStrict(n)
  \/ \E n \in Node : ForgetCascade(n)
  \/ \E n \in Node : ForgetReparent(n)
  \/ \E fs \in (SUBSET Files) \ {{}} : Purge(fs)
  \/ \E i \in DOMAIN snapshots : \E rewritten \in SUBSET (Alive \ Moved(snapshots[i])) : Rollback(snapshots[i], rewritten)
  \/ \E src \in Node, ref \in ManualRefs : Relate(src, ref)

Spec == Init /\ [][Next]_vars

-----------------------------------------------------------------------------
(* Properties.                                                             *)

\* Where a link can have gone: an edge to the node it names, or a pending row that names it.
Named(src, origin, labels, files) ==
  \/ \E e \in relations : /\ e.src = src /\ e.origin = origin
                          /\ nodes[e.dst].label \in labels /\ FileOf[e.dst] \in files
  \/ \E p \in pending : /\ p.src = src /\ p.origin = origin
                        /\ p.ref.label \in labels
                        /\ p.ref.source \in files \cup {AnyFile}

\* While labels stay with their nodes, every link the resolver was given stays an edge or a
\* pending row for as long as its source's row does: through deletions of the target,
\* cascades, promotions, recompiles, and the statements of a rollback.
LinkKept ==
  \A n \in Alive : \A ref \in nodes[n].refs :
     ref.hint = NoId =>
       Named(n, "parsed", {ref.label}, IF ref.source = AnyFile THEN Files ELSE {ref.source})

\* A pending link is retried on every compile: no step that leaves one that could resolve is
\* a compile, of whichever files.
Healed == [][(\E p \in pending' : Resolves(nodes', p.ref)) => ~CompileStep]_vars

\* The links of a node that name a heading, not an identifier.
ByName(refs) == {ref \in refs : ref.hint = NoId}

\* A compile of the source takes the new text, which may have the link to another file or not
\* at all.
Rewritten(e, label) ==
  /\ e.origin = "parsed"
  /\ nodes'[e.src].refs # {}
  /\ label \notin {ref.label : ref \in ByName(nodes'[e.src].refs)}

FilesOf(e) ==
  IF e.origin = "parsed" THEN Files \cup {ref.source : ref \in nodes[e.src].refs}
  ELSE {FileOf[e.dst]}

StillNamed(e, label) == Named(e.src, e.origin, {label}, FilesOf(e))' \/ Rewritten(e, label)

\* An edge disappears only with the row of its source or of its target: with that of its
\* target alone, it falls back to pending, or is resolved again in the same step.
FallsBack ==
  [][\A e \in relations \ relations' :
        e.src \in Alive' /\ e.src \notin DOMAIN struck' =>
          /\ e.dst \in DOMAIN struck'
          /\ \A label \in {struck'[e.dst]} : StillNamed(e, label)]_vars
=============================================================================
