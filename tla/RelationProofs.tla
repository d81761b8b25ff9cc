--------------------------- MODULE RelationProofs ---------------------------
(***************************************************************************)
(* Theorems about RelationGraph and RelatedWalk, for any nodes, tree, files, *)
(* labels and links and any number of snapshots a rollback can go back.     *)
(***************************************************************************)
EXTENDS RelatedWalk, FiniteSetTheorems, WellFoundedInduction, TLAPS

USE DEF Alive

\* A set of natural numbers has a least element.
LEMMA LeastNat ==
  ASSUME NEW S \in SUBSET Nat, S # {}
  PROVE  \E m \in S : \A k \in S : m <= k
<1>1. PICK m \in S : \A k \in S : ~(<<k, m>> \in OpToRel(<, Nat))
  BY NatLessThanWellFounded, WFMin
<1>2. \A k \in S : ~(k < m)
  BY <1>1 DEF OpToRel
<1> QED
  BY <1>2

\* A set with 0, and with k when it has k - 1, has all numbers up to n.
LEMMA UpTo ==
  ASSUME NEW n \in Nat, NEW S, 0 \in S, \A k \in 1..n : k - 1 \in S => k \in S
  PROVE  \A k \in 0..n : k \in S
<1> SUFFICES ASSUME (0..n) \ S # {} PROVE FALSE
  OBVIOUS
<1>1. (0..n) \ S \in SUBSET Nat
  OBVIOUS
<1>2. PICK m \in (0..n) \ S : \A k \in (0..n) \ S : m <= k
  BY <1>1, LeastNat
<1>3. m # 0 /\ m \in 1..n /\ m - 1 \in 0..n /\ ~(m <= m - 1)
  BY <1>2
<1> QED
  BY <1>2, <1>3

-----------------------------------------------------------------------------
(* The tables, one statement after the other.                              *)

Origins == {"parsed", "manual"}

\* Edges are between live nodes, and pending rows are of live nodes.
GraphInv ==
  /\ Alive \subseteq Node
  /\ \E S : snapshots \in Seq(S) /\ \A places \in S : DOMAIN places \subseteq Node
  /\ \A e \in relations : e.src \in Alive /\ e.dst \in Alive /\ e.origin \in Origins
  /\ \A p \in pending : p.src \in Alive /\ p.origin \in Origins

\* The pending row that the deletion of the target of e leaves.
LeftBy(e, labels) == PendingOn(e.src, Ref(labels[e.dst], FileOf[e.dst], NoId), e.origin)

\* What statements have made of the tables: rows that were not struck are there with their links,
\* their edges and their pending rows, where an edge into a struck row is a pending row for the
\* label it had; and nothing hangs from any other row.
Staged(db) ==
  LET gone == DOMAIN db.struck IN
  /\ DOMAIN db.nodes \subseteq Node
  /\ \A n \in Alive \ gone : n \in DOMAIN db.nodes /\ db.nodes[n].refs = nodes[n].refs
  /\ \A n \in DOMAIN db.nodes : n \notin Alive \ gone => db.nodes[n].refs = {}
  /\ db.relations = {e \in relations : e.src \notin gone /\ e.dst \notin gone}
  /\ \A p \in pending : p.src \notin gone => p \in db.pending
  /\ \A e \in relations : e.src \notin gone /\ e.dst \in gone => LeftBy(e, db.struck) \in db.pending
  /\ \A p \in db.pending : p.src \in Alive \ gone /\ p.origin \in Origins

LEMMA StoredStaged == ASSUME GraphInv PROVE Staged(Stored)
  BY DEF GraphInv, Staged, Stored, Tables, NothingStruck

LEMMA UpsertedStaged ==
  ASSUME NEW db, Staged(db), NEW t, DOMAIN t \subseteq Node
  PROVE  Staged(Upserted(db, t))
<1>1. PICK ns : ns = Put(db.nodes, Placed(db.nodes, t), DOMAIN t)
  OBVIOUS
<1>2. /\ DOMAIN ns = DOMAIN db.nodes \cup DOMAIN t
      /\ \A n \in DOMAIN ns : n \notin DOMAIN t => ns[n] = db.nodes[n]
      /\ \A n \in DOMAIN t : ns[n].refs = IF n \in DOMAIN db.nodes THEN db.nodes[n].refs ELSE {}
  BY <1>1 DEF Put, Placed, RowOf
<1>3. PICK up : up = Upserted(db, t)
  OBVIOUS
<1>4. /\ up.nodes = ns /\ up.relations = db.relations
      /\ up.pending = db.pending /\ up.struck = db.struck
  BY <1>1, <1>3 DEF Upserted, Tables
<1>5. DOMAIN ns \subseteq Node
  BY <1>2 DEF Staged
<1>6. \A n \in Alive \ DOMAIN db.struck : n \in DOMAIN ns /\ ns[n].refs = nodes[n].refs
  BY <1>2 DEF Staged
<1>7. \A n \in DOMAIN ns : n \notin Alive \ DOMAIN db.struck => ns[n].refs = {}
  BY <1>2 DEF Staged
<1>8. Staged(up)
  BY <1>4, <1>5, <1>6, <1>7 DEF Staged
<1> QED
  BY <1>3, <1>8

LEMMA DeletedStaged ==
  ASSUME GraphInv, NEW db, Staged(db), NEW R
  PROVE  Staged(Deleted(db, R))
<1>1. PICK gone : gone = Cascade(db.nodes, R)
  OBVIOUS
<1>2. PICK del : del = Deleted(db, R)
  OBVIOUS
<1>3. /\ del.nodes = Restrict(db.nodes, DOMAIN db.nodes \ gone)
      /\ del.relations = EdgesWithout(db, gone)
      /\ del.pending = PendingWithout(db, gone)
      /\ del.struck = StruckWith(db, gone)
  BY <1>1, <1>2 DEF Deleted, Tables
<1>4. PICK before, after : before = DOMAIN db.struck /\ after = before \cup gone
  OBVIOUS
<1>5. /\ DOMAIN del.struck = after
      /\ \A n \in before : del.struck[n] = db.struck[n]
      /\ \A n \in gone \ before : del.struck[n] = db.nodes[n].label
  BY <1>3, <1>4 DEF StruckWith
<1>6. /\ DOMAIN del.nodes = DOMAIN db.nodes \ gone
      /\ \A n \in DOMAIN del.nodes : del.nodes[n] = db.nodes[n]
  BY <1>3 DEF Restrict
<1>7. /\ DOMAIN db.nodes \subseteq Node
      /\ \A n \in Alive \ before : n \in DOMAIN db.nodes /\ db.nodes[n].refs = nodes[n].refs
      /\ \A n \in DOMAIN db.nodes : n \notin Alive \ before => db.nodes[n].refs = {}
      /\ db.relations = {e \in relations : e.src \notin before /\ e.dst \notin before}
      /\ \A p \in pending : p.src \notin before => p \in db.pending
      /\ \A e \in relations : e.src \notin before /\ e.dst \in before => LeftBy(e, db.struck) \in db.pending
      /\ \A p \in db.pending : p.src \in Alive \ before /\ p.origin \in Origins
  BY <1>4 DEF Staged
<1>8. DOMAIN del.nodes \subseteq Node
  BY <1>6, <1>7
<1>9. \A n \in Alive \ after : n \in DOMAIN del.nodes /\ del.nodes[n].refs = nodes[n].refs
  BY <1>4, <1>6, <1>7
<1>10. \A n \in DOMAIN del.nodes : n \notin Alive \ after => del.nodes[n].refs = {}
  BY <1>4, <1>6, <1>7
<1>11. del.relations = {e \in relations : e.src \notin after /\ e.dst \notin after}
  BY <1>3, <1>4, <1>7 DEF EdgesWithout
<1>12. \A p \in pending : p.src \notin after => p \in del.pending
  BY <1>3, <1>4, <1>7 DEF PendingWithout
<1>13. ASSUME NEW e \in relations, e.src \notin after, e.dst \in after
       PROVE  LeftBy(e, del.struck) \in del.pending
  <2>1. CASE e.dst \in before
    <3>1. LeftBy(e, del.struck) = LeftBy(e, db.struck) /\ LeftBy(e, db.struck) \in db.pending
      BY <1>4, <1>5, <1>7, <1>13, <2>1 DEF LeftBy
    <3>2. LeftBy(e, db.struck).src \notin gone
      BY <1>4, <1>13 DEF LeftBy, PendingOn
    <3> QED
      BY <1>3, <3>1, <3>2 DEF PendingWithout
  <2>2. CASE e.dst \notin before
    <3>1. e \in db.relations /\ e.dst \in gone /\ e.src \notin gone
      BY <1>4, <1>7, <1>13, <2>2
    <3>2. LeftBy(e, del.struck) = RependAs(db, e)
      BY <1>5, <2>2, <3>1 DEF LeftBy, RependAs
    <3> QED
      BY <1>3, <3>1, <3>2 DEF PendingWithout, Repended
  <2> QED
    BY <2>1, <2>2
<1>14. ASSUME NEW p \in del.pending PROVE p.src \in Alive \ after /\ p.origin \in Origins
  <2>1. CASE p \in db.pending /\ p.src \notin gone
    BY <1>4, <1>7, <2>1
  <2>2. ASSUME NEW e \in db.relations, e.src \notin gone, p = RependAs(db, e)
        PROVE  p.src \in Alive \ after /\ p.origin \in Origins
    <3>1. e \in relations /\ e.src \notin before /\ p.src = e.src /\ p.origin = e.origin
      BY <1>7, <2>2 DEF RependAs, PendingOn
    <3>2. e.src \in Alive /\ e.origin \in Origins
      BY <3>1 DEF GraphInv
    <3> QED
      BY <1>4, <2>2, <3>1, <3>2
  <2> QED
    BY <1>3, <1>14, <2>1, <2>2 DEF PendingWithout, Repended
<1>15. Staged(del)
  BY <1>5, <1>8, <1>9, <1>10, <1>11, <1>12, <1>13, <1>14 DEF Staged
<1> QED
  BY <1>2, <1>15

\* One statement of a rollback.
RollStep(target, deltas, i, db) ==
  IF i \notin deltas THEN db
  ELSE IF i \in DOMAIN target THEN Upserted(db, Restrict(target, {i})) ELSE Deleted(db, {i})

IsRun(f, target, deltas, n) ==
  /\ DOMAIN f = 0..n
  /\ f[0] = Stored
  /\ \A i \in 1..n : f[i] = RollStep(target, deltas, i, f[i - 1])

LEMMA RunExists ==
  ASSUME NEW target, NEW deltas
  PROVE  \E f : f = [i \in 0..NodeCount |-> IF i = 0 THEN Stored ELSE RollStep(target, deltas, i, f[i - 1])]
<1> DEFINE S == {m \in 0..NodeCount : \E f : IsRun(f, target, deltas, m)}
<1>0. NodeCount \in Nat
  BY NodeAssumption
<1>1. 0 \in S
  <2>1. PICK f : f = [i \in 0..0 |-> Stored]
    OBVIOUS
  <2>2. IsRun(f, target, deltas, 0)
    BY <2>1 DEF IsRun
  <2>3. 0 \in 0..NodeCount
    BY <1>0
  <2> QED
    BY <2>2, <2>3
<1>2. ASSUME NEW m \in 1..NodeCount, m - 1 \in S PROVE m \in S
  <2>1. PICK f : IsRun(f, target, deltas, m - 1)
    BY <1>2
  <2>2. PICK last : last = RollStep(target, deltas, m, f[m - 1])
    OBVIOUS
  <2>3. PICK g : g = [i \in 0..m |-> IF i = m THEN last ELSE f[i]]
    OBVIOUS
  <2>4. m \in Nat /\ m # 0 /\ m \in 0..NodeCount /\ 0 \in 0..m /\ m \in 0..m /\ m - 1 \in 0..m
    BY <1>0
  <2>5. g[0] = Stored /\ g[m] = last
    BY <2>1, <2>3, <2>4 DEF IsRun
  <2>6. ASSUME NEW i \in 1..m PROVE g[i] = RollStep(target, deltas, i, g[i - 1])
    <3>1. i - 1 \in 0..m /\ i - 1 # m /\ i \in 0..m
      BY <2>4
    <3>2. g[i - 1] = f[i - 1]
      BY <2>3, <3>1
    <3>3. CASE i = m
      BY <2>2, <2>5, <3>2, <3>3
    <3>4. CASE i # m
      <4>1. i \in 1..(m - 1)
        BY <2>4, <3>4
      <4>2. f[i] = RollStep(target, deltas, i, f[i - 1])
        BY <2>1, <4>1 DEF IsRun
      <4>3. g[i] = f[i]
        BY <2>3, <3>1, <3>4
      <4> QED
        BY <3>2, <4>2, <4>3
    <3> QED
      BY <3>3, <3>4
  <2>7. IsRun(g, target, deltas, m)
    BY <2>3, <2>5, <2>6 DEF IsRun
  <2> QED
    BY <2>4, <2>7
<1> HIDE DEF S
<1>3. NodeCount \in S
  <2>1. NodeCount \in 0..NodeCount
    BY <1>0
  <2> QED
    BY <1>0, <1>1, <1>2, <2>1, UpTo
<1>4. PICK f : IsRun(f, target, deltas, NodeCount)
  BY <1>3 DEF S
<1>5. PICK g : g = [i \in 0..NodeCount |-> f[i]]
  OBVIOUS
<1>6. ASSUME NEW i \in 0..NodeCount
      PROVE  g[i] = IF i = 0 THEN Stored ELSE RollStep(target, deltas, i, g[i - 1])
  <2>1. CASE i = 0
    BY <1>4, <1>5, <2>1 DEF IsRun
  <2>2. CASE i # 0
    <3>1. i \in 1..NodeCount /\ i - 1 \in 0..NodeCount
      BY <1>0, <2>2
    <3> QED
      BY <1>4, <1>5, <2>2, <3>1 DEF IsRun
  <2> QED
    BY <2>1, <2>2
<1>7. g = [i \in 0..NodeCount |-> IF i = 0 THEN Stored ELSE RollStep(target, deltas, i, g[i - 1])]
  BY <1>5, <1>6
<1> QED
  BY <1>7

LEMMA RunUnroll ==
  ASSUME NEW target, NEW deltas
  PROVE  \E f : IsRun(f, target, deltas, NodeCount) /\ InIdOrder(target, deltas) = f[NodeCount]
<1> DEFINE Eq(after) == after = [i \in 0..NodeCount |->
             IF i = 0 THEN Stored
             ELSE IF i \notin deltas THEN after[i - 1]
             ELSE IF i \in DOMAIN target THEN Upserted(after[i - 1], Restrict(target, {i}))
             ELSE Deleted(after[i - 1], {i})]
<1>1. PICK e : e = [i \in 0..NodeCount |-> IF i = 0 THEN Stored ELSE RollStep(target, deltas, i, e[i - 1])]
  BY RunExists
<1>2. Eq(e)
  BY <1>1 DEF RollStep
<1> DEFINE u == CHOOSE after : Eq(after)
<1> HIDE DEF Eq
<1>3. Eq(u)
  BY <1>2, Zenon
<1>4. InIdOrder(target, deltas) = u[NodeCount]
  BY DEF InIdOrder, Eq
<1> HIDE DEF u
<1>5. u = [i \in 0..NodeCount |-> IF i = 0 THEN Stored ELSE RollStep(target, deltas, i, u[i - 1])]
  BY <1>3 DEF Eq, RollStep
<1>6. \A i \in 1..NodeCount : i \in 0..NodeCount /\ i # 0
  BY NodeAssumption
<1>7. 0 \in 0..NodeCount
  BY NodeAssumption
<1>8. IsRun(u, target, deltas, NodeCount)
  BY <1>5, <1>6, <1>7 DEF IsRun
<1> QED
  BY <1>4, <1>8

LEMMA RolledStaged ==
  ASSUME GraphInv, NEW target, DOMAIN target \subseteq Node, NEW deltas
  PROVE  Staged(InIdOrder(target, deltas))
<1>1. PICK f : IsRun(f, target, deltas, NodeCount) /\ InIdOrder(target, deltas) = f[NodeCount]
  BY RunUnroll
<1> DEFINE S == {i \in 0..NodeCount : Staged(f[i])}
<1>2. 0 \in S
  <2>1. Staged(f[0])
    BY <1>1, StoredStaged DEF IsRun
  <2>2. 0 \in 0..NodeCount
    BY NodeAssumption
  <2> QED
    BY <2>1, <2>2
<1>3. ASSUME NEW i \in 1..NodeCount, i - 1 \in S PROVE i \in S
  <2>1. PICK db : db = f[i - 1]
    OBVIOUS
  <2>2. Staged(db) /\ f[i] = RollStep(target, deltas, i, db)
    BY <1>1, <1>3, <2>1 DEF IsRun
  <2>3. Staged(Deleted(db, {i}))
    BY <2>2, DeletedStaged
  <2>4. DOMAIN Restrict(target, {i}) \subseteq Node \/ i \notin DOMAIN target
    BY DEF Restrict
  <2>5. i \in DOMAIN target => Staged(Upserted(db, Restrict(target, {i})))
    BY <2>2, <2>4, UpsertedStaged
  <2>6. i \in 0..NodeCount
    OBVIOUS
  <2> QED
    BY <2>2, <2>3, <2>5, <2>6 DEF RollStep
<1> HIDE DEF S
<1>4. NodeCount \in Nat /\ NodeCount \in 0..NodeCount
  BY NodeAssumption
<1>5. NodeCount \in S
  BY <1>2, <1>3, <1>4, UpTo
<1> QED
  BY <1>1, <1>5 DEF S

\* The places of a table that is kept, or not, are of nodes.
LEMMA RecordedPlaces ==
  ASSUME GraphInv, NEW ns, Recorded(ns)
  PROVE  \E S : snapshots' \in Seq(S) /\ \A places \in S : DOMAIN places \subseteq Node
<1>1. PICK S : snapshots \in Seq(S) /\ \A places \in S : DOMAIN places \subseteq Node
  BY DEF GraphInv
<1>2. CASE snapshots' = snapshots
  BY <1>1, <1>2
<1>3. CASE snapshots' # snapshots
  <2>1. PICK now : now = PlacesOf(nodes)
    OBVIOUS
  <2>2. DOMAIN now \subseteq Node
    BY <2>1 DEF PlacesOf, GraphInv
  <2>3. PICK T : T = S \cup {now}
    OBVIOUS
  <2>4. snapshots \in Seq(T) /\ <<now>> \in Seq(T) /\ \A places \in T : DOMAIN places \subseteq Node
    BY <1>1, <2>2, <2>3
  <2>5. PICK s : s = <<now>> \o snapshots
    OBVIOUS
  <2>6. s \in Seq(T) /\ snapshots' = Newest(s)
    BY <1>3, <2>1, <2>4, <2>5 DEF Recorded
  <2>7. Newest(s) \in Seq(T)
    <3>1. CASE Len(s) <= MaxKept
      BY <2>6, <3>1 DEF Newest
    <3>2. CASE ~(Len(s) <= MaxKept)
      <4>1. MaxKept \in Nat /\ Len(s) \in Nat /\ \A i \in 1..MaxKept : i \in 1..Len(s)
        BY <2>6, <3>2, NodeAssumption
      <4>2. \A i \in 1..MaxKept : s[i] \in T
        BY <2>6, <4>1
      <4>3. [i \in 1..MaxKept |-> s[i]] \in Seq(T)
        BY <4>1, <4>2
      <4> QED
        BY <3>2, <4>3 DEF Newest
    <3> QED
      BY <3>1, <3>2
  <2> QED
    BY <2>4, <2>6, <2>7
<1> QED
  BY <1>2, <1>3

LEMMA CommitGraph ==
  ASSUME GraphInv, NEW db, Staged(db), Committed(db)
  PROVE  GraphInv'
<1>1. nodes' = db.nodes /\ relations' = db.relations /\ pending' = db.pending /\ Recorded(db.nodes)
  BY DEF Committed
<1>2. \E S : snapshots' \in Seq(S) /\ \A places \in S : DOMAIN places \subseteq Node
  BY <1>1, RecordedPlaces
<1>3. ASSUME NEW e \in relations'
      PROVE  e.src \in Alive' /\ e.dst \in Alive' /\ e.origin \in Origins
  <2>1. e \in relations /\ e.src \notin DOMAIN db.struck /\ e.dst \notin DOMAIN db.struck
    BY <1>1 DEF Staged
  <2> QED
    BY <1>1, <2>1 DEF Staged, GraphInv
<1>4. ASSUME NEW p \in pending' PROVE p.src \in Alive' /\ p.origin \in Origins
  BY <1>1 DEF Staged
<1>5. Alive' \subseteq Node
  BY <1>1 DEF Staged
<1> QED
  BY <1>2, <1>3, <1>4, <1>5 DEF GraphInv

-----------------------------------------------------------------------------
(* What a compile does to the links.                                       *)

\* What a link is resolved to.
LEMMA ResolveIs ==
  ASSUME NEW ns, DOMAIN ns \subseteq Node, NEW ref, Resolves(ns, ref)
  PROVE  /\ Resolve(ns, ref) \in DOMAIN ns
         /\ ref.hint = NoId => /\ ns[Resolve(ns, ref)].label = ref.label
                               /\ ref.source = AnyFile \/ FileOf[Resolve(ns, ref)] = ref.source
<1>1. Candidates(ns, ref) \subseteq DOMAIN ns
  BY DEF Candidates, HeadingsNamed, HeadingsNamedIn
<1>2. PICK C : C = Candidates(ns, ref)
  OBVIOUS
<1>3. C \subseteq Node /\ C # {} /\ \A n \in C : Rank[n] \in Nat
  BY <1>1, <1>2, NodeAssumption DEF Resolves
<1>4. PICK R : R = {Rank[n] : n \in C}
  OBVIOUS
<1>5. R \in SUBSET Nat /\ R # {}
  BY <1>3, <1>4
<1>6. PICK r \in R : \A k \in R : r <= k
  BY <1>5, LeastNat
<1>7. PICK n \in C : \A m \in C : Rank[n] <= Rank[m]
  BY <1>4, <1>6
<1>8. Resolve(ns, ref) \in Candidates(ns, ref)
  BY <1>2, <1>7 DEF Resolve
<1> QED
  BY <1>1, <1>8 DEF Candidates, HeadingsNamed, HeadingsNamedIn

\* What a text is of.
LEMMA TextsAre ==
  ASSUME NEW fs, NEW t \in Texts(fs)
  PROVE  DOMAIN t \subseteq {n \in Node : FileOf[n] \in fs}
<1>1. PICK S \in SUBSET {n \in Node : FileOf[n] \in fs} : t \in TextsOf(S)
  BY DEF Texts, ParsedSets
<1>2. DOMAIN t = S
  BY <1>1 DEF TextsOf
<1> QED
  BY <1>2

\* A link of a text, or a pending row that is tried again, is an edge or waits.
Told(src, ref, origin) ==
  IF Resolves(nodes, ref) THEN EdgeTo(src, Resolve(nodes, ref), origin) \in relations
  ELSE PendingOn(src, ref, origin) \in pending

Live(src, origin) == src \in Alive /\ origin \in Origins

\* What a compile of the text t does to the links, where its upserts and deletes leave db.
CompileLinks(t, db) ==
  /\ Staged(db)
  /\ Linking(t) \subseteq Alive' /\ Alive' = DOMAIN db.nodes
  /\ \A n \in Alive' : nodes'[n].refs = IF n \in DOMAIN t THEN t[n].refs ELSE db.nodes[n].refs
  /\ struck' = db.struck
  /\ db.relations \subseteq relations'
  /\ \A e \in relations' : Live(e.src, e.origin)' /\ e.dst \in Alive'
  /\ \A p \in pending' : Live(p.src, p.origin)'
  /\ \A n \in Linking(t) : \A ref \in t[n].refs : Told(n, ref, "parsed")'
  /\ \A p \in db.pending :
       \/ p.origin = "parsed" /\ p.src \in Linking(t)
       \/ IF Resolves(nodes', p.ref) THEN EdgeTo(p.src, Resolve(nodes', p.ref), p.origin) \in relations'
          ELSE p \in pending'
  /\ Recorded(nodes')

LEMMA CompileDoes ==
  ASSUME GraphInv, NEW fs, NEW t \in Texts(fs), NEW lost, NEW same, Compile(fs, t, lost, same)
  PROVE  \E db : CompileLinks(t, db)
<1> DEFINE left == Deleted(Upserted(Stored, Homes(t, DOMAIN t \ same)), lost)
           placed == [n \in DOMAIN left.nodes |->
             IF n \in DOMAIN t THEN RowOf(PlaceOf(left.nodes[n]), t[n].refs) ELSE left.nodes[n]]
           told == UNION {EdgesFor(placed, n, t[n].refs, "parsed") : n \in Linking(t)}
           open == Cleared(left.pending, Linking(t))
                     \cup UNION {PendingFor(placed, n, t[n].refs, "parsed") : n \in Linking(t)}
           tried == Retried(placed, open)
<1>0. /\ Linking(t) \subseteq DOMAIN placed
      /\ Committed(Tables(placed, left.relations \cup told
                                \cup {EdgeTo(p.src, Resolve(placed, p.ref), p.origin) : p \in tried},
                          open \ tried, left.struck))
  BY Zenon DEF Compile
<1>1. PICK db : db = left
  OBVIOUS
<1>2. Staged(db)
  <2>1. DOMAIN t \subseteq Node
    BY TextsAre
  <2>2. DOMAIN Homes(t, DOMAIN t \ same) \subseteq Node
    BY <2>1 DEF Homes
  <2>3. PICK up : up = Upserted(Stored, Homes(t, DOMAIN t \ same))
    OBVIOUS
  <2>4. Staged(up)
    BY <2>2, <2>3, StoredStaged, UpsertedStaged
  <2> QED
    BY <1>1, <2>3, <2>4, DeletedStaged
<1>3. PICK ns : ns = placed
  OBVIOUS
<1> DEFINE edges   == UNION {EdgesFor(ns, n, t[n].refs, "parsed") : n \in Linking(t)}
           waiting == Cleared(db.pending, Linking(t))
                        \cup UNION {PendingFor(ns, n, t[n].refs, "parsed") : n \in Linking(t)}
           retried == Retried(ns, waiting)
<1>4. /\ Linking(t) \subseteq DOMAIN ns
      /\ Committed(Tables(ns, db.relations \cup edges
                                \cup {EdgeTo(p.src, Resolve(ns, p.ref), p.origin) : p \in retried},
                          waiting \ retried, db.struck))
  <2> HIDE DEF left, placed
  <2> QED
    BY <1>0, <1>1, <1>3
<1>31. ns = [n \in DOMAIN db.nodes |->
         IF n \in DOMAIN t THEN RowOf(PlaceOf(db.nodes[n]), t[n].refs) ELSE db.nodes[n]]
  <2> HIDE DEF left
  <2> QED
    BY <1>1, <1>3
<1> HIDE DEF left, placed, told, open, tried
<1>5. /\ nodes' = ns
      /\ relations' = db.relations \cup edges
                        \cup {EdgeTo(p.src, Resolve(ns, p.ref), p.origin) : p \in retried}
      /\ pending' = waiting \ retried
      /\ struck' = db.struck
      /\ Recorded(ns)
  <2> HIDE DEF edges, waiting, retried
  <2> QED
    BY <1>4 DEF Committed, Tables
<1>6. DOMAIN ns = DOMAIN db.nodes /\ DOMAIN ns \subseteq Node
  BY <1>2, <1>31 DEF Staged
<1>7. \A n \in DOMAIN ns : ns[n].refs = IF n \in DOMAIN t THEN t[n].refs ELSE db.nodes[n].refs
  BY <1>31, <1>6 DEF RowOf
<1>8. \A p \in waiting : p.src \in DOMAIN ns /\ p.origin \in Origins
  <2>1. \A p \in Cleared(db.pending, Linking(t)) : p.src \in DOMAIN ns /\ p.origin \in Origins
    BY <1>2, <1>6 DEF Cleared, Staged
  <2>2. \A p \in UNION {PendingFor(ns, n, t[n].refs, "parsed") : n \in Linking(t)} :
          p.src \in DOMAIN ns /\ p.origin \in Origins
    BY <1>4 DEF PendingFor, PendingOn, Origins
  <2> QED
    BY <2>1, <2>2
<1>9. \A e \in db.relations : e.src \in DOMAIN ns /\ e.dst \in DOMAIN ns /\ e.origin \in Origins
  BY <1>2, <1>6 DEF Staged, GraphInv
<1>10. \A e \in edges : e.src \in DOMAIN ns /\ e.dst \in DOMAIN ns /\ e.origin \in Origins
  BY <1>4, <1>6, ResolveIs DEF EdgesFor, EdgeTo, Origins
<1>11. ASSUME NEW p \in retried, NEW e, e = EdgeTo(p.src, Resolve(ns, p.ref), p.origin)
       PROVE  e.src \in DOMAIN ns /\ e.dst \in DOMAIN ns /\ e.origin \in Origins
  <2>1. p \in waiting /\ Resolves(ns, p.ref)
    BY <1>11 DEF Retried
  <2> HIDE DEF waiting, retried
  <2> QED
    BY <1>6, <1>8, <1>11, <2>1, ResolveIs DEF EdgeTo
<1>12. ASSUME NEW n \in Linking(t), NEW ref \in t[n].refs PROVE Told(n, ref, "parsed")'
  <2>1. CASE Resolves(ns, ref)
    <3>1. EdgeTo(n, Resolve(ns, ref), "parsed") \in edges
      BY <1>12, <2>1 DEF EdgesFor
    <3> HIDE DEF edges
    <3> QED
      BY <1>5, <2>1, <3>1 DEF Told
  <2>2. CASE ~Resolves(ns, ref)
    <3>1. PendingOn(n, ref, "parsed") \in waiting
      BY <1>12, <2>2 DEF PendingFor
    <3>2. PendingOn(n, ref, "parsed") \notin retried
      BY <2>2 DEF Retried, PendingOn
    <3> HIDE DEF waiting, retried
    <3> QED
      BY <1>5, <2>2, <3>1, <3>2 DEF Told
  <2> QED
    BY <2>1, <2>2
<1>13. ASSUME NEW p \in db.pending, ~(p.origin = "parsed" /\ p.src \in Linking(t))
       PROVE  IF Resolves(nodes', p.ref)
              THEN EdgeTo(p.src, Resolve(nodes', p.ref), p.origin) \in relations'
              ELSE p \in pending'
  <2>1. p \in waiting
    BY <1>13 DEF Cleared
  <2>2. p \in retried <=> Resolves(ns, p.ref)
    BY <2>1 DEF Retried
  <2> HIDE DEF waiting, retried, edges
  <2> QED
    BY <1>5, <2>1, <2>2
<1> HIDE DEF waiting, retried, edges
<1>14. \A e \in relations' : Live(e.src, e.origin)' /\ e.dst \in Alive'
  BY <1>5, <1>9, <1>10, <1>11 DEF Live
<1>15. \A p \in pending' : Live(p.src, p.origin)'
  BY <1>5, <1>8 DEF Live
<1>16. CompileLinks(t, db)
  BY <1>2, <1>4, <1>5, <1>6, <1>7, <1>12, <1>13, <1>14, <1>15 DEF CompileLinks
<1> QED
  BY <1>16

LEMMA CompileGraph ==
  ASSUME GraphInv, NEW t, NEW db, CompileLinks(t, db)
  PROVE  GraphInv'
<1>1. \E S : snapshots' \in Seq(S) /\ \A places \in S : DOMAIN places \subseteq Node
  BY RecordedPlaces DEF CompileLinks
<1> QED
  BY <1>1 DEF CompileLinks, Staged, GraphInv, Live

\* The steps: a compile, a manual edge, or statements that resolve no link.
StagedStep == \E db : Staged(db) /\ Committed(db)

RelateStep == \E src \in Node, ref \in ManualRefs : Relate(src, ref)

CompileLinksStep == \E t, db : CompileLinks(t, db)

LEMMA StepsAre ==
  ASSUME GraphInv, Next
  PROVE  CompileLinksStep \/ StagedStep \/ RelateStep
<1>1. ASSUME CompileStep PROVE CompileLinksStep
  BY <1>1, CompileDoes DEF CompileStep, CompileLinksStep
<1>2. \A R : Staged(Deleted(Stored, R))
  BY StoredStaged, DeletedStaged
<1>3. ASSUME NEW n \in Node, ForgetReparent(n) PROVE StagedStep
  <2>1. DOMAIN Promoted(n) \subseteq Node
    BY DEF Promoted, ChildrenOf, GraphInv
  <2>2. PICK up : up = Upserted(Stored, Promoted(n))
    OBVIOUS
  <2>3. Staged(up)
    BY <2>1, <2>2, StoredStaged, UpsertedStaged
  <2>4. Staged(Deleted(up, {n}))
    BY <2>3, DeletedStaged
  <2> QED
    BY <1>3, <2>2, <2>4 DEF ForgetReparent, StagedStep
<1>4. ASSUME NEW i \in DOMAIN snapshots, NEW rewritten, Rollback(snapshots[i], rewritten)
      PROVE  StagedStep
  <2>1. PICK target : target = snapshots[i]
    OBVIOUS
  <2>2. PICK S : snapshots \in Seq(S) /\ \A places \in S : DOMAIN places \subseteq Node
    BY DEF GraphInv
  <2>3. DOMAIN target \subseteq Node
    BY <2>1, <2>2
  <2>4. PICK deltas : deltas = Moved(target) \cup rewritten
    OBVIOUS
  <2>5. Staged(InIdOrder(target, deltas))
    BY <2>3, RolledStaged
  <2> QED
    BY <1>4, <2>1, <2>4, <2>5 DEF Rollback, StagedStep
<1>5. ASSUME NEW n \in Node, ForgetStrict(n) \/ ForgetCascade(n) PROVE StagedStep
  BY <1>2, <1>5 DEF ForgetStrict, ForgetCascade, StagedStep
<1>6. ASSUME NEW fs, Purge(fs) PROVE StagedStep
  BY <1>2, <1>6 DEF Purge, StagedStep
<1> QED
  BY <1>1, <1>3, <1>4, <1>5, <1>6 DEF Next, RelateStep

LEMMA GraphPreserved == GraphInv /\ [Next]_vars => GraphInv'
<1> SUFFICES ASSUME GraphInv, [Next]_vars PROVE GraphInv'
  OBVIOUS
<1>1. CASE UNCHANGED vars
  BY <1>1 DEF vars, GraphInv
<1>2. CASE CompileLinksStep
  BY <1>2, CompileGraph DEF CompileLinksStep
<1>3. CASE StagedStep
  BY <1>3, CommitGraph DEF StagedStep
<1>4. CASE RelateStep
  <2>1. PICK src \in Node, ref \in ManualRefs : Relate(src, ref)
    BY <1>4 DEF RelateStep
  <2>2. \A e \in EdgesFor(nodes, src, {ref}, "manual") :
          e.src = src /\ e.dst \in Alive /\ e.origin \in Origins
    BY ResolveIs DEF EdgesFor, EdgeTo, Origins, GraphInv
  <2>3. \A p \in PendingFor(nodes, src, {ref}, "manual") : p.src = src /\ p.origin \in Origins
    BY DEF PendingFor, PendingOn, Origins
  <2> QED
    BY <2>1, <2>2, <2>3 DEF Relate, GraphInv
<1> QED
  BY <1>1, <1>2, <1>3, <1>4, StepsAre

LEMMA GraphInit == Init => GraphInv
<1>1. <<>> \in Seq({})
  OBVIOUS
<1> QED
  BY <1>1 DEF Init, GraphInv

LEMMA GraphHolds == Spec => []GraphInv
  BY GraphInit, GraphPreserved, PTL DEF Spec

-----------------------------------------------------------------------------
(* Links.                                                                  *)

\* A link by name of the text of n is an edge to a node of that name, or a pending row that can
\* only become one: unlike a row with a hint, or with the file of another link of that name.
IsEdgeOf(e, n, ref) ==
  /\ e.src = n /\ e.origin = "parsed"
  /\ nodes[e.dst].label = ref.label
  /\ ref.source = AnyFile \/ FileOf[e.dst] = ref.source

IsPendingOf(p, n, ref) ==
  /\ p.src = n /\ p.origin = "parsed"
  /\ p.ref.hint = NoId /\ p.ref.label = ref.label
  /\ IF ref.source = AnyFile THEN p.ref.source \in Files \cup {AnyFile}
     ELSE p.ref.source = ref.source

Held(n, ref) ==
  \/ \E e \in relations : IsEdgeOf(e, n, ref)
  \/ \E p \in pending : IsPendingOf(p, n, ref)

\* The inductive strengthening of LinkKept.
LinkInv ==
  /\ GraphInv
  /\ \A n \in Alive : \A ref \in ByName(nodes[n].refs) : Held(n, ref)

\* "While labels stay with their nodes": those that stay, and those that are struck.
SameLabels ==
  /\ \A n \in Alive \cap Alive' : nodes'[n].label = nodes[n].label
  /\ \A n \in Alive \cap DOMAIN struck' : struck'[n] = nodes[n].label

LabelsStay == [][SameLabels]_vars

\* What statements leave of the links of a row that was not struck.
LEMMA StagedHolds ==
  ASSUME LinkInv, NEW db, Staged(db),
         \A m \in Alive \cap DOMAIN db.struck : db.struck[m] = nodes[m].label,
         NEW n \in Alive, n \notin DOMAIN db.struck, NEW ref \in ByName(nodes[n].refs)
  PROVE  \/ \E e \in db.relations : IsEdgeOf(e, n, ref)
         \/ \E p \in db.pending : IsPendingOf(p, n, ref)
<1>1. Held(n, ref)
  BY DEF LinkInv
<1>2. ASSUME NEW p \in pending, IsPendingOf(p, n, ref) PROVE p \in db.pending
  BY <1>2 DEF IsPendingOf, Staged
<1>3. ASSUME NEW e \in relations, IsEdgeOf(e, n, ref)
      PROVE  e \in db.relations \/ \E p \in db.pending : IsPendingOf(p, n, ref)
  <2>1. CASE e.dst \notin DOMAIN db.struck
    BY <1>3, <2>1 DEF Staged, IsEdgeOf
  <2>2. CASE e.dst \in DOMAIN db.struck
    <3>1. LeftBy(e, db.struck) \in db.pending
      BY <1>3, <2>2 DEF Staged, IsEdgeOf
    <3>2. db.struck[e.dst] = nodes[e.dst].label /\ FileOf[e.dst] \in Files
      BY <2>2 DEF LinkInv, GraphInv, Files
    <3>3. IsPendingOf(LeftBy(e, db.struck), n, ref)
      BY <1>3, <3>2 DEF IsPendingOf, IsEdgeOf, LeftBy, PendingOn, Ref
    <3> QED
      BY <3>1, <3>3
  <2> QED
    BY <2>1, <2>2
<1> QED
  BY <1>1, <1>2, <1>3 DEF Held

LEMMA CommitKeeps ==
  ASSUME LinkInv, SameLabels, NEW db, Staged(db), Committed(db)
  PROVE  LinkInv'
<1>1. nodes' = db.nodes /\ relations' = db.relations /\ pending' = db.pending /\ struck' = db.struck
  BY DEF Committed
<1>2. GraphInv /\ GraphInv'
  BY CommitGraph DEF LinkInv
<1>3. ASSUME NEW n \in Alive', NEW ref \in ByName(nodes'[n].refs) PROVE Held(n, ref)'
  <2>1. n \in Alive /\ n \notin DOMAIN db.struck /\ ref \in ByName(nodes[n].refs)
    BY <1>1, <1>3 DEF Staged, ByName
  <2>2. \/ \E e \in db.relations : IsEdgeOf(e, n, ref)
        \/ \E p \in db.pending : IsPendingOf(p, n, ref)
    BY <1>1, <2>1, StagedHolds DEF SameLabels
  <2>3. ASSUME NEW e \in db.relations, IsEdgeOf(e, n, ref) PROVE IsEdgeOf(e, n, ref)'
    <3>1. e \in relations /\ e.dst \in Alive /\ e.dst \in Alive'
      BY <1>1, <1>2 DEF Staged, GraphInv
    <3> QED
      BY <2>3, <3>1 DEF IsEdgeOf, SameLabels
  <2>4. \A p : IsPendingOf(p, n, ref) => IsPendingOf(p, n, ref)'
    BY DEF IsPendingOf, Files
  <2> QED
    BY <1>1, <2>2, <2>3, <2>4 DEF Held
<1> QED
  BY <1>2, <1>3 DEF LinkInv

LEMMA CompileKeeps ==
  ASSUME LinkInv, SameLabels, NEW t, NEW db, CompileLinks(t, db)
  PROVE  LinkInv'
<1>1. GraphInv /\ GraphInv'
  BY CompileGraph DEF LinkInv
<1>2. Alive' \subseteq Node
  BY <1>1 DEF GraphInv
<1>3. ASSUME NEW n \in Alive', NEW d, NEW ref, ref.hint = NoId,
             nodes'[d].label = ref.label, ref.source = AnyFile \/ FileOf[d] = ref.source,
             EdgeTo(n, d, "parsed") \in relations'
      PROVE  Held(n, ref)'
  <2>1. IsEdgeOf(EdgeTo(n, d, "parsed"), n, ref)'
    BY <1>3 DEF IsEdgeOf, EdgeTo
  <2> QED
    BY <1>3, <2>1 DEF Held
<1>4. ASSUME NEW n \in Linking(t), NEW ref \in ByName(nodes'[n].refs) PROVE Held(n, ref)'
  <2>1. n \in Alive' /\ nodes'[n].refs = t[n].refs /\ ref \in t[n].refs /\ ref.hint = NoId
    BY <1>4 DEF Linking, ByName, CompileLinks
  <2>2. Told(n, ref, "parsed")'
    BY <2>1 DEF CompileLinks
  <2>3. CASE Resolves(nodes', ref)
    <3>1. /\ nodes'[Resolve(nodes', ref)].label = ref.label
          /\ ref.source = AnyFile \/ FileOf[Resolve(nodes', ref)] = ref.source
      BY <1>2, <2>1, <2>3, ResolveIs
    <3> QED
      BY <1>3, <2>1, <2>2, <2>3, <3>1 DEF Told
  <2>4. CASE ~Resolves(nodes', ref)
    BY <2>1, <2>2, <2>4 DEF Told, Held, IsPendingOf, PendingOn
  <2> QED
    BY <2>3, <2>4
<1>5. ASSUME NEW n \in Alive', n \notin Linking(t), NEW ref \in ByName(nodes'[n].refs)
      PROVE  Held(n, ref)'
  <2>1. nodes'[n].refs = db.nodes[n].refs /\ n \in DOMAIN db.nodes /\ nodes'[n].refs # {}
    BY <1>5 DEF Linking, ByName, CompileLinks
  <2>2. n \in Alive /\ n \notin DOMAIN db.struck /\ ref \in ByName(nodes[n].refs) /\ ref.hint = NoId
    BY <1>5, <2>1 DEF CompileLinks, Staged, ByName
  <2>3. \/ \E e \in db.relations : IsEdgeOf(e, n, ref)
        \/ \E p \in db.pending : IsPendingOf(p, n, ref)
    BY <2>2, StagedHolds DEF SameLabels, CompileLinks
  <2>4. ASSUME NEW e \in db.relations, IsEdgeOf(e, n, ref)
        PROVE  e \in relations' /\ IsEdgeOf(e, n, ref)'
    <3>1. e \in relations /\ e.dst \in Alive /\ e \in relations' /\ e.dst \in Alive'
      BY <1>1 DEF CompileLinks, Staged, GraphInv
    <3> QED
      BY <2>4, <3>1 DEF IsEdgeOf, SameLabels
  <2>5. ASSUME NEW p \in db.pending, IsPendingOf(p, n, ref)
        PROVE  Held(n, ref)'
    <3>1. IF Resolves(nodes', p.ref)
          THEN EdgeTo(p.src, Resolve(nodes', p.ref), p.origin) \in relations'
          ELSE p \in pending'
      BY <1>5, <2>5 DEF CompileLinks, IsPendingOf
    <3>2. CASE ~Resolves(nodes', p.ref)
      BY <2>5, <3>1, <3>2 DEF Held, IsPendingOf, Files
    <3>3. CASE Resolves(nodes', p.ref)
      <4>1. PICK d : d = Resolve(nodes', p.ref)
        OBVIOUS
      <4>2. EdgeTo(n, d, "parsed") \in relations'
        BY <2>5, <3>1, <3>3, <4>1 DEF IsPendingOf
      <4>3. /\ p.ref.label = ref.label
            /\ ref.source = AnyFile \/ (p.ref.source = ref.source /\ p.ref.source # AnyFile)
        BY <2>5 DEF IsPendingOf
      <4>4. /\ nodes'[d].label = ref.label
            /\ ref.source = AnyFile \/ FileOf[d] = ref.source
        BY <1>2, <2>5, <3>3, <4>1, <4>3, ResolveIs DEF IsPendingOf
      <4> QED
        BY <1>3, <2>2, <4>2, <4>4
    <3> QED
      BY <3>2, <3>3
  <2> QED
    BY <2>3, <2>4, <2>5 DEF Held
<1> QED
  BY <1>1, <1>4, <1>5 DEF LinkInv

\* MemoryRelate only adds.
LEMMA RelateKeeps ==
  ASSUME LinkInv, GraphInv', NEW src, NEW ref, Relate(src, ref)
  PROVE  LinkInv'
<1>1. nodes' = nodes /\ relations \subseteq relations' /\ pending \subseteq pending'
  BY DEF Relate
<1> QED
  BY <1>1 DEF LinkInv, Held, IsEdgeOf, IsPendingOf, ByName, Files

LEMMA LinkPreserved == LinkInv /\ [Next]_vars /\ [SameLabels]_vars => LinkInv'
<1> SUFFICES ASSUME LinkInv, [Next]_vars, [SameLabels]_vars PROVE LinkInv'
  OBVIOUS
<1>1. GraphInv /\ GraphInv'
  BY GraphPreserved DEF LinkInv
<1>2. CASE UNCHANGED vars
  BY <1>1, <1>2 DEF vars, LinkInv, Held, IsEdgeOf, IsPendingOf, Files
<1>3. CASE ~UNCHANGED vars
  <2>1. SameLabels /\ Next
    BY <1>3
  <2>2. ASSUME NEW t, NEW db, CompileLinks(t, db) PROVE LinkInv'
    BY <2>1, <2>2, CompileKeeps
  <2>3. ASSUME NEW db, Staged(db), Committed(db) PROVE LinkInv'
    BY <2>1, <2>3, CommitKeeps
  <2> QED
    BY <1>1, <2>1, <2>2, <2>3, StepsAre, RelateKeeps
       DEF CompileLinksStep, StagedStep, RelateStep
<1> QED
  BY <1>2, <1>3

\* While labels stay with their nodes, every link by name that the resolver was given is an edge
\* to a heading it names, or a pending row that names one, for as long as its source's row stays:
\* a row that a rollback strikes and puts back has none until its file is compiled.
THEOREM LinksKept == Spec /\ LabelsStay => []LinkKept
<1>1. LinkInv => LinkKept
  <2> SUFFICES ASSUME LinkInv, NEW n \in Alive, NEW ref \in nodes[n].refs, ref.hint = NoId
               PROVE  Named(n, "parsed", {ref.label},
                            IF ref.source = AnyFile THEN Files ELSE {ref.source})
    BY DEF LinkKept
  <2>1. Held(n, ref)
    BY DEF LinkInv, ByName
  <2>2. \A e \in relations : FileOf[e.dst] \in Files
    BY DEF LinkInv, GraphInv, Files
  <2> QED
    BY <2>1, <2>2 DEF Held, IsEdgeOf, IsPendingOf, Named
<1>2. Init => LinkInv
  BY GraphInit DEF Init, LinkInv
<1> QED
  BY <1>1, <1>2, LinkPreserved, PTL DEF Spec, LabelsStay

-----------------------------------------------------------------------------
(* What becomes of pending rows, and of edges.                             *)

\* A compile, of whichever files, leaves no pending row that could resolve.
THEOREM CompilesHeal == Spec => Healed
<1> DEFINE Heals == (\E p \in pending' : Resolves(nodes', p.ref)) => ~CompileStep
<1>1. ASSUME NEW fs, NEW t, NEW lost, NEW same, Compile(fs, t, lost, same), NEW p \in pending'
      PROVE  ~Resolves(nodes', p.ref)
  <2>1. PICK ns, es, ps, labels :
          Committed(Tables(ns, es, ps \ Retried(ns, ps), labels))
    BY <1>1, Zenon DEF Compile
  <2>2. nodes' = ns /\ pending' = ps \ Retried(ns, ps)
    BY <2>1 DEF Committed, Tables
  <2> QED
    BY <2>2 DEF Retried
<1>2. [Next]_vars => [Heals]_vars
  BY <1>1 DEF CompileStep
<1> QED
  BY <1>2, PTL DEF Spec, Healed

\* What one step owes an edge that it drops.
EdgeFallsBack(e) ==
  e.src \in Alive' /\ e.src \notin DOMAIN struck' =>
    /\ e.dst \in DOMAIN struck'
    /\ \A label \in {struck'[e.dst]} :
         Named(e.src, e.origin, {label}, FilesOf(e))' \/ Rewritten(e, label)

\* The file an edge ended in is one the link may still name.
LEMMA OwnFile ==
  ASSUME GraphInv, NEW e \in relations
  PROVE  /\ FileOf[e.dst] \in Files /\ FileOf[e.dst] # AnyFile
         /\ FileOf[e.dst] \in FilesOf(e)'
<1>1. e.dst \in Node
  BY DEF GraphInv
<1>2. FileOf[e.dst] \in Files /\ FileOf[e.dst] # AnyFile
  BY <1>1, NodeAssumption DEF Files
<1> QED
  BY <1>2 DEF FilesOf, Files

\* The pending row that an edge leaves, if its source stays.
LEMMA StagedLeaves ==
  ASSUME GraphInv, NEW db, Staged(db), NEW e \in relations, e \notin db.relations,
         e.src \notin DOMAIN db.struck
  PROVE  /\ e.dst \in DOMAIN db.struck
         /\ \E p \in db.pending :
              /\ p.src = e.src /\ p.origin = e.origin
              /\ p.ref.hint = NoId /\ p.ref.label = db.struck[e.dst]
              /\ p.ref.source = FileOf[e.dst]
<1>1. e.dst \in DOMAIN db.struck /\ LeftBy(e, db.struck) \in db.pending
  BY DEF Staged
<1> QED
  BY <1>1 DEF LeftBy, PendingOn, Ref

LEMMA CommitFallsBack ==
  ASSUME GraphInv, NEW db, Staged(db), Committed(db), NEW e \in relations \ relations'
  PROVE  EdgeFallsBack(e)
<1> SUFFICES ASSUME e.src \notin DOMAIN struck', NEW label, label = struck'[e.dst]
             PROVE  /\ e.dst \in DOMAIN struck'
                    /\ Named(e.src, e.origin, {label}, FilesOf(e))'
  BY DEF EdgeFallsBack
<1>1. relations' = db.relations /\ pending' = db.pending /\ struck' = db.struck
  BY DEF Committed
<1>2. PICK p \in pending' :
        /\ p.src = e.src /\ p.origin = e.origin
        /\ p.ref.label = label /\ p.ref.source = FileOf[e.dst]
  BY <1>1, StagedLeaves
<1>3. e.dst \in DOMAIN struck'
  BY <1>1, StagedLeaves
<1> QED
  BY <1>2, <1>3, OwnFile DEF Named

LEMMA CompileFallsBack ==
  ASSUME GraphInv, GraphInv', NEW t, NEW db, CompileLinks(t, db), NEW e \in relations \ relations'
  PROVE  EdgeFallsBack(e)
<1> SUFFICES ASSUME e.src \notin DOMAIN struck'
             PROVE  /\ e.dst \in DOMAIN struck'
                    /\ \A label \in {struck'[e.dst]} :
                         Named(e.src, e.origin, {label}, FilesOf(e))' \/ Rewritten(e, label)
  BY DEF EdgeFallsBack
<1>1. struck' = db.struck /\ e \notin db.relations
  BY DEF CompileLinks
<1>2. PICK p \in db.pending :
        /\ p.src = e.src /\ p.origin = e.origin
        /\ p.ref.hint = NoId /\ p.ref.label = struck'[e.dst] /\ p.ref.source = FileOf[e.dst]
  BY <1>1, StagedLeaves DEF CompileLinks
<1>3. e.dst \in DOMAIN struck'
  BY <1>1, StagedLeaves DEF CompileLinks
<1> SUFFICES ASSUME NEW label, label = struck'[e.dst]
             PROVE  Named(e.src, e.origin, {label}, FilesOf(e))' \/ Rewritten(e, label)
  BY <1>3
<1>4. DOMAIN nodes' \subseteq Node
  BY DEF GraphInv
<1>5. CASE ~(e.origin = "parsed" /\ e.src \in Linking(t))
  <2>1. IF Resolves(nodes', p.ref)
        THEN EdgeTo(p.src, Resolve(nodes', p.ref), p.origin) \in relations'
        ELSE p \in pending'
    BY <1>2, <1>5 DEF CompileLinks
  <2>2. CASE Resolves(nodes', p.ref)
    <3>1. PICK d : d = Resolve(nodes', p.ref)
      OBVIOUS
    <3>2. nodes'[d].label = label /\ FileOf[d] = FileOf[e.dst]
      BY <1>2, <1>4, <2>2, <3>1, OwnFile, ResolveIs
    <3>3. PICK f \in relations' : f.src = e.src /\ f.origin = e.origin /\ f.dst = d
      BY <1>2, <2>1, <2>2, <3>1 DEF EdgeTo
    <3> QED
      BY <3>2, <3>3, OwnFile DEF Named
  <2>3. CASE ~Resolves(nodes', p.ref)
    BY <1>2, <2>1, <2>3, OwnFile DEF Named
  <2> QED
    BY <2>2, <2>3
<1>6. CASE e.origin = "parsed" /\ e.src \in Linking(t)
  <2>1. nodes'[e.src].refs = t[e.src].refs /\ t[e.src].refs # {}
    BY <1>6 DEF CompileLinks, Linking
  <2>2. CASE label \notin {ref.label : ref \in ByName(nodes'[e.src].refs)}
    BY <1>6, <2>1, <2>2 DEF Rewritten
  <2>3. ASSUME NEW ref \in ByName(nodes'[e.src].refs), ref.label = label
        PROVE  Named(e.src, e.origin, {label}, FilesOf(e))'
    <3>1. ref \in nodes'[e.src].refs /\ ref.hint = NoId
      BY <2>3 DEF ByName
    <3>2. Told(e.src, ref, "parsed")'
      BY <1>6, <2>1, <3>1 DEF CompileLinks
    <3>3. CASE Resolves(nodes', ref)
      <4>1. PICK d : d = Resolve(nodes', ref)
        OBVIOUS
      <4>2. d \in Node /\ nodes'[d].label = label
        BY <1>4, <2>3, <3>1, <3>3, <4>1, ResolveIs
      <4>3. PICK f \in relations' : f.src = e.src /\ f.origin = "parsed" /\ f.dst = d
        BY <3>2, <3>3, <4>1 DEF Told, EdgeTo
      <4>4. FileOf[d] \in FilesOf(e)'
        BY <1>6, <4>2 DEF FilesOf, Files
      <4> QED
        BY <1>6, <4>2, <4>3, <4>4 DEF Named
    <3>4. CASE ~Resolves(nodes', ref)
      <4>1. PICK q \in pending' : q.src = e.src /\ q.origin = "parsed" /\ q.ref = ref
        BY <3>2, <3>4 DEF Told, PendingOn
      <4>2. ref.source \in FilesOf(e)'
        BY <1>6, <3>1 DEF FilesOf
      <4> QED
        BY <1>6, <2>3, <4>1, <4>2 DEF Named
    <3> QED
      BY <3>3, <3>4
  <2> QED
    BY <2>2, <2>3
<1> QED
  BY <1>5, <1>6

\* An edge goes only when a deletion strikes the row of its source or of its target.  If that of
\* its target alone is struck, the link falls back to a pending row, or to another heading of the
\* label the target had, in the same step, unless a compile of the source took a text that does
\* not name it.
THEOREM EdgesFallBack == Spec => FallsBack
<1> DEFINE Falls == \A e \in relations \ relations' :
                      e.src \in Alive' /\ e.src \notin DOMAIN struck' =>
                        /\ e.dst \in DOMAIN struck'
                        /\ \A label \in {struck'[e.dst]} : StillNamed(e, label)
<1>1. GraphInv /\ [Next]_vars => [Falls]_vars
  <2> SUFFICES ASSUME GraphInv, Next, NEW e \in relations \ relations' PROVE EdgeFallsBack(e)
    BY DEF EdgeFallsBack, StillNamed
  <2>1. GraphInv'
    BY GraphPreserved
  <2>2. ~RelateStep
    BY DEF RelateStep, Relate
  <2> QED
    BY <2>1, <2>2, StepsAre, CommitFallsBack, CompileFallsBack DEF CompileLinksStep, StagedStep
<1> QED
  BY <1>1, GraphHolds, PTL DEF Spec, FallsBack

-----------------------------------------------------------------------------
(* Walks.                                                                  *)

\* A function may be defined from one number to the next.
IsSteps(f, V, v0, n, G) == f \in [0..n -> V] /\ f[0] = v0 /\ \A k \in 1..n : f[k] = G[k][f[k - 1]]

LEMMA StepByStep ==
  ASSUME NEW V, NEW v0 \in V, NEW n \in Nat, NEW G \in [1..n -> [V -> V]]
  PROVE  \E f : IsSteps(f, V, v0, n, G)
<1> DEFINE IsPart(f, m) == f[0] = v0 /\ \A k \in 1..m : f[k] = G[k][f[k - 1]]
           S == {m \in 0..n : \E f \in [0..m -> V] : IsPart(f, m)}
<1>1. 0 \in S
  <2> DEFINE f == [k \in 0..0 |-> v0]
  <2>1. f \in [0..0 -> V] /\ f[0] = v0 /\ 1..0 = {}
    OBVIOUS
  <2> HIDE DEF f
  <2>2. IsPart(f, 0)
    BY <2>1
  <2>3. 0 \in 0..n
    OBVIOUS
  <2> QED
    BY <2>1, <2>2, <2>3
<1>2. ASSUME NEW m \in 1..n, m - 1 \in S PROVE m \in S
  <2>1. PICK f \in [0..(m - 1) -> V] : IsPart(f, m - 1)
    BY <1>2
  <2>2. m - 1 \in 0..(m - 1) /\ f[m - 1] \in V
    OBVIOUS
  <2> DEFINE last == G[m][f[m - 1]]
             g == [k \in 0..m |-> IF k = m THEN last ELSE f[k]]
  <2>3. last \in V
    BY <2>2
  <2>4. \A k \in 0..m : k # m => k \in 0..(m - 1) /\ g[k] = f[k]
    OBVIOUS
  <2>5. g[m] = last /\ m \in 0..m
    OBVIOUS
  <2>6. g \in [0..m -> V]
    BY <2>3
  <2> HIDE DEF g
  <2>7. g[0] = v0
    BY <2>1, <2>4
  <2>8. \A k \in 1..m : g[k] = G[k][g[k - 1]]
    <3> SUFFICES ASSUME NEW k \in 1..m PROVE g[k] = G[k][g[k - 1]]
      OBVIOUS
    <3>1. k - 1 \in 0..m /\ k - 1 # m /\ g[k - 1] = f[k - 1] /\ k \in 0..m
      BY <2>4
    <3>2. CASE k = m
      BY <2>5, <3>1, <3>2
    <3>3. CASE k # m
      <4>1. k \in 1..(m - 1) /\ k # m
        BY <3>3
      <4>2. g[k] = f[k]
        BY <2>4, <3>1, <4>1
      <4> QED
        BY <2>1, <3>1, <4>1, <4>2
    <3> QED
      BY <3>2, <3>3
  <2>9. IsPart(g, m) /\ m \in 0..n
    BY <2>7, <2>8
  <2> HIDE DEF IsPart
  <2> QED
    BY <2>6, <2>9
<1> HIDE DEF S
<1>3. n \in S
  <2>1. \A m \in 1..n : m - 1 \in S => m \in S
    BY <1>2
  <2>2. n \in 0..n
    OBVIOUS
  <2> QED
    BY <1>1, <2>1, <2>2, UpTo
<1>4. PICK f \in [0..n -> V] : IsPart(f, n)
  BY <1>3 DEF S
<1> QED
  BY <1>4 DEF IsSteps

\* Steps between nodes, of weights up to W.
AreSteps(steps, W) ==
  \A s \in steps : s.from \in Node /\ s.to \in Node /\ s.weight \in Int /\ s.weight <= W

RowType == [node : Node, hop : Nat, weight : Int]

FirstRows(steps, a) == {Row(s.to, 1, s.weight) : s \in {s \in steps : s.from = a}}

NextRows(steps, rs, h) ==
  UNION {{Row(s.to, h, r.weight + s.weight) : s \in {s \in steps : s.from = r.node}} : r \in rs}

\* The rows of the walks of each length, up to d.
IsRows(f, steps, a, d) ==
  /\ f \in [1..d -> SUBSET RowType]
  /\ f[1] = FirstRows(steps, a)
  /\ \A k \in 2..d : f[k] = NextRows(steps, f[k - 1], k)

LEMMA RowsTyped ==
  ASSUME NEW steps, NEW W, AreSteps(steps, W)
  PROVE  /\ \A a : FirstRows(steps, a) \in SUBSET RowType
         /\ \A rs \in SUBSET RowType, k \in Nat : NextRows(steps, rs, k) \in SUBSET RowType
<1>1. \A a : FirstRows(steps, a) \in SUBSET RowType
  BY DEF AreSteps, FirstRows, Row, RowType
<1>2. \A rs \in SUBSET RowType, k \in Nat : NextRows(steps, rs, k) \in SUBSET RowType
  <2> SUFFICES ASSUME NEW rs \in SUBSET RowType, NEW k \in Nat, NEW r \in rs,
                      NEW s \in {s \in steps : s.from = r.node}
               PROVE  Row(s.to, k, r.weight + s.weight) \in RowType
    BY DEF NextRows
  <2>1. s.to \in Node /\ s.weight \in Int /\ r.weight \in Int
    BY DEF AreSteps, RowType
  <2> QED
    BY <2>1 DEF Row, RowType
<1> QED
  BY <1>1, <1>2

LEMMA WalkUnroll ==
  ASSUME NEW steps, NEW W, AreSteps(steps, W), NEW a, NEW d \in Nat \ {0}
  PROVE  \E f : IsRows(f, steps, a, d) /\ Walk(steps, a, d) = UNION {f[h] : h \in 1..d}
<1> DEFINE V == SUBSET RowType
           G == [k \in 1..d |-> [x \in V |-> IF k = 1 THEN FirstRows(steps, a) ELSE NextRows(steps, x, k)]]
           Eq(rows) == rows = [h \in 1..d |->
             IF h = 1 THEN {Row(s.to, 1, s.weight) : s \in {s \in steps : s.from = a}}
             ELSE UNION {{Row(s.to, h, r.weight + s.weight) : s \in {s \in steps : s.from = r.node}}
                           : r \in rows[h - 1]}]
<1>1. G \in [1..d -> [V -> V]] /\ {} \in V
  <2>1. \A k \in 1..d, x \in V :
          (IF k = 1 THEN FirstRows(steps, a) ELSE NextRows(steps, x, k)) \in V
    BY RowsTyped
  <2> HIDE DEF V
  <2>2. G \in [1..d -> [V -> V]]
    BY <2>1
  <2> QED
    BY <2>2 DEF V
<1> HIDE DEF V, G
<1>2. PICK f : IsSteps(f, V, {}, d, G)
  BY <1>1, StepByStep
<1>3. \A k \in 1..d : f[k] \in V /\ f[k - 1] \in V
  BY <1>2 DEF IsSteps
<1>4. \A k \in 1..d : f[k] = IF k = 1 THEN FirstRows(steps, a) ELSE NextRows(steps, f[k - 1], k)
  BY <1>2, <1>3 DEF IsSteps, G
<1>5. PICK e : e = [k \in 1..d |-> f[k]]
  OBVIOUS
<1>6. \A k \in 1..d : k # 1 => k - 1 \in 1..d /\ e[k - 1] = f[k - 1]
  BY <1>5
<1>7. e = [k \in 1..d |-> IF k = 1 THEN FirstRows(steps, a) ELSE NextRows(steps, e[k - 1], k)]
  BY <1>4, <1>5, <1>6
<1>8. Eq(e)
  BY <1>7 DEF FirstRows, NextRows
<1> DEFINE u == CHOOSE rows : Eq(rows)
<1> HIDE DEF Eq
<1>9. Eq(u)
  BY <1>8, Zenon
<1>10. Walk(steps, a, d) = UNION {u[h] : h \in 1..d}
  BY DEF Walk, Eq
<1> HIDE DEF u
<1>11. u = [k \in 1..d |-> IF k = 1 THEN FirstRows(steps, a) ELSE NextRows(steps, u[k - 1], k)]
  BY <1>9 DEF Eq, FirstRows, NextRows
<1>12. 1 \in 1..d /\ u[1] = FirstRows(steps, a)
  BY <1>11
<1>13. \A k \in 2..d : k \in 1..d /\ k # 1 /\ u[k] = NextRows(steps, u[k - 1], k)
  BY <1>11
<1>14. \A k \in 1..d : u[k] \in SUBSET RowType
  <2> DEFINE S == {k \in 0..d : k = 0 \/ u[k] \in SUBSET RowType}
  <2>1. 0 \in S
    OBVIOUS
  <2>2. ASSUME NEW k \in 1..d, k - 1 \in S PROVE k \in S
    <3>1. CASE k = 1
      BY <1>12, <3>1, RowsTyped
    <3>2. CASE k # 1
      <4>1. k \in 2..d /\ u[k - 1] \in SUBSET RowType /\ k \in Nat
        BY <2>2, <3>2
      <4> QED
        BY <1>13, <4>1, RowsTyped
    <3> QED
      BY <3>1, <3>2
  <2> HIDE DEF S
  <2>3. \A k \in 0..d : k \in S
    BY <2>1, <2>2, UpTo
  <2> QED
    BY <2>3 DEF S
<1>15. u \in [1..d -> SUBSET RowType]
  BY <1>11, <1>14
<1>16. IsRows(u, steps, a, d)
  BY <1>12, <1>13, <1>15 DEF IsRows
<1> QED
  BY <1>10, <1>16

\* The hops of a row are the length of its walk, and weights are bounded.
LEMMA RowsAre ==
  ASSUME NEW steps, NEW W \in Nat, AreSteps(steps, W), NEW a, NEW d \in Nat \ {0},
         NEW f, IsRows(f, steps, a, d)
  PROVE  /\ \A k \in 1..d : \A r \in f[k] : r.hop = k
         /\ \E B \in Nat : \A k \in 1..d : \A r \in f[k] : r.weight <= B
<1>1. /\ \A k \in 1..d : f[k] \in SUBSET RowType
      /\ f[1] = FirstRows(steps, a)
      /\ \A k \in 2..d : f[k] = NextRows(steps, f[k - 1], k)
  BY DEF IsRows
<1>2. ASSUME NEW k \in 1..d, NEW r \in f[k] PROVE r.hop = k
  <2>1. CASE k = 1
    BY <1>1, <2>1 DEF FirstRows, Row
  <2>2. CASE k # 1
    <3>1. r \in NextRows(steps, f[k - 1], k)
      BY <1>1, <2>2
    <3> QED
      BY <3>1 DEF NextRows, Row
  <2> QED
    BY <2>1, <2>2
<1> DEFINE S == {k \in 0..d : \E B \in Nat : \A j \in 1..k : \A r \in f[j] : r.weight <= B}
<1>3. 0 \in S
  OBVIOUS
<1>4. ASSUME NEW k \in 1..d, k - 1 \in S PROVE k \in S
  <2>1. PICK B \in Nat : \A j \in 1..(k - 1) : \A r \in f[j] : r.weight <= B
    BY <1>4
  <2>2. PICK C \in Nat : C = B + W
    OBVIOUS
  <2>3. ASSUME NEW r \in f[k] PROVE r.weight <= C
    <3>1. CASE k = 1
      <4>1. PICK s \in steps : r = Row(s.to, 1, s.weight)
        BY <1>1, <2>3, <3>1 DEF FirstRows
      <4>2. r.weight = s.weight /\ s.weight \in Int /\ s.weight <= W
        BY <4>1 DEF Row, AreSteps
      <4> QED
        BY <2>2, <4>2
    <3>2. CASE k # 1
      <4>1. r \in NextRows(steps, f[k - 1], k) /\ k - 1 \in 1..(k - 1) /\ k - 1 \in 1..d
        BY <1>1, <2>3, <3>2
      <4>2. PICK q \in f[k - 1], s \in steps : r = Row(s.to, k, q.weight + s.weight)
        BY <4>1 DEF NextRows
      <4>3. r.weight = q.weight + s.weight /\ s.weight \in Int /\ s.weight <= W
        BY <4>2 DEF Row, AreSteps
      <4>4. q \in RowType /\ q.weight <= B
        BY <1>1, <2>1, <4>1
      <4>5. q.weight \in Int
        BY <4>4 DEF RowType
      <4> QED
        BY <2>2, <4>3, <4>4, <4>5
    <3> QED
      BY <3>1, <3>2
  <2>4. ASSUME NEW j \in 1..k, NEW r \in f[j] PROVE r.weight <= C
    <3>1. CASE j = k
      BY <2>3, <2>4, <3>1
    <3>2. CASE j # k
      <4>1. j \in 1..(k - 1) /\ j \in 1..d
        BY <3>2
      <4>2. r.weight <= B /\ r \in RowType
        BY <1>1, <2>1, <2>4, <4>1
      <4>3. r.weight \in Int
        BY <4>2 DEF RowType
      <4> QED
        BY <2>2, <4>2, <4>3
    <3> QED
      BY <3>1, <3>2
  <2> QED
    BY <2>4
<1> HIDE DEF S
<1>5. d \in S
  <2>1. d \in 0..d
    OBVIOUS
  <2> QED
    BY <1>3, <1>4, <2>1, UpTo
<1> QED
  BY <1>2, <1>5 DEF S

\* The nodes a step leads to from those of S.
Reach(steps, S) == {s.to : s \in {s \in steps : s.from \in S}}

IsBalls(g, steps, a, k) ==
  /\ g \in [0..k -> SUBSET Node]
  /\ g[0] = {a}
  /\ \A i \in 1..k : g[i] = g[i - 1] \cup Reach(steps, g[i - 1])

LEMMA BallUnroll ==
  ASSUME NEW steps, NEW W, AreSteps(steps, W), NEW a \in Node, NEW k \in Nat
  PROVE  \E g : IsBalls(g, steps, a, k) /\ Ball(steps, a, k) = g[k]
<1> DEFINE V == SUBSET Node
           G == [i \in 1..k |-> [S \in V |-> S \cup Reach(steps, S)]]
           Eq(near) == near = [i \in 0..k |->
             IF i = 0 THEN {a}
             ELSE near[i - 1] \cup {s.to : s \in {s \in steps : s.from \in near[i - 1]}}]
<1>1. \A S \in V : S \cup Reach(steps, S) \in V
  BY DEF AreSteps, Reach
<1>2. G \in [1..k -> [V -> V]] /\ {a} \in V
  BY <1>1
<1> HIDE DEF V, G
<1>3. PICK e : IsSteps(e, V, {a}, k, G)
  BY <1>2, StepByStep
<1>4. \A i \in 1..k : e[i] \in V /\ e[i - 1] \in V
  BY <1>3 DEF IsSteps
<1>5. \A i \in 1..k : e[i] = e[i - 1] \cup Reach(steps, e[i - 1])
  BY <1>3, <1>4 DEF IsSteps, G
<1>6. e = [i \in 0..k |-> IF i = 0 THEN {a} ELSE e[i - 1] \cup Reach(steps, e[i - 1])]
  <2>1. e = [i \in 0..k |-> e[i]] /\ e[0] = {a}
    BY <1>3 DEF IsSteps
  <2>2. \A i \in 0..k : e[i] = IF i = 0 THEN {a} ELSE e[i - 1] \cup Reach(steps, e[i - 1])
    BY <1>5, <2>1
  <2> QED
    BY <2>1, <2>2
<1>7. Eq(e)
  BY <1>6 DEF Reach
<1> DEFINE u == CHOOSE near : Eq(near)
<1> HIDE DEF Eq
<1>8. Eq(u)
  BY <1>7, Zenon
<1>9. Ball(steps, a, k) = u[k]
  BY DEF Ball, Eq
<1> HIDE DEF u
<1>10. u = [i \in 0..k |-> IF i = 0 THEN {a} ELSE u[i - 1] \cup Reach(steps, u[i - 1])]
  BY <1>8 DEF Eq, Reach
<1>11. u[0] = {a}
  BY <1>10
<1>12. \A i \in 1..k : u[i] = u[i - 1] \cup Reach(steps, u[i - 1])
  <2>1. \A i \in 1..k : i \in 0..k /\ i # 0
    OBVIOUS
  <2> QED
    BY <1>10, <2>1
<1>13. \A i \in 0..k : u[i] \in V
  <2> DEFINE S == {i \in 0..k : u[i] \in V}
  <2>1. 0 \in S
    <3>1. 0 \in 0..k /\ u[0] \in V
      BY <1>2, <1>11
    <3> QED
      BY <3>1
  <2>2. ASSUME NEW i \in 1..k, i - 1 \in S PROVE i \in S
    BY <1>1, <1>12, <2>2
  <2> HIDE DEF S
  <2>3. \A i \in 0..k : i \in S
    BY <2>1, <2>2, UpTo
  <2> QED
    BY <2>3 DEF S
<1>14. IsBalls(u, steps, a, k)
  BY <1>10, <1>11, <1>12, <1>13 DEF IsBalls, V
<1> QED
  BY <1>9, <1>14

\* The nodes within k steps are those of the rows of at most k hops, and the anchor.
LEMMA BallIs ==
  ASSUME NEW steps, NEW W \in Nat, AreSteps(steps, W), NEW a \in Node, NEW d \in Nat \ {0}, NEW k \in 0..d
  PROVE  Ball(steps, a, k) = {a} \cup {r.node : r \in {r \in Walk(steps, a, d) : r.hop <= k}}
<1>1. PICK f : IsRows(f, steps, a, d) /\ Walk(steps, a, d) = UNION {f[h] : h \in 1..d}
  BY WalkUnroll
<1>2. PICK g : IsBalls(g, steps, a, k) /\ Ball(steps, a, k) = g[k]
  BY BallUnroll
<1>3. /\ \A h \in 1..d : f[h] \in SUBSET RowType
      /\ f[1] = FirstRows(steps, a)
      /\ \A h \in 2..d : f[h] = NextRows(steps, f[h - 1], h)
      /\ \A h \in 1..d : \A r \in f[h] : r.hop = h
  BY <1>1, RowsAre DEF IsRows
<1> DEFINE N(i) == {a} \cup {n \in Node : \E h \in 1..i : \E r \in f[h] : r.node = n}
           S == {i \in 0..k : g[i] = N(i)}
<1>4. 0 \in S
  BY <1>2 DEF IsBalls
<1>5. ASSUME NEW i \in 1..k PROVE N(i) = N(i - 1) \cup Reach(steps, N(i - 1))
  <2>0. i \in 1..d /\ i - 1 \in Nat
    OBVIOUS
  <2>1. ASSUME NEW h \in 1..i, NEW r \in f[h]
        PROVE  r.node \in N(i - 1) \cup Reach(steps, N(i - 1))
    <3>0. h \in 1..d /\ r.node \in Node
      BY <1>3, <2>1 DEF RowType
    <3>1. CASE h # i
      BY <2>1, <3>0, <3>1
    <3>2. CASE h = 1
      <4>1. PICK s \in steps : s.from = a /\ r.node = s.to
        BY <1>3, <2>1, <3>2 DEF FirstRows, Row
      <4> QED
        BY <4>1 DEF Reach
    <3>3. CASE h = i /\ h # 1
      <4>1. r \in NextRows(steps, f[h - 1], h) /\ h - 1 \in 1..(i - 1)
        BY <1>3, <2>1, <3>0, <3>3
      <4>2. PICK q \in f[h - 1], s \in steps : s.from = q.node /\ r.node = s.to
        BY <4>1 DEF NextRows, Row
      <4>3. q.node \in N(i - 1)
        <5>1. s.from \in Node
          BY DEF AreSteps
        <5> QED
          BY <4>1, <4>2, <5>1
      <4> QED
        BY <4>2, <4>3 DEF Reach
    <3> QED
      BY <3>1, <3>2, <3>3
  <2>2. ASSUME NEW s \in steps, s.from \in N(i - 1) PROVE s.to \in N(i)
    <3>0. s.to \in Node
      BY DEF AreSteps
    <3>1. CASE s.from = a
      <4>1. Row(s.to, 1, s.weight) \in f[1] /\ Row(s.to, 1, s.weight).node = s.to /\ 1 \in 1..i
        BY <1>3, <3>1 DEF FirstRows, Row
      <4> QED
        BY <3>0, <4>1
    <3>2. CASE s.from # a
      <4>1. PICK h \in 1..(i - 1) : \E r \in f[h] : r.node = s.from
        BY <2>2, <3>2
      <4>2. PICK r \in f[h] : r.node = s.from
        BY <4>1
      <4>3. PICK j : j = h + 1
        OBVIOUS
      <4>4. j \in 2..d /\ j \in 1..i /\ j - 1 = h
        BY <4>3
      <4>5. Row(s.to, j, r.weight + s.weight) \in NextRows(steps, f[h], j)
        BY <4>2 DEF NextRows
      <4>6. Row(s.to, j, r.weight + s.weight) \in f[j]
        BY <1>3, <4>4, <4>5
      <4>7. Row(s.to, j, r.weight + s.weight).node = s.to
        BY DEF Row
      <4> QED
        BY <3>0, <4>4, <4>6, <4>7
    <3> QED
      BY <3>1, <3>2
  <2>3. N(i - 1) \subseteq N(i)
    OBVIOUS
  <2>4. \A n \in N(i) : n \in N(i - 1) \cup Reach(steps, N(i - 1))
    BY <2>1
  <2>5. \A n \in Reach(steps, N(i - 1)) : n \in N(i)
    BY <2>2 DEF Reach
  <2> HIDE DEF N
  <2> QED
    BY <2>3, <2>4, <2>5
<1>6. ASSUME NEW i \in 1..k, i - 1 \in S PROVE i \in S
  <2>1. g[i - 1] = N(i - 1) /\ g[i] = g[i - 1] \cup Reach(steps, g[i - 1])
    BY <1>2, <1>6 DEF IsBalls
  <2> HIDE DEF N
  <2> QED
    BY <1>5, <2>1
<1> HIDE DEF S
<1>7. k \in S
  <2>1. k \in Nat /\ k \in 0..k
    OBVIOUS
  <2> QED
    BY <1>4, <1>6, <2>1, UpTo
<1>8. Ball(steps, a, k) = N(k)
  BY <1>2, <1>7 DEF S
<1>9. \A n : n \in N(k) <=> n \in {a} \cup {r.node : r \in {r \in Walk(steps, a, d) : r.hop <= k}}
  <2>1. ASSUME NEW h \in 1..k, NEW r \in f[h] PROVE r \in Walk(steps, a, d) /\ r.hop <= k
    <3>1. h \in 1..d
      OBVIOUS
    <3> QED
      BY <1>1, <1>3, <2>1, <3>1
  <2>2. ASSUME NEW r \in Walk(steps, a, d), r.hop <= k
        PROVE  r.node \in Node /\ \E h \in 1..k : r \in f[h]
    <3>1. PICK h \in 1..d : r \in f[h]
      BY <1>1, <2>2
    <3>2. r.hop = h /\ r.node \in Node
      BY <1>3, <3>1 DEF RowType
    <3> QED
      BY <2>2, <3>1, <3>2
  <2> QED
    BY <2>1, <2>2
<1> QED
  BY <1>8, <1>9

-----------------------------------------------------------------------------
(* Sums.                                                                   *)

\* A set of natural numbers with 0, and with n + 1 when it has n, is all of Nat.
LEMMA SetInduction ==
  ASSUME NEW S \in SUBSET Nat, 0 \in S, \A n \in S : n + 1 \in S
  PROVE  S = Nat
<1> SUFFICES ASSUME Nat \ S # {} PROVE FALSE
  OBVIOUS
<1>1. PICK m \in Nat \ S : \A k \in Nat \ S : m <= k
  BY LeastNat
<1>2. m # 0 /\ m - 1 \in Nat /\ m - 1 \in S
  BY <1>1
<1> QED
  BY <1>1, <1>2

Some(s) == CHOOSE x \in s : TRUE

\* The partial sums of SumFunction: t[s] is the sum of w over s, for each part s of S.
SumStep(t, s, w) == IF s = {} THEN 0 ELSE w[Some(s)] + t[s \ {Some(s)}]

IsSum(t, S, w) == t = [s \in SUBSET S |-> SumStep(t, s, w)]

PartSums(S, w) == CHOOSE t : IsSum(t, S, w)

AddsUp(t, P, w) == \A s \in P : t[s] = SumStep(t, s, w)

\* t are the partial sums of w over S.
Sums(t, S, w) ==
  IsFiniteSet(S) /\ w \in [S -> Int] /\ t \in [SUBSET S -> Int] /\ AddsUp(t, SUBSET S, w)

LEMMA SomeIs == \A s : s # {} => Some(s) \in s
  BY DEF Some

\* The parts of S with at most n elements.
Parts(S, n) == {s \in SUBSET S : Cardinality(s) <= n}

LEMMA PartSmaller ==
  ASSUME NEW S, IsFiniteSet(S), NEW n \in Nat, NEW s \in Parts(S, n + 1), NEW x \in s
  PROVE  s \ {x} \in Parts(S, n)
<1>1. IsFiniteSet(s) /\ s \in SUBSET S /\ Cardinality(s) <= n + 1
  BY FS_Subset DEF Parts
<1>2. Cardinality(s \ {x}) = Cardinality(s) - 1 /\ Cardinality(s) \in Nat
  BY <1>1, FS_RemoveElement, FS_CardinalityType
<1> QED
  BY <1>1, <1>2 DEF Parts

LEMMA PartsOfAll ==
  ASSUME NEW S, IsFiniteSet(S)
  PROVE  Cardinality(S) \in Nat /\ Parts(S, Cardinality(S)) = SUBSET S
<1>1. Cardinality(S) \in Nat /\ \A s \in SUBSET S : Cardinality(s) <= Cardinality(S)
  BY FS_Subset, FS_CardinalityType
<1> QED
  BY <1>1 DEF Parts

LEMMA SumExists ==
  ASSUME NEW S, IsFiniteSet(S), NEW w \in [S -> Int]
  PROVE  \E t \in [SUBSET S -> Int] : AddsUp(t, SUBSET S, w)
<1> DEFINE A == {n \in Nat : \E t \in [Parts(S, n) -> Int] : AddsUp(t, Parts(S, n), w)}
<1>1. 0 \in A
  <2>1. PICK t : t = [s \in Parts(S, 0) |-> 0]
    OBVIOUS
  <2>2. \A s \in Parts(S, 0) : s = {}
    <3> SUFFICES ASSUME NEW s \in Parts(S, 0) PROVE s = {}
      OBVIOUS
    <3>1. IsFiniteSet(s) /\ Cardinality(s) <= 0
      BY FS_Subset DEF Parts
    <3>2. Cardinality(s) = 0
      BY <3>1, FS_CardinalityType
    <3> QED
      BY <3>1, <3>2, FS_EmptySet
  <2>3. t \in [Parts(S, 0) -> Int] /\ AddsUp(t, Parts(S, 0), w)
    BY <2>1, <2>2 DEF AddsUp, SumStep
  <2> QED
    BY <2>3
<1>2. ASSUME NEW n \in A PROVE n + 1 \in A
  <2>1. PICK t \in [Parts(S, n) -> Int] : AddsUp(t, Parts(S, n), w)
    OBVIOUS
  <2>2. n \in Nat /\ n + 1 \in Nat
    OBVIOUS
  <2>3. PICK u : u = [s \in Parts(S, n + 1) |-> SumStep(t, s, w)]
    OBVIOUS
  <2>4. ASSUME NEW s \in Parts(S, n + 1), s # {}
        PROVE  w[Some(s)] \in Int /\ s \ {Some(s)} \in Parts(S, n) /\ t[s \ {Some(s)}] \in Int
    <3>1. PICK x : x = Some(s)
      OBVIOUS
    <3>2. x \in s /\ x \in S
      BY <2>4, <3>1, SomeIs DEF Parts
    <3> QED
      BY <2>1, <2>2, <3>1, <3>2, PartSmaller
  <2>5. u \in [Parts(S, n + 1) -> Int]
    <3>1. ASSUME NEW s \in Parts(S, n + 1) PROVE SumStep(t, s, w) \in Int
      <4>1. CASE s = {}
        BY <4>1 DEF SumStep
      <4>2. CASE s # {}
        <5>1. PICK x \in Int, y \in Int : x = w[Some(s)] /\ y = t[s \ {Some(s)}]
          BY <2>4, <4>2
        <5> QED
          BY <4>2, <5>1 DEF SumStep
      <4> QED
        BY <4>1, <4>2
    <3> QED
      BY <2>3, <3>1
  <2>6. ASSUME NEW s \in Parts(S, n) PROVE s \in Parts(S, n + 1) /\ u[s] = t[s]
    <3>1. s \in Parts(S, n + 1)
      <4>1. IsFiniteSet(s)
        BY FS_Subset DEF Parts
      <4>2. Cardinality(s) \in Nat
        BY <4>1, FS_CardinalityType
      <4> QED
        BY <2>2, <4>2 DEF Parts
    <3> QED
      BY <2>1, <2>3, <3>1 DEF AddsUp
  <2>7. AddsUp(u, Parts(S, n + 1), w)
    <3> SUFFICES ASSUME NEW s \in Parts(S, n + 1) PROVE u[s] = SumStep(u, s, w)
      BY DEF AddsUp
    <3>1. u[s] = SumStep(t, s, w)
      BY <2>3
    <3>2. s # {} => u[s \ {Some(s)}] = t[s \ {Some(s)}]
      BY <2>4, <2>6
    <3> QED
      BY <3>1, <3>2 DEF SumStep
  <2> QED
    BY <2>2, <2>5, <2>7
<1> HIDE DEF A
<1>3. A = Nat
  <2>1. A \in SUBSET Nat
    BY DEF A
  <2> QED
    BY <1>1, <1>2, <2>1, SetInduction
<1>4. Cardinality(S) \in A /\ Parts(S, Cardinality(S)) = SUBSET S
  BY <1>3, PartsOfAll
<1>5. \E t \in [Parts(S, Cardinality(S)) -> Int] : AddsUp(t, Parts(S, Cardinality(S)), w)
  BY <1>4 DEF A
<1> QED
  BY <1>4, <1>5

\* The sum that SumFunction takes is one.
LEMMA SumIs ==
  ASSUME NEW S, IsFiniteSet(S), NEW w \in [S -> Int]
  PROVE  Sums(PartSums(S, w), S, w)
<1>0. PICK t : t = PartSums(S, w)
  OBVIOUS
<1>1. PICK u \in [SUBSET S -> Int] : AddsUp(u, SUBSET S, w)
  BY SumExists
<1>2. IsSum(u, S, w)
  BY <1>1 DEF IsSum, AddsUp
<1>3. IsSum(t, S, w)
  BY <1>0, <1>2 DEF PartSums
<1>4. AddsUp(t, SUBSET S, w) /\ t = [s \in SUBSET S |-> t[s]]
  BY <1>3 DEF IsSum, AddsUp
<1> DEFINE A == {n \in Nat : \A s \in Parts(S, n) : t[s] = u[s]}
<1>5. 0 \in A
  <2> SUFFICES ASSUME NEW s \in Parts(S, 0) PROVE t[s] = u[s]
    OBVIOUS
  <2>1. IsFiniteSet(s) /\ Cardinality(s) <= 0 /\ s \in SUBSET S
    BY FS_Subset DEF Parts
  <2>2. s = {}
    BY <2>1, FS_EmptySet, FS_CardinalityType
  <2> QED
    BY <1>1, <1>4, <2>1, <2>2 DEF AddsUp, SumStep
<1>6. ASSUME NEW n \in A PROVE n + 1 \in A
  <2> SUFFICES ASSUME NEW s \in Parts(S, n + 1) PROVE t[s] = u[s]
    OBVIOUS
  <2>1. s \in SUBSET S /\ t[s] = SumStep(t, s, w) /\ u[s] = SumStep(u, s, w)
    BY <1>1, <1>4 DEF AddsUp, Parts
  <2>2. s # {} => t[s \ {Some(s)}] = u[s \ {Some(s)}]
    BY SomeIs, PartSmaller
  <2> QED
    BY <2>1, <2>2 DEF SumStep
<1> HIDE DEF A
<1>7. A = Nat
  <2>1. A \in SUBSET Nat
    BY DEF A
  <2> QED
    BY <1>5, <1>6, <2>1, SetInduction
<1>8. \A s \in SUBSET S : t[s] = u[s]
  BY <1>7, PartsOfAll DEF A
<1>9. t \in [SUBSET S -> Int]
  BY <1>1, <1>4, <1>8
<1> QED
  BY <1>0, <1>4, <1>9 DEF Sums

Splits(t, P, w) == \A s \in P : \A x \in s : t[s] = w[x] + t[s \ {x}]

\* A sum does not depend on the order its elements are taken in.
LEMMA SumSplits ==
  ASSUME NEW S, IsFiniteSet(S), NEW w \in [S -> Int],
         NEW t \in [SUBSET S -> Int], AddsUp(t, SUBSET S, w)
  PROVE  Splits(t, SUBSET S, w)
<1> DEFINE A == {n \in Nat : Splits(t, Parts(S, n), w)}
<1>1. 0 \in A
  <2>1. ASSUME NEW s \in Parts(S, 0) PROVE s = {}
    <3>1. IsFiniteSet(s) /\ Cardinality(s) <= 0
      BY FS_Subset DEF Parts
    <3> QED
      BY <3>1, FS_EmptySet, FS_CardinalityType
  <2>2. Splits(t, Parts(S, 0), w)
    BY <2>1 DEF Splits
  <2> QED
    BY <2>2
<1>2. ASSUME NEW n \in A PROVE n + 1 \in A
  <2>0. n \in Nat /\ Splits(t, Parts(S, n), w)
    OBVIOUS
  <2> SUFFICES ASSUME NEW s \in Parts(S, n + 1), NEW x \in s PROVE t[s] = w[x] + t[s \ {x}]
    BY <2>0 DEF Splits
  <2>1. PICK y : y = Some(s)
    OBVIOUS
  <2>2. y \in s /\ s \in SUBSET S /\ t[s] = w[y] + t[s \ {y}]
    BY <2>1, SomeIs DEF AddsUp, SumStep, Parts
  <2>3. CASE x = y
    BY <2>2, <2>3
  <2>4. CASE x # y
    <3>1. s \ {y} \in Parts(S, n) /\ x \in s \ {y} /\ s \ {x} \in Parts(S, n) /\ y \in s \ {x}
      BY <2>0, <2>2, <2>4, PartSmaller
    <3>2. PICK r : r = s \ {x, y}
      OBVIOUS
    <3>3. (s \ {y}) \ {x} = r /\ (s \ {x}) \ {y} = r /\ r \in SUBSET S /\ s \ {x} \in SUBSET S
      BY <2>2, <3>2
    <3>4. t[s \ {y}] = w[x] + t[r] /\ t[s \ {x}] = w[y] + t[r]
      BY <2>0, <3>1, <3>3 DEF Splits
    <3>5. PICK a \in Int, b \in Int, c \in Int : a = w[x] /\ b = w[y] /\ c = t[r]
      BY <2>2, <3>3
    <3>6. t[s] = b + (a + c) /\ t[s \ {x}] = b + c
      BY <2>2, <3>4, <3>5
    <3> QED
      BY <3>5, <3>6
  <2> QED
    BY <2>3, <2>4
<1> HIDE DEF A
<1>3. A = Nat
  <2>1. A \in SUBSET Nat
    BY DEF A
  <2> QED
    BY <1>1, <1>2, <2>1, SetInduction
<1>4. Cardinality(S) \in A /\ Parts(S, Cardinality(S)) = SUBSET S
  BY <1>3, PartsOfAll
<1> QED
  BY <1>4 DEF A

\* The sum of a list, element by element.
LEMMA SumOfList ==
  ASSUME NEW n \in Nat, NEW w \in [1..n -> Int], NEW used \in [0..n -> Int],
         used[0] = 0, \A k \in 1..n : used[k] = used[k - 1] + w[k]
  PROVE  SumFunction(w) = used[n]
<1>1. SumFunction(w) =
        (CHOOSE t : t = [s \in SUBSET DOMAIN w |->
           IF s = {} THEN 0 ELSE w[CHOOSE x \in s : TRUE] + t[s \ {CHOOSE x \in s : TRUE}]])[DOMAIN w]
  BY Zenon DEF SumFunction, SumFunctionOnSet, FoldFunctionOnSet, MapThenFoldSet
<1>2. PICK S : S = 1..n
  OBVIOUS
<1>3. S = DOMAIN w /\ IsFiniteSet(S) /\ w \in [S -> Int]
  <2>1. 1 \in Int /\ n \in Int
    OBVIOUS
  <2> QED
    BY <1>2, <2>1, FS_Interval
<1>4. SumFunction(w) = PartSums(S, w)[S]
  BY <1>1, <1>3 DEF PartSums, IsSum, SumStep, Some
<1>5. PICK t : t = PartSums(S, w)
  OBVIOUS
<1>6. t \in [SUBSET S -> Int] /\ AddsUp(t, SUBSET S, w) /\ Splits(t, SUBSET S, w)
  BY <1>3, <1>5, SumIs, SumSplits DEF Sums
<1> DEFINE A == {k \in 0..n : t[1..k] = used[k]}
<1>7. 0 \in A
  <2>1. t[{}] = 0
    BY <1>6 DEF AddsUp, SumStep
  <2>2. 1..0 = {} /\ 0 \in 0..n
    OBVIOUS
  <2> QED
    BY <2>1, <2>2
<1>8. ASSUME NEW k \in 1..n, k - 1 \in A PROVE k \in A
  <2>1. PICK P : P = 1..k
    OBVIOUS
  <2>2. P \in SUBSET S /\ k \in P /\ P \ {k} = 1..(k - 1)
    <3>1. \A x \in P : x # k <=> x \in 1..(k - 1)
      BY <2>1
    <3>2. P \in SUBSET S /\ k \in P
      BY <1>2, <2>1
    <3>3. \A x \in 1..(k - 1) : x \in P
      BY <2>1
    <3> QED
      BY <3>1, <3>2, <3>3
  <2>3. t[P] = w[k] + t[P \ {k}]
    BY <1>6, <2>2 DEF Splits
  <2>4. t[P] = w[k] + used[k - 1] /\ w[k] \in Int /\ used[k - 1] \in Int
    BY <1>8, <2>2, <2>3
  <2> QED
    BY <2>1, <2>4
<1> HIDE DEF A
<1>9. n \in A
  <2>1. n \in 0..n
    OBVIOUS
  <2> QED
    BY <1>7, <1>8, <2>1, UpTo
<1> QED
  BY <1>2, <1>4, <1>5, <1>9 DEF A

LEMMA SumLast ==
  ASSUME NEW n \in Nat \ {0}, NEW w \in [1..n -> Int],
         NEW v, v = [i \in 1..(n - 1) |-> w[i]]
  PROVE  SumFunction(v) \in Int /\ SumFunction(w) = SumFunction(v) + w[n]
<1> DEFINE G == [k \in 1..n |-> [x \in Int |-> x + w[k]]]
<1>1. G \in [1..n -> [Int -> Int]] /\ 0 \in Int
  OBVIOUS
<1>2. PICK used : IsSteps(used, Int, 0, n, G)
  BY <1>1, StepByStep
<1>3. used \in [0..n -> Int] /\ used[0] = 0 /\ \A k \in 1..n : used[k] = used[k - 1] + w[k]
  <2>1. used \in [0..n -> Int] /\ used[0] = 0 /\ \A k \in 1..n : used[k] = G[k][used[k - 1]]
    BY <1>2 DEF IsSteps
  <2>2. \A k \in 1..n : k - 1 \in 0..n /\ used[k - 1] \in Int
    BY <2>1
  <2> QED
    BY <2>1, <2>2
<1>4. SumFunction(w) = used[n]
  BY <1>3, SumOfList
<1>5. PICK m \in Nat : m = n - 1
  OBVIOUS
<1>6. v \in [1..m -> Int]
  BY <1>5
<1>7. PICK sofar : sofar = [i \in 0..m |-> used[i]]
  OBVIOUS
<1>8. sofar \in [0..m -> Int] /\ sofar[0] = 0 /\ sofar[m] = used[m]
  BY <1>3, <1>5, <1>7
<1>9. ASSUME NEW k \in 1..m PROVE sofar[k] = sofar[k - 1] + v[k]
  <2>1. k \in 0..m /\ k - 1 \in 0..m /\ k \in 1..n
    BY <1>5
  <2> QED
    BY <1>3, <1>5, <1>7, <2>1
<1>10. SumFunction(v) = used[m]
  BY <1>6, <1>8, <1>9, SumOfList
<1>11. n \in 1..n /\ used[m] \in Int
  BY <1>3, <1>5
<1> QED
  BY <1>3, <1>4, <1>5, <1>10, <1>11

LEMMA NoSum == ASSUME NEW w \in [1..0 -> Int] PROVE SumFunction(w) = 0
<1>1. PICK used : used = [k \in 0..0 |-> 0]
  OBVIOUS
<1>2. used \in [0..0 -> Int] /\ used[0] = 0 /\ \A k \in 1..0 : used[k] = used[k - 1] + w[k]
  BY <1>1
<1> QED
  BY <1>2, SumOfList

-----------------------------------------------------------------------------
(* Paths.                                                                  *)

\* A path weighs its last step more than what leads to it.
LEMMA PathLast ==
  ASSUME NEW steps, NEW W, AreSteps(steps, W), NEW h \in Nat \ {0}, NEW p \in [1..h -> steps],
         NEW q, q = [i \in 1..(h - 1) |-> p[i]]
  PROVE  PathWeight(q) \in Int /\ PathWeight(p) = PathWeight(q) + p[h].weight
<1>1. PICK w : w = [i \in 1..h |-> p[i].weight]
  OBVIOUS
<1>2. w \in [1..h -> Int]
  BY <1>1 DEF AreSteps
<1>3. PICK v : v = [i \in 1..(h - 1) |-> w[i]]
  OBVIOUS
<1>4. v = [i \in DOMAIN q |-> q[i].weight]
  <2>1. DOMAIN q = 1..(h - 1) /\ \A i \in 1..(h - 1) : i \in 1..h /\ q[i] = p[i]
    OBVIOUS
  <2> QED
    BY <1>1, <1>3, <2>1
<1>5. w = [i \in DOMAIN p |-> p[i].weight] /\ w[h] = p[h].weight
  BY <1>1
<1>6. PathWeight(q) = SumFunction(v) /\ PathWeight(p) = SumFunction(w)
  BY <1>4, <1>5 DEF PathWeight
<1> QED
  BY <1>2, <1>3, <1>5, <1>6, SumLast

LEMMA PathOfOne ==
  ASSUME NEW steps, NEW W, AreSteps(steps, W), NEW p \in [1..1 -> steps]
  PROVE  PathWeight(p) = p[1].weight
<1>0. PICK one \in Nat \ {0} : one = 1
  OBVIOUS
<1>1. PICK q : q = [i \in 1..(one - 1) |-> p[i]]
  OBVIOUS
<1>2. PathWeight(p) = PathWeight(q) + p[1].weight
  <2>1. p \in [1..one -> steps]
    BY <1>0
  <2>2. PathWeight(p) = PathWeight(q) + p[one].weight
    BY <1>1, <2>1, PathLast
  <2> QED
    BY <1>0, <2>2
<1>3. PICK w : w = [i \in DOMAIN q |-> q[i].weight]
  OBVIOUS
<1>4. w \in [1..0 -> Int] /\ PathWeight(q) = SumFunction(w)
  <2>1. DOMAIN q = 1..0 /\ 1..0 = {}
    BY <1>0, <1>1
  <2> QED
    BY <1>3, <2>1 DEF PathWeight
<1>5. PathWeight(q) = 0
  BY <1>4, NoSum
<1>6. p[1] \in steps
  OBVIOUS
<1>7. p[1].weight \in Int
  BY <1>6 DEF AreSteps
<1> QED
  BY <1>2, <1>5, <1>7

\* The rows of the recursive query are the paths.
PathRows(steps, a, h) == {Row(p[h].to, h, PathWeight(p)) : p \in PathsOf(steps, a, h)}

LEMMA FirstPaths ==
  ASSUME NEW steps, NEW W, AreSteps(steps, W), NEW a
  PROVE  FirstRows(steps, a) = PathRows(steps, a, 1)
<1>1. ASSUME NEW s \in steps, s.from = a PROVE Row(s.to, 1, s.weight) \in PathRows(steps, a, 1)
  <2>1. PICK p : p = [i \in 1..1 |-> s]
    OBVIOUS
  <2>2. p \in [1..1 -> steps] /\ p[1] = s /\ 2..1 = {}
    BY <2>1
  <2>3. p \in PathsOf(steps, a, 1) /\ PathWeight(p) = s.weight
    BY <1>1, <2>2, PathOfOne DEF PathsOf
  <2> QED
    BY <2>2, <2>3 DEF PathRows
<1>2. ASSUME NEW p \in PathsOf(steps, a, 1)
      PROVE  Row(p[1].to, 1, PathWeight(p)) \in FirstRows(steps, a)
  <2>1. p \in [1..1 -> steps] /\ p[1].from = a /\ p[1] \in steps
    BY DEF PathsOf
  <2>2. PathWeight(p) = p[1].weight
    BY <2>1, PathOfOne
  <2> QED
    BY <2>1, <2>2 DEF FirstRows
<1> QED
  BY <1>1, <1>2 DEF FirstRows, PathRows

LEMMA NextPaths ==
  ASSUME NEW steps, NEW W, AreSteps(steps, W), NEW a, NEW h \in Nat, h > 1
  PROVE  NextRows(steps, PathRows(steps, a, h - 1), h) = PathRows(steps, a, h)
<1>0. h \in Nat \ {0} /\ h \in 1..h /\ 1 \in 1..h /\ 1 \in 1..(h - 1) /\ h - 1 \in 1..(h - 1) /\ h \in 2..h
  OBVIOUS
<1>1. ASSUME NEW p \in PathsOf(steps, a, h - 1), NEW s \in steps, s.from = p[h - 1].to
      PROVE  Row(s.to, h, PathWeight(p) + s.weight) \in PathRows(steps, a, h)
  <2>1. /\ p \in [1..(h - 1) -> steps] /\ p[1].from = a
        /\ \A i \in 2..(h - 1) : p[i].from = p[i - 1].to
    BY DEF PathsOf
  <2>2. PICK q : q = [i \in 1..h |-> IF i = h THEN s ELSE p[i]]
    OBVIOUS
  <2>3. \A i \in 1..h : i # h => i \in 1..(h - 1) /\ q[i] = p[i]
    BY <2>2
  <2>4. q[h] = s
    BY <1>0, <2>2
  <2>5. q \in [1..h -> steps]
    BY <2>1, <2>2, <2>3
  <2>6. q[1] = p[1]
    BY <1>0, <2>3
  <2>7. ASSUME NEW i \in 2..h PROVE q[i].from = q[i - 1].to
    <3>1. i \in 1..h /\ i - 1 \in 1..h /\ i - 1 # h /\ q[i - 1] = p[i - 1]
      BY <2>3
    <3>2. CASE i = h
      BY <1>1, <2>4, <3>1, <3>2
    <3>3. CASE i # h
      <4>1. i \in 2..(h - 1) /\ q[i] = p[i]
        BY <2>3, <3>1, <3>3
      <4> QED
        BY <2>1, <3>1, <4>1
    <3> QED
      BY <3>2, <3>3
  <2>8. q \in PathsOf(steps, a, h)
    BY <2>1, <2>5, <2>6, <2>7 DEF PathsOf
  <2>9. p = [i \in 1..(h - 1) |-> q[i]]
    <3>1. \A i \in 1..(h - 1) : i \in 1..h /\ i # h
      OBVIOUS
    <3> QED
      BY <2>1, <2>3, <3>1
  <2>10. PathWeight(q) = PathWeight(p) + s.weight
    BY <1>0, <2>4, <2>5, <2>9, PathLast
  <2> QED
    BY <2>4, <2>8, <2>10 DEF PathRows
<1>2. ASSUME NEW q \in PathsOf(steps, a, h)
      PROVE  \E p \in PathsOf(steps, a, h - 1), s \in steps :
               /\ s.from = p[h - 1].to
               /\ Row(q[h].to, h, PathWeight(q)) = Row(s.to, h, PathWeight(p) + s.weight)
  <2>1. /\ q \in [1..h -> steps] /\ q[1].from = a
        /\ \A i \in 2..h : q[i].from = q[i - 1].to
    BY DEF PathsOf
  <2>2. PICK p : p = [i \in 1..(h - 1) |-> q[i]]
    OBVIOUS
  <2>3. \A i \in 1..(h - 1) : i \in 1..h /\ p[i] = q[i]
    BY <2>2
  <2>4. p \in [1..(h - 1) -> steps] /\ p[1] = q[1]
    BY <1>0, <2>1, <2>2, <2>3
  <2>5. ASSUME NEW i \in 2..(h - 1) PROVE p[i].from = p[i - 1].to
    <3>1. i \in 1..(h - 1) /\ i - 1 \in 1..(h - 1) /\ i \in 2..h
      OBVIOUS
    <3> QED
      BY <2>1, <2>3, <3>1
  <2>6. p \in PathsOf(steps, a, h - 1)
    BY <2>1, <2>4, <2>5 DEF PathsOf
  <2>7. PathWeight(q) = PathWeight(p) + q[h].weight
    BY <1>0, <2>1, <2>2, PathLast
  <2>8. q[h] \in steps /\ q[h].from = p[h - 1].to
    BY <1>0, <2>1, <2>3
  <2> QED
    BY <2>6, <2>7, <2>8
<1>3. \A p : Row(p[h - 1].to, h - 1, PathWeight(p)).node = p[h - 1].to
             /\ Row(p[h - 1].to, h - 1, PathWeight(p)).weight = PathWeight(p)
  BY DEF Row
<1>4. ASSUME NEW x \in NextRows(steps, PathRows(steps, a, h - 1), h) PROVE x \in PathRows(steps, a, h)
  <2>1. PICK r \in PathRows(steps, a, h - 1), s \in steps :
          s.from = r.node /\ x = Row(s.to, h, r.weight + s.weight)
    BY <1>4 DEF NextRows
  <2>2. PICK p \in PathsOf(steps, a, h - 1) : r = Row(p[h - 1].to, h - 1, PathWeight(p))
    BY <2>1 DEF PathRows
  <2> QED
    BY <1>1, <1>3, <2>1, <2>2
<1>5. ASSUME NEW x \in PathRows(steps, a, h) PROVE x \in NextRows(steps, PathRows(steps, a, h - 1), h)
  <2>1. PICK q \in PathsOf(steps, a, h) : x = Row(q[h].to, h, PathWeight(q))
    BY <1>5 DEF PathRows
  <2>2. PICK p \in PathsOf(steps, a, h - 1), s \in steps :
          s.from = p[h - 1].to /\ x = Row(s.to, h, PathWeight(p) + s.weight)
    BY <1>2, <2>1
  <2>3. PICK r \in PathRows(steps, a, h - 1) : r.node = p[h - 1].to /\ r.weight = PathWeight(p)
    BY <1>3 DEF PathRows
  <2> QED
    BY <2>2, <2>3 DEF NextRows
<1> QED
  BY <1>4, <1>5

LEMMA RowsArePaths ==
  ASSUME NEW steps, NEW W, AreSteps(steps, W), NEW a, NEW d \in Nat \ {0},
         NEW f, IsRows(f, steps, a, d)
  PROVE  \A h \in 1..d : f[h] = PathRows(steps, a, h)
<1> DEFINE S == {h \in 0..d : h = 0 \/ f[h] = PathRows(steps, a, h)}
<1>1. 0 \in S
  OBVIOUS
<1>2. ASSUME NEW h \in 1..d, h - 1 \in S PROVE h \in S
  <2>1. CASE h = 1
    BY <2>1, FirstPaths DEF IsRows
  <2>2. CASE h # 1
    <3>1. h \in 2..d /\ h \in Nat /\ h > 1 /\ f[h - 1] = PathRows(steps, a, h - 1)
      BY <1>2, <2>2
    <3>2. f[h] = NextRows(steps, PathRows(steps, a, h - 1), h)
      BY <3>1 DEF IsRows
    <3> QED
      BY <3>1, <3>2, NextPaths
  <2> QED
    BY <2>1, <2>2
<1> HIDE DEF S
<1>3. \A h \in 0..d : h \in S
  BY <1>1, <1>2, UpTo
<1> QED
  BY <1>3 DEF S

\* The weights of the rows of a node are those of the paths to it.
LEMMA WalkWeighs ==
  ASSUME NEW steps, NEW W, AreSteps(steps, W), NEW a, NEW d \in Nat \ {0}, NEW n
  PROVE  {r.weight : r \in {r \in Walk(steps, a, d) : r.node = n}} = WeightsOf(steps, a, d, n)
<1>1. PICK f : IsRows(f, steps, a, d) /\ Walk(steps, a, d) = UNION {f[h] : h \in 1..d}
  BY WalkUnroll
<1>2. \A h \in 1..d : f[h] = PathRows(steps, a, h)
  BY <1>1, RowsArePaths
<1>3. ASSUME NEW r \in Walk(steps, a, d), r.node = n PROVE r.weight \in WeightsOf(steps, a, d, n)
  <2>1. PICK h \in 1..d : r \in PathRows(steps, a, h)
    BY <1>1, <1>2, <1>3
  <2>2. PICK p \in PathsOf(steps, a, h) : r = Row(p[h].to, h, PathWeight(p))
    BY <2>1 DEF PathRows
  <2>3. p[h].to = n /\ r.weight = PathWeight(p)
    BY <1>3, <2>2 DEF Row
  <2> QED
    BY <2>3 DEF WeightsOf
<1>4. ASSUME NEW h \in 1..d, NEW p \in PathsOf(steps, a, h), p[h].to = n
      PROVE  \E r \in Walk(steps, a, d) : r.node = n /\ r.weight = PathWeight(p)
  <2>1. PICK r : r = Row(p[h].to, h, PathWeight(p))
    OBVIOUS
  <2>2. r \in f[h] /\ r.node = n /\ r.weight = PathWeight(p)
    BY <1>2, <1>4, <2>1 DEF PathRows, Row
  <2> QED
    BY <1>1, <2>2
<1> QED
  BY <1>3, <1>4 DEF WeightsOf

-----------------------------------------------------------------------------
(* MemoryRelated.                                                          *)

LEMMA MaxIs ==
  ASSUME NEW S \in SUBSET Int, S # {}, NEW B \in Int, \A x \in S : x <= B
  PROVE  Max(S) \in S /\ \A x \in S : x <= Max(S)
<1> DEFINE T == {B - x : x \in S}
<1>1. T \in SUBSET Nat /\ T # {}
  <2>1. \A x \in S : B - x \in Nat
    OBVIOUS
  <2> QED
    BY <2>1
<1>2. PICK t \in T : \A u \in T : t <= u
  BY <1>1, LeastNat
<1>3. PICK m \in S : t = B - m
  BY <1>2
<1>4. \A x \in S : m >= x
  <2> SUFFICES ASSUME NEW x \in S PROVE m >= x
    OBVIOUS
  <2>1. B - m <= B - x
    BY <1>2, <1>3
  <2> QED
    BY <2>1
<1>5. Max(S) \in S /\ \A x \in S : Max(S) >= x
  BY <1>4 DEF Max
<1> QED
  BY <1>5

LEMMA MinIs ==
  ASSUME NEW S \in SUBSET Nat, S # {}
  PROVE  Min(S) \in S /\ \A x \in S : Min(S) <= x
<1>1. PICK m \in S : \A x \in S : m <= x
  BY LeastNat
<1> QED
  BY <1>1 DEF Min

\* The rows of the recursive query over some steps.
LEMMA WalkHas ==
  ASSUME NEW steps, NEW W \in Nat, AreSteps(steps, W), NEW a \in Node, NEW d \in Nat \ {0},
         NEW rows, rows = Walk(steps, a, d)
  PROVE  /\ \A r \in rows : r.hop \in 1..d /\ r.weight \in Int /\ \E s \in steps : r.node = s.to
         /\ \E B \in Nat : \A r \in rows : r.weight <= B
<1>1. PICK f : IsRows(f, steps, a, d) /\ rows = UNION {f[h] : h \in 1..d}
  BY WalkUnroll
<1>2. /\ \A h \in 1..d : f[h] \in SUBSET RowType
      /\ f[1] = FirstRows(steps, a)
      /\ \A h \in 2..d : f[h] = NextRows(steps, f[h - 1], h)
      /\ \A h \in 1..d : \A r \in f[h] : r.hop = h
  BY <1>1, RowsAre DEF IsRows
<1>3. PICK B \in Nat : \A h \in 1..d : \A r \in f[h] : r.weight <= B
  BY <1>1, RowsAre
<1>4. ASSUME NEW h \in 1..d, NEW r \in f[h]
      PROVE  r.hop \in 1..d /\ r.weight \in Int /\ \E s \in steps : r.node = s.to
  <2>1. r.hop \in 1..d /\ r.weight \in Int
    BY <1>2, <1>4 DEF RowType
  <2>2. CASE h = 1
    BY <1>2, <1>4, <2>1, <2>2 DEF FirstRows, Row
  <2>3. CASE h # 1
    <3>1. r \in NextRows(steps, f[h - 1], h)
      BY <1>2, <1>4, <2>3
    <3> QED
      BY <2>1, <3>1 DEF NextRows, Row
  <2> QED
    BY <2>2, <2>3
<1>5. \A r \in rows : \E h \in 1..d : r \in f[h]
  BY <1>1
<1> QED
  BY <1>3, <1>4, <1>5

LEMMA EdgeSteps ==
  ASSUME GraphInv, NEW min
  PROVE  \E W \in Nat : /\ AreSteps(Forward(min), W) /\ AreSteps(Backward(min), W)
                        /\ \A s \in Forward(min) \cup Backward(min) : s.to \in Alive
<1>1. PICK p \in Int, m \in Int : p = Weight["parsed"] /\ m = Weight["manual"]
  BY WalkAssumption
<1>2. PICK W \in Nat : p <= W /\ m <= W
  <2>1. CASE p >= m /\ p >= 0
    BY <2>1
  <2>2. CASE m >= p /\ m >= 0
    BY <2>2
  <2>3. CASE p < 0 /\ m < 0
    BY <2>3
  <2> QED
    BY <2>1, <2>2, <2>3
<1>3. \A e \in Heavy(min) : /\ e.src \in Alive /\ e.dst \in Alive
                            /\ Weight[e.origin] \in Int /\ Weight[e.origin] <= W
  BY <1>1, <1>2 DEF Heavy, GraphInv, Origins
<1>4. Alive \subseteq Node
  BY DEF GraphInv
<1>5. \A s \in Forward(min) \cup Backward(min) :
        /\ s.from \in Alive /\ s.to \in Alive
        /\ s.weight \in Int /\ s.weight <= W
  BY <1>3 DEF Forward, Backward, Step
<1> QED
  BY <1>4, <1>5 DEF AreSteps

\* The rows of a query.
AreQueryRows(rows, d) ==
  /\ \A r \in rows : r.node \in Alive /\ r.hop \in 1..d /\ r.weight \in Int
  /\ \E B \in Nat : \A r \in rows : r.weight <= B

LEMMA QueryIs ==
  ASSUME GraphInv, NEW a \in Alive, NEW direction \in Directions, NEW min, NEW d \in Nat \ {0},
         NEW rows, rows = RelatedQuery(a, direction, min, d)
  PROVE  /\ AreQueryRows(rows, d)
         /\ \A k \in 0..d :
              Around(a, direction, min, k) = {a} \cup {r.node : r \in {r \in rows : r.hop <= k}}
         /\ \A n : PathWeights(a, direction, min, d, n) = {r.weight : r \in {r \in rows : r.node = n}}
<1>1. PICK ways : ways = Ways(direction, min)
  OBVIOUS
<1>2. ways # {} /\ ways \subseteq {Forward(min), Backward(min)}
  BY <1>1 DEF Ways, Directions
<1>3. PICK W \in Nat : \A steps \in ways : AreSteps(steps, W) /\ \A s \in steps : s.to \in Alive
  BY <1>2, EdgeSteps
<1>4. a \in Node
  BY DEF GraphInv
<1>5. \A x : x \in rows <=> \E steps \in ways : x \in Walk(steps, a, d)
  BY <1>1 DEF Ways, RelatedQuery, RelatedIn, RelatedOut, RelatedBoth, Directions
<1>6. \A steps \in ways :
        /\ \A r \in Walk(steps, a, d) : r.hop \in 1..d /\ r.weight \in Int /\ \E s \in steps : r.node = s.to
        /\ \E B \in Nat : \A r \in Walk(steps, a, d) : r.weight <= B
  BY <1>3, <1>4, WalkHas
<1>7. AreQueryRows(rows, d)
  <2>1. \A r \in rows : r.node \in Alive /\ r.hop \in 1..d /\ r.weight \in Int
    BY <1>3, <1>5, <1>6
  <2>2. PICK B \in Nat : Forward(min) \in ways => \A r \in Walk(Forward(min), a, d) : r.weight <= B
    BY <1>6
  <2>3. PICK C \in Nat : Backward(min) \in ways => \A r \in Walk(Backward(min), a, d) : r.weight <= C
    BY <1>6
  <2>4. \A r \in rows : r.weight <= B + C
    <3> SUFFICES ASSUME NEW r \in rows PROVE r.weight <= B + C
      OBVIOUS
    <3>1. r.weight \in Int /\ (r.weight <= B \/ r.weight <= C)
      BY <1>2, <1>5, <2>1, <2>2, <2>3
    <3> QED
      BY <3>1
  <2>5. B + C \in Nat
    OBVIOUS
  <2> QED
    BY <2>1, <2>4, <2>5 DEF AreQueryRows
<1>8. ASSUME NEW k \in 0..d
      PROVE  Around(a, direction, min, k) = {a} \cup {r.node : r \in {r \in rows : r.hop <= k}}
  <2>1. \A steps \in ways :
          Ball(steps, a, k) = {a} \cup {r.node : r \in {r \in Walk(steps, a, d) : r.hop <= k}}
    BY <1>3, <1>4, BallIs
  <2>2. Around(a, direction, min, k) = UNION {Ball(steps, a, k) : steps \in ways}
    BY <1>1 DEF Around
  <2>3. \A n : n \in Around(a, direction, min, k) <=> \E steps \in ways : n \in Ball(steps, a, k)
    BY <2>2
  <2>4. \A n : (\E steps \in ways : n \in Ball(steps, a, k))
                 <=> n = a \/ \E steps \in ways : \E r \in Walk(steps, a, d) : r.hop <= k /\ r.node = n
    BY <1>2, <2>1
  <2>5. \A n : n \in {a} \cup {r.node : r \in {r \in rows : r.hop <= k}}
                 <=> n = a \/ \E r \in rows : r.hop <= k /\ r.node = n
    OBVIOUS
  <2>6. \A n : (\E r \in rows : r.hop <= k /\ r.node = n)
                 <=> \E steps \in ways : \E r \in Walk(steps, a, d) : r.hop <= k /\ r.node = n
    BY <1>5
  <2> QED
    BY <2>3, <2>4, <2>5, <2>6
<1>9. ASSUME NEW n
      PROVE  PathWeights(a, direction, min, d, n) = {r.weight : r \in {r \in rows : r.node = n}}
  <2>1. \A w : w \in PathWeights(a, direction, min, d, n)
                 <=> \E steps \in ways : w \in WeightsOf(steps, a, d, n)
    BY <1>1 DEF PathWeights
  <2>2. \A steps \in ways :
          WeightsOf(steps, a, d, n) = {r.weight : r \in {r \in Walk(steps, a, d) : r.node = n}}
    BY <1>3, WalkWeighs
  <2>3. \A w : (\E steps \in ways : w \in WeightsOf(steps, a, d, n))
                 <=> \E steps \in ways : \E r \in Walk(steps, a, d) : r.node = n /\ r.weight = w
    BY <2>2
  <2>4. \A w : w \in {r.weight : r \in {r \in rows : r.node = n}}
                 <=> \E r \in rows : r.node = n /\ r.weight = w
    OBVIOUS
  <2>5. \A w : (\E r \in rows : r.node = n /\ r.weight = w)
                 <=> \E steps \in ways : \E r \in Walk(steps, a, d) : r.node = n /\ r.weight = w
    BY <1>5
  <2> QED
    BY <2>1, <2>3, <2>4, <2>5
<1> QED
  BY <1>7, <1>8, <1>9

\* The nodes that are related to a by the rows.
Others(rows, a) == {r.node : r \in rows} \ {a}

\* A row for each node, with its least hop and greatest weight.
AreGroups(G, rows, a) ==
  /\ \A g \in G : /\ g.node \in Others(rows, a) /\ g.weight \in Int
                  /\ \E r \in rows : r.node = g.node /\ r.hop = g.hop
                  /\ \E r \in rows : r.node = g.node /\ r.weight = g.weight
                  /\ \A r \in rows : r.node = g.node => g.hop <= r.hop /\ r.weight <= g.weight
  /\ \A g, h \in G : g.node = h.node => g = h
  /\ \A n \in Others(rows, a) : \E g \in G : g.node = n
  /\ IsFiniteSet(G) /\ Cardinality(G) = Cardinality(Others(rows, a))

LEMMA NodeFinite == IsFiniteSet(Node)
<1>1. 1 \in Int /\ NodeCount \in Int
  BY NodeAssumption
<1> QED
  BY <1>1, FS_Interval DEF Node

LEMMA GroupedIs ==
  ASSUME NEW rows, NEW d \in Nat, AreQueryRows(rows, d), Alive \subseteq Node, NEW a,
         NEW G, G = Grouped(rows, a)
  PROVE  AreGroups(G, rows, a)
<1> DEFINE hops(n) == {r.hop : r \in {r \in rows : r.node = n}}
           weights(n) == {r.weight : r \in {r \in rows : r.node = n}}
           row(n) == Row(n, Min(hops(n)), Max(weights(n)))
<1>1. PICK T : T = Others(rows, a)
  OBVIOUS
<1>2. ({r.node : r \in rows} \cap Alive) \ {a} = T
  BY <1>1 DEF AreQueryRows, Others
<1>3. G = {row(n) : n \in T}
  BY <1>2 DEF Grouped
<1>4. PICK B \in Nat : \A r \in rows : r.weight <= B
  BY DEF AreQueryRows
<1>5. ASSUME NEW n \in T
      PROVE  /\ Min(hops(n)) \in hops(n) /\ \A x \in hops(n) : Min(hops(n)) <= x
             /\ Max(weights(n)) \in weights(n) /\ \A x \in weights(n) : x <= Max(weights(n))
  <2>1. hops(n) \in SUBSET Nat /\ weights(n) \in SUBSET Int
    BY DEF AreQueryRows
  <2>2. hops(n) # {} /\ weights(n) # {}
    BY <1>1, <1>5 DEF Others
  <2>3. \A x \in weights(n) : x <= B
    BY <1>4
  <2> HIDE DEF hops, weights
  <2>4. PICK H, U : H = hops(n) /\ U = weights(n)
    OBVIOUS
  <2>5. Min(H) \in H /\ \A x \in H : Min(H) <= x
    BY <2>1, <2>2, <2>4, MinIs
  <2>6. Max(U) \in U /\ \A x \in U : x <= Max(U)
    <3>1. B \in Int /\ U \in SUBSET Int /\ U # {} /\ \A x \in U : x <= B
      BY <2>1, <2>2, <2>3, <2>4
    <3> QED
      BY <3>1, MaxIs
  <2> QED
    BY <2>4, <2>5, <2>6
<1>6. ASSUME NEW n \in T
      PROVE  /\ row(n).node = n
             /\ row(n).weight \in Int
             /\ \E r \in rows : r.node = n /\ r.hop = row(n).hop
             /\ \E r \in rows : r.node = n /\ r.weight = row(n).weight
             /\ \A r \in rows : r.node = n => row(n).hop <= r.hop /\ r.weight <= row(n).weight
  <2>1. PICK H, U : H = hops(n) /\ U = weights(n)
    OBVIOUS
  <2>2. PICK h, w : h = Min(H) /\ w = Max(U)
    OBVIOUS
  <2>3. row(n).node = n /\ row(n).hop = h /\ row(n).weight = w
    BY <2>1, <2>2 DEF Row
  <2>4. /\ h \in H /\ \A x \in H : h <= x
        /\ w \in U /\ \A x \in U : x <= w
    BY <1>5, <2>1, <2>2
  <2> HIDE DEF row
  <2>5. w \in Int
    BY <2>1, <2>4 DEF AreQueryRows
  <2> QED
    BY <2>1, <2>3, <2>4, <2>5
<1> HIDE DEF row
<1>7. \A g \in G : \E n \in T : g = row(n) /\ g.node = n
  BY <1>3, <1>6
<1>8. \A n \in T : row(n) \in G
  BY <1>3
<1>9. IsFiniteSet(G) /\ Cardinality(G) = Cardinality(T)
  <2>1. IsFiniteSet(T)
    <3>1. T \in SUBSET Node
      BY <1>1 DEF Others, AreQueryRows
    <3> QED
      BY <3>1, NodeFinite, FS_Subset
  <2> DEFINE f == [g \in G |-> g.node]
  <2>2. f \in [G -> T] /\ \A g \in G : f[g] = g.node
    BY <1>7
  <2> HIDE DEF f
  <2>3. \A g, h \in G : f[g] = f[h] => g = h
    BY <1>7, <2>2
  <2>4. f \in Injection(G, T)
    BY <2>2, <2>3 DEF Injection, IsInjective
  <2>5. f \in Surjection(G, T)
    BY <1>6, <1>8, <2>2 DEF Surjection
  <2> QED
    BY <2>1, <2>4, <2>5, FS_Injection
<1> QED
  BY <1>1, <1>6, <1>7, <1>8, <1>9 DEF AreGroups

\* The sequences a set can be put in.
LEMMA OrderIs ==
  ASSUME NEW S, IsFiniteSet(S), NEW s \in SetToSeqs(S)
  PROVE  /\ s \in Seq(S) /\ Len(s) = Cardinality(S)
         /\ \A i, j \in 1..Len(s) : s[i] = s[j] => i = j
         /\ \A x \in S : \E i \in 1..Len(s) : s[i] = x
<1>1. PICK n \in Nat : n = Cardinality(S)
  BY FS_CardinalityType
<1>2. s \in [1..n -> S] /\ \A i, j \in 1..n : i # j => s[i] # s[j]
  BY <1>1 DEF SetToSeqs
<1>3. s \in Seq(S) /\ Len(s) = n
  BY <1>2
<1>4. s \in Injection(1..n, S)
  BY <1>2 DEF Injection, IsInjective
<1>5. Cardinality(1..n) = n
  <2>1. 1 \in Int /\ n \in Int
    OBVIOUS
  <2>2. Cardinality(1..n) = IF 1 > n THEN 0 ELSE n - 1 + 1
    BY <2>1, FS_Interval
  <2> QED
    BY <2>2
<1>6. s \in Surjection(1..n, S)
  BY <1>1, <1>4, <1>5, FS_Injection
<1> QED
  BY <1>1, <1>2, <1>3, <1>6 DEF Surjection

\* An answer: the heaviest rows, at most limit of them.
IsAnswer(answer, G, limit) ==
  /\ answer \in Seq(G)
  /\ Len(answer) = Min({limit, Cardinality(G)})
  /\ \A i, j \in 1..Len(answer) : answer[i] = answer[j] => i = j
  /\ \A i, j \in 1..Len(answer) : i < j => answer[i].weight >= answer[j].weight
  /\ \A g \in G : \/ \E i \in 1..Len(answer) : answer[i] = g
                  \/ Len(answer) > 0 => g.weight <= answer[Len(answer)].weight

LEMMA AnswerIs ==
  ASSUME NEW G, IsFiniteSet(G), \A g \in G : g.weight \in Int, NEW limit \in Nat,
         NEW order \in SetToSeqs(G), \A i, j \in DOMAIN order : i < j => order[i].weight >= order[j].weight
  PROVE  IsAnswer(SubSeq(order, 1, Min({limit, Len(order)})), G, limit)
<1>1. /\ order \in Seq(G) /\ Len(order) = Cardinality(G)
      /\ \A i, j \in 1..Len(order) : order[i] = order[j] => i = j
      /\ \A g \in G : \E i \in 1..Len(order) : order[i] = g
  BY OrderIs
<1>2. PICK n \in Nat : n = Len(order) /\ DOMAIN order = 1..n
  BY <1>1
<1>3. PICK k : k = Min({limit, n})
  OBVIOUS
<1>4. k \in Nat /\ k <= n /\ k \in {limit, n}
  <2>1. PICK P : P = {limit, n}
    OBVIOUS
  <2>2. P \in SUBSET Nat /\ P # {}
    BY <2>1
  <2>3. Min(P) \in P /\ \A x \in P : Min(P) <= x
    BY <2>2, MinIs
  <2> QED
    BY <1>3, <2>1, <2>3
<1>5. PICK answer : answer = SubSeq(order, 1, k)
  OBVIOUS
<1>6. answer \in Seq(G) /\ Len(answer) = k /\ \A i \in 1..k : answer[i] = order[i]
  BY <1>1, <1>2, <1>4, <1>5
<1>7. \A i, j \in 1..k : answer[i] = answer[j] => i = j
  BY <1>1, <1>2, <1>4, <1>6
<1>8. ASSUME NEW g \in G
      PROVE  \/ \E i \in 1..k : answer[i] = g
             \/ k > 0 => g.weight <= answer[k].weight
  <2>1. PICK i \in 1..n : order[i] = g
    BY <1>1, <1>2
  <2>2. CASE i <= k
    BY <1>6, <2>1, <2>2
  <2>3. CASE i > k /\ k > 0
    <3>1. k \in 1..n /\ k < i
      BY <1>4, <2>3
    <3>2. order[k].weight >= order[i].weight
      BY <1>2, <3>1
    <3>3. order[k] \in G /\ answer[k] = order[k]
      BY <1>1, <1>2, <1>4, <1>6, <3>1
    <3>4. order[k].weight \in Int /\ order[i].weight \in Int
      BY <2>1, <3>3
    <3> QED
      BY <2>1, <3>2, <3>3, <3>4
  <2> QED
    BY <1>4, <2>2, <2>3
<1>9. \A i, j \in 1..k : i < j => answer[i].weight >= answer[j].weight
  <2>1. \A i \in 1..k : i \in DOMAIN order /\ answer[i] = order[i]
    BY <1>2, <1>4, <1>6
  <2> QED
    BY <2>1
<1>10. IsAnswer(answer, G, limit)
  BY <1>1, <1>2, <1>3, <1>6, <1>7, <1>8, <1>9 DEF IsAnswer
<1> QED
  BY <1>2, <1>3, <1>5, <1>10

\* What is printed of a list is its longest beginning within the budget.
LEMMA FormatIs ==
  ASSUME NEW G, \A g \in G : g.node \in Node, NEW related \in Seq(G), NEW budget \in Nat \ {0}
  PROVE  Fits([warmed |-> related, shown |-> FormatRelated(related, budget)], budget)
<1>1. PICK n \in Nat : n = Len(related) /\ DOMAIN related = 1..n
  OBVIOUS
<1>2. \A i \in 1..n : Tokens[related[i].node] \in Nat
  BY <1>1, WalkAssumption
<1> DEFINE Eq(used) == used = [i \in 0..Len(related) |->
                                 IF i = 0 THEN 0 ELSE used[i - 1] + Tokens[related[i].node]]
           G1 == [k \in 1..n |-> [x \in Nat |-> x + Tokens[related[k].node]]]
<1>3. G1 \in [1..n -> [Nat -> Nat]] /\ 0 \in Nat
  BY <1>2
<1>4. PICK e : IsSteps(e, Nat, 0, n, G1)
  BY <1>3, StepByStep
<1>5. e \in [0..n -> Nat] /\ e[0] = 0 /\ \A k \in 1..n : e[k] = e[k - 1] + Tokens[related[k].node]
  <2>1. e \in [0..n -> Nat] /\ e[0] = 0 /\ \A k \in 1..n : e[k] = G1[k][e[k - 1]]
    BY <1>4 DEF IsSteps
  <2>2. \A k \in 1..n : e[k - 1] \in Nat
    BY <2>1
  <2> QED
    BY <2>1, <2>2
<1>6. Eq(e)
  <2>1. \A i \in 0..n : e[i] = IF i = 0 THEN 0 ELSE e[i - 1] + Tokens[related[i].node]
    BY <1>5
  <2>2. e = [i \in 0..n |-> e[i]]
    BY <1>5
  <2>3. e = [i \in 0..n |-> IF i = 0 THEN 0 ELSE e[i - 1] + Tokens[related[i].node]]
    BY <2>1, <2>2
  <2> QED
    BY <1>1, <2>3
<1> DEFINE u == CHOOSE used : Eq(used)
<1> HIDE DEF Eq, G1
<1>7. Eq(u)
  BY <1>6, Zenon
<1> DEFINE ok(i) == budget <= 0 \/ u[i] <= budget
           K == {k \in 0..n : \A i \in 1..k : ok(i)}
<1>8. FormatRelated(related, budget) = SubSeq(related, 1, Max(K))
  BY <1>1 DEF FormatRelated, Eq
<1> HIDE DEF u
<1>9. u = [i \in 0..n |-> IF i = 0 THEN 0 ELSE u[i - 1] + Tokens[related[i].node]]
  BY <1>1, <1>7 DEF Eq
<1>10. u[0] = 0 /\ \A k \in 1..n : u[k] = u[k - 1] + Tokens[related[k].node]
  <2>1. 0 \in 0..n /\ \A k \in 1..n : k \in 0..n /\ k # 0
    OBVIOUS
  <2> QED
    BY <1>9, <2>1
<1>11. u \in [0..n -> Nat]
  <2> DEFINE S == {k \in 0..n : u[k] \in Nat}
  <2>1. 0 \in S
    BY <1>10
  <2>2. ASSUME NEW k \in 1..n, k - 1 \in S PROVE k \in S
    <3>1. u[k - 1] \in Nat /\ Tokens[related[k].node] \in Nat
      BY <1>2, <2>2
    <3> QED
      BY <1>10, <3>1
  <2> HIDE DEF S
  <2>3. \A k \in 0..n : k \in S
    BY <2>1, <2>2, UpTo
  <2>4. \A k \in 0..n : u[k] \in Nat
    BY <2>3 DEF S
  <2> QED
    BY <1>9, <2>4
<1>12. PICK m : m = Max(K)
  OBVIOUS
<1>13. K \in SUBSET Int /\ K # {} /\ n \in Int /\ \A k \in K : k <= n
  <2>1. 0 \in K
    OBVIOUS
  <2>2. \A k \in K : k \in 0..n
    OBVIOUS
  <2> HIDE DEF K
  <2>3. K \in SUBSET Int /\ \A k \in K : k <= n
    BY <2>2
  <2> QED
    BY <2>1, <2>3
<1>14. m \in K /\ \A k \in K : k <= m
  <2> HIDE DEF K
  <2> QED
    BY <1>12, <1>13, MaxIs
<1>15. m \in 0..n /\ \A i \in 1..m : ok(i)
  BY <1>14
<1>16. PICK shown : shown = SubSeq(related, 1, m)
  OBVIOUS
<1>17. shown \in Seq(G) /\ Len(shown) = m /\ DOMAIN shown = 1..m /\ \A i \in 1..m : shown[i] = related[i]
  BY <1>1, <1>15, <1>16
<1>18. IsPrefix(shown, related)
  <2>1. SubSeq(shown, 1, m) = shown
    BY <1>15, <1>17
  <2> QED
    BY <1>1, <1>15, <1>16, <1>17, <2>1 DEF IsPrefix
<1>19. Cost(shown) = u[m]
  <2>1. PICK w : w = [i \in 1..m |-> Tokens[shown[i].node]]
    OBVIOUS
  <2>2. m \in Nat /\ \A i \in 1..m : i \in 1..n /\ w[i] = Tokens[related[i].node] /\ w[i] \in Nat
    BY <1>2, <1>15, <1>17, <2>1
  <2>3. w \in [1..m -> Int]
    BY <2>1, <2>2
  <2>4. PICK v : v = [i \in 0..m |-> u[i]]
    OBVIOUS
  <2>5. \A i \in 0..m : i \in 0..n /\ v[i] = u[i] /\ v[i] \in Int
    BY <1>11, <1>15, <2>4
  <2>6. v \in [0..m -> Int] /\ v[0] = 0
    BY <1>10, <2>2, <2>4, <2>5
  <2>7. \A k \in 1..m : v[k] = v[k - 1] + w[k]
    <3> SUFFICES ASSUME NEW k \in 1..m PROVE v[k] = v[k - 1] + w[k]
      OBVIOUS
    <3>1. k \in 0..m /\ k - 1 \in 0..m /\ k \in 1..n
      BY <1>15
    <3>2. v[k] = u[k] /\ v[k - 1] = u[k - 1]
      BY <2>5, <3>1
    <3> QED
      BY <1>10, <2>2, <3>1, <3>2
  <2>8. SumFunction(w) = v[m]
    BY <2>2, <2>3, <2>6, <2>7, SumOfList
  <2>9. m \in 0..m
    BY <2>2
  <2> QED
    BY <1>17, <2>1, <2>5, <2>8, <2>9 DEF Cost
<1>20. u[m] <= budget
  <2>1. CASE m = 0
    BY <1>10, <2>1
  <2>2. CASE m # 0
    <3>1. m \in 1..m
      BY <1>15, <2>2
    <3> QED
      BY <1>15, <3>1
  <2> QED
    BY <2>1, <2>2
<1>21. ASSUME m < n PROVE u[m] + Tokens[related[m + 1].node] > budget
  <2>1. m + 1 \in 0..n /\ m + 1 \in 1..n /\ ~(m + 1 <= m)
    BY <1>15, <1>21
  <2>2. m + 1 \notin K
    <3> HIDE DEF K
    <3> QED
      BY <1>14, <2>1
  <2>3. PICK i \in 1..(m + 1) : ~ok(i)
    BY <2>1, <2>2
  <2>4. i = m + 1
    BY <1>15, <2>3
  <2>5. u[m + 1] \in Nat /\ ~(u[m + 1] <= budget)
    BY <1>11, <2>1, <2>3, <2>4
  <2>6. u[m + 1] = u[m] + Tokens[related[m + 1].node]
    <3>1. PICK k \in 1..n : k = m + 1 /\ k - 1 = m
      BY <1>15, <2>1
    <3> QED
      BY <1>10, <3>1
  <2> QED
    BY <2>5, <2>6
<1>22. FormatRelated(related, budget) = shown
  BY <1>8, <1>12, <1>16
<1> HIDE DEF ok, K
<1> QED
  BY <1>1, <1>17, <1>18, <1>19, <1>20, <1>21, <1>22 DEF Fits

LEMMA ClampIs == ASSUME NEW depth \in Int PROVE ClampDepth(depth) \in Nat \ {0}
<1>1. CASE depth <= 0
  BY <1>1 DEF ClampDepth
<1>2. CASE depth > 0
  <2>1. PICK P : P = {depth, 5}
    OBVIOUS
  <2>2. P \in SUBSET Nat /\ P # {} /\ 0 \notin P
    BY <1>2, <2>1
  <2>3. Min(P) \in P
    BY <2>2, MinIs
  <2> QED
    BY <1>2, <2>1, <2>2, <2>3 DEF ClampDepth
<1> QED
  BY <1>1, <1>2

LEMMA RelatedIs ==
  ASSUME GraphInv, NEW a \in Alive, NEW direction \in Directions, NEW min, NEW d \in Nat \ {0},
         NEW limit \in Nat, NEW answer \in GetRelatedNodes(a, direction, min, d, limit)
  PROVE  /\ Reached(answer, a, direction, min, d)
         /\ Ranked(answer, a, direction, min, d)
         /\ Complete(answer, a, direction, min, d, limit)
         /\ \E G : answer \in Seq(G) /\ \A g \in G : g.node \in Node
<1>1. PICK rows : rows = RelatedQuery(a, direction, min, d)
  OBVIOUS
<1>2. PICK G : G = Grouped(rows, a)
  OBVIOUS
<1>3. PICK order \in SetToSeqs(G) :
        /\ \A i, j \in DOMAIN order : i < j => order[i].weight >= order[j].weight
        /\ answer = SubSeq(order, 1, Min({limit, Len(order)}))
  BY <1>1, <1>2 DEF GetRelatedNodes
<1>4. /\ AreQueryRows(rows, d)
      /\ \A k \in 0..d :
           Around(a, direction, min, k) = {a} \cup {r.node : r \in {r \in rows : r.hop <= k}}
      /\ \A n : PathWeights(a, direction, min, d, n) = {r.weight : r \in {r \in rows : r.node = n}}
  BY <1>1, QueryIs
<1>5. Alive \subseteq Node
  BY DEF GraphInv
<1>6. AreGroups(G, rows, a)
  BY <1>2, <1>4, <1>5, GroupedIs
<1>7. /\ \A g \in G : /\ g.node \in Others(rows, a) /\ g.weight \in Int
                      /\ \E r \in rows : r.node = g.node /\ r.hop = g.hop
                      /\ \E r \in rows : r.node = g.node /\ r.weight = g.weight
                      /\ \A r \in rows : r.node = g.node => g.hop <= r.hop /\ r.weight <= g.weight
      /\ \A g, h \in G : g.node = h.node => g = h
      /\ \A n \in Others(rows, a) : \E g \in G : g.node = n
      /\ IsFiniteSet(G) /\ Cardinality(G) = Cardinality(Others(rows, a))
  BY <1>6 DEF AreGroups
<1>8. IsAnswer(answer, G, limit)
  BY <1>3, <1>7, AnswerIs
<1>9. /\ answer \in Seq(G)
      /\ Len(answer) = Min({limit, Cardinality(G)})
      /\ \A i, j \in 1..Len(answer) : answer[i] = answer[j] => i = j
      /\ \A i, j \in 1..Len(answer) : i < j => answer[i].weight >= answer[j].weight
      /\ \A g \in G : \/ \E i \in 1..Len(answer) : answer[i] = g
                      \/ Len(answer) > 0 => g.weight <= answer[Len(answer)].weight
  BY <1>8 DEF IsAnswer
<1>10. PICK n \in Nat : n = Len(answer) /\ DOMAIN answer = 1..n
  BY <1>9
<1>11. \A i \in 1..n : answer[i] \in G
  BY <1>9, <1>10
<1>12. \A r : r \in ToSet(answer) <=> \E i \in 1..n : answer[i] = r
  BY <1>10 DEF ToSet
<1>13. Others(rows, a) = Around(a, direction, min, d) \ {a}
  <2>1. d \in 0..d /\ \A r \in rows : r.hop <= d
    BY <1>4 DEF AreQueryRows
  <2>2. Around(a, direction, min, d) = {a} \cup {r.node : r \in {r \in rows : r.hop <= d}}
    BY <1>4, <2>1
  <2> QED
    BY <2>1, <2>2 DEF Others
<1>14. Reached(answer, a, direction, min, d)
  <2>1. {r.node : r \in ToSet(answer)} \subseteq Around(a, direction, min, d) \ {a}
    BY <1>7, <1>11, <1>12, <1>13
  <2>2. ASSUME NEW i \in 1..n, NEW j \in 1..n, answer[i].node = answer[j].node PROVE i = j
    <3>1. answer[i] = answer[j]
      BY <1>7, <1>11, <2>2
    <3> QED
      BY <1>9, <1>10, <3>1
  <2>3. ASSUME NEW g \in ToSet(answer)
        PROVE  /\ g.node \in Around(a, direction, min, g.hop)
               /\ g.node \notin Around(a, direction, min, g.hop - 1)
    <3>1. g \in G
      BY <1>11, <1>12
    <3>2. PICK r \in rows : r.node = g.node /\ r.hop = g.hop
      BY <1>7, <3>1
    <3>3. PICK k \in 1..d : k = g.hop /\ k \in 0..d /\ k - 1 \in 0..d
      BY <1>4, <3>2 DEF AreQueryRows
    <3>4. g.node \in Around(a, direction, min, k)
      BY <1>4, <3>2, <3>3
    <3>5. g.node # a
      BY <1>7, <3>1 DEF Others
    <3>6. ASSUME NEW q \in rows, q.hop <= k - 1, q.node = g.node PROVE FALSE
      <4>1. k <= q.hop /\ q.hop \in Int
        BY <1>4, <1>7, <3>1, <3>3, <3>6 DEF AreQueryRows
      <4> QED
        BY <3>6, <4>1
    <3>7. g.node \notin Around(a, direction, min, k - 1)
      BY <1>4, <3>3, <3>5, <3>6
    <3> QED
      BY <3>3, <3>4, <3>7
  <2> QED
    BY <1>10, <2>1, <2>2, <2>3 DEF Reached
<1>15. \A g \in G : Heaviest(g.weight, PathWeights(a, direction, min, d, g.node))
  <2> SUFFICES ASSUME NEW g \in G
               PROVE  Heaviest(g.weight, PathWeights(a, direction, min, d, g.node))
    OBVIOUS
  <2>1. PathWeights(a, direction, min, d, g.node) = {r.weight : r \in {r \in rows : r.node = g.node}}
    BY <1>4
  <2>2. g.weight \in PathWeights(a, direction, min, d, g.node)
    BY <1>7, <2>1
  <2>3. \A w \in PathWeights(a, direction, min, d, g.node) : w <= g.weight
    BY <1>7, <2>1
  <2> QED
    BY <2>2, <2>3 DEF Heaviest
<1>16. Ranked(answer, a, direction, min, d)
  <2>1. \A i, j \in DOMAIN answer : i < j => answer[i].weight >= answer[j].weight
    <3>1. DOMAIN answer = 1..Len(answer)
      BY <1>10
    <3> QED
      BY <1>9, <3>1
  <2>2. \A r \in ToSet(answer) : Heaviest(r.weight, PathWeights(a, direction, min, d, r.node))
    BY <1>11, <1>12, <1>15
  <2> QED
    BY <2>1, <2>2 DEF Ranked
<1>17. Complete(answer, a, direction, min, d, limit)
  <2>1. Len(answer) = Min({limit, Cardinality(Around(a, direction, min, d) \ {a})})
    BY <1>7, <1>9, <1>13
  <2>2. ASSUME NEW x \in (Around(a, direction, min, d) \ {a}) \ {r.node : r \in ToSet(answer)},
               NEW w \in PathWeights(a, direction, min, d, x), NEW r \in ToSet(answer)
        PROVE  w <= r.weight
    <3>1. PICK g \in G : g.node = x
      BY <1>7, <1>13
    <3>2. w <= g.weight
      BY <1>15, <3>1 DEF Heaviest
    <3>3. w \in Int /\ g.weight \in Int
      BY <1>4, <1>7 DEF AreQueryRows
    <3>4. PICK i \in 1..n : answer[i] = r
      BY <1>12
    <3>5. ~\E j \in 1..n : answer[j] = g
      BY <1>12, <2>2, <3>1
    <3>6. n > 0 /\ n \in 1..n /\ g.weight <= answer[n].weight
      <4>1. n > 0 /\ n \in 1..n
        BY <3>4
      <4>2. \/ \E j \in 1..Len(answer) : answer[j] = g
            \/ Len(answer) > 0 => g.weight <= answer[Len(answer)].weight
        BY <1>9
      <4> QED
        BY <1>10, <3>5, <4>1, <4>2
    <3>7. answer[n].weight \in Int /\ r.weight \in Int
      BY <1>7, <1>11, <3>4, <3>6
    <3>8. r.weight >= answer[n].weight
      <4>1. CASE i = n
        BY <3>4, <3>7, <4>1
      <4>2. CASE i # n
        <5>1. i < n /\ i \in 1..Len(answer) /\ n \in 1..Len(answer)
          BY <1>10, <3>6, <4>2
        <5> QED
          BY <1>9, <3>4, <5>1
      <4> QED
        BY <4>1, <4>2
    <3> QED
      BY <3>2, <3>3, <3>6, <3>7, <3>8
  <2> QED
    BY <2>1, <2>2 DEF Complete
<1>18. \A g \in G : g.node \in Node
  BY <1>4, <1>5, <1>7 DEF AreQueryRows, Others
<1> QED
  BY <1>9, <1>14, <1>16, <1>17, <1>18

LEMMA BudgetIs == ASSUME NEW budget \in Int PROVE ResolveBudget(budget) \in Nat \ {0}
  BY WalkAssumption DEF ResolveBudget

\* Whatever graph compiles, deletions, rollbacks and manual edges have left, MemoryRelated answers
\* with the nodes within the depth of its anchor, each at its distance and with the weight of the
\* heaviest path to it, heaviest first; a limit leaves out none that is heavier, and what is
\* printed is what fits the budget, up to the first row that would go over it.
THEOREM RelatedIsRight == Spec => []RelatedRight
<1>1. GraphInv => RelatedRight
  <2> SUFFICES ASSUME GraphInv, NEW a \in Alive, NEW direction \in Directions, NEW min \in WeightMins,
                      NEW depth \in Depths, NEW limit \in Limits, NEW budget \in Budgets,
                      NEW answer \in HandleRelated(a, direction, min, depth, limit, budget)
               PROVE  /\ Reached(answer.warmed, a, direction, min, ClampDepth(depth))
                      /\ Ranked(answer.warmed, a, direction, min, ClampDepth(depth))
                      /\ Complete(answer.warmed, a, direction, min, ClampDepth(depth), limit)
                      /\ Fits(answer, ResolveBudget(budget))
    BY DEF RelatedRight
  <2>1. PICK related \in GetRelatedNodes(a, direction, min, ClampDepth(depth), limit) :
          answer = [warmed |-> related, shown |-> FormatRelated(related, ResolveBudget(budget))]
    BY DEF HandleRelated
  <2>2. depth \in Int /\ limit \in Nat /\ budget \in Int
    BY WalkAssumption
  <2>3. PICK d \in Nat \ {0} : d = ClampDepth(depth)
    BY <2>2, ClampIs
  <2>4. /\ Reached(related, a, direction, min, d)
        /\ Ranked(related, a, direction, min, d)
        /\ Complete(related, a, direction, min, d, limit)
        /\ \E G : related \in Seq(G) /\ \A g \in G : g.node \in Node
    BY <2>1, <2>2, <2>3, RelatedIs
  <2>5. PICK b \in Nat \ {0} : b = ResolveBudget(budget)
    BY <2>2, BudgetIs
  <2>6. Fits(answer, b)
    BY <2>1, <2>4, <2>5, FormatIs
  <2>7. answer.warmed = related
    BY <2>1
  <2> QED
    BY <2>3, <2>4, <2>5, <2>6, <2>7
<1> QED
  BY <1>1, GraphHolds, PTL
=============================================================================
