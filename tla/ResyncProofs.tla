---------------------------- MODULE ResyncProofs ----------------------------
(***************************************************************************)
(* Paging is lossless, for any finite set of nodes, any contents, page      *)
(* sizes and number of snapshots.                                          *)
(***************************************************************************)
EXTENDS Resync, FiniteSetTheorems, SequenceTheorems, TLAPS

-----------------------------------------------------------------------------
(* Least elements and induction.                                           *)

\* A non-empty set of natural numbers has a least element.
LEMMA LeastNat ==
  ASSUME NEW S \in SUBSET Nat, S # {}
  PROVE  \E m \in S : \A k \in S : m <= k
<1>1. PICK m \in S : \A k \in S : ~(<<k, m>> \in OpToRel(<, Nat))
  BY NatLessThanWellFounded, WFMin
<1>2. \A k \in S : ~(k < m)
  BY <1>1 DEF OpToRel
<1> QED
  BY <1>2

\* A set of natural numbers with 0, and with n + 1 when it has n, is all of Nat.
LEMMA SetInduction ==
  ASSUME NEW S \in SUBSET Nat, 0 \in S, \A n \in S : n + 1 \in S
  PROVE  S = Nat
<1> SUFFICES ASSUME Nat \ S # {} PROVE FALSE
  OBVIOUS
<1>1. PICK m \in Nat \ S : \A k \in Nat \ S : m <= k
  BY LeastNat
<1>2. m # 0 /\ m - 1 \in Nat /\ m - 1 \in S
  BY <1>1
<1> QED
  BY <1>1, <1>2

LEMMA MaxOfTwo ==
  ASSUME NEW a \in Nat, NEW b \in Nat
  PROVE  Max({a, b}) = IF a >= b THEN a ELSE b
<1>1. \E x \in {a, b} : \A y \in {a, b} : x >= y
  OBVIOUS
<1>2. Max({a, b}) \in {a, b} /\ \A y \in {a, b} : Max({a, b}) >= y
  BY <1>1 DEF Max
<1> QED
  BY <1>2

-----------------------------------------------------------------------------
(* RowsOf.                                                                 *)

\* r, of rows in Row, has the rows of ds up to n whose snapshots are in S, each where e says it is in ds.
Picks(Row, r, e, ds, n, S) ==
  /\ r \in Seq(Row)
  /\ e \in [1..Len(r) -> 1..n]
  /\ \A i \in 1..Len(r) : r[i] = ds[e[i]] /\ ds[e[i]].snapshot \in S
  /\ \A i, j \in 1..Len(r) : i < j => e[i] < e[j]
  /\ \A x \in 1..n : ds[x].snapshot \in S => \E i \in 1..Len(r) : e[i] = x

\* The sequences RowsOf goes through.
IsRows(rows, ds, S) ==
  rows = [i \in 0..Len(ds) |->
            IF i = 0 THEN <<>>
            ELSE IF ds[i].snapshot \in S THEN Append(rows[i - 1], ds[i]) ELSE rows[i - 1]]

LEMMA RowsExist ==
  ASSUME NEW Row, NEW ds \in Seq(Row), NEW S
  PROVE  \E rows : IsRows(rows, ds, S)
<1> DEFINE Step(f, i) == IF i = 0 THEN <<>>
                         ELSE IF ds[i].snapshot \in S THEN Append(f[i - 1], ds[i]) ELSE f[i - 1]
           IsPart(f, n) == DOMAIN f = 0..n /\ \A i \in 0..n : f[i] = Step(f, i)
           T == {n \in Nat : \E f : f = [i \in 0..n |-> f[i]] /\ IsPart(f, n)}
<1>1. 0 \in T
  <2> DEFINE f == [i \in 0..0 |-> <<>>]
  <2>1. f = [i \in 0..0 |-> f[i]] /\ IsPart(f, 0)
    OBVIOUS
  <2> QED
    BY <2>1
<1>2. ASSUME NEW n \in T PROVE n + 1 \in T
  <2>1. PICK f : f = [i \in 0..n |-> f[i]] /\ IsPart(f, n)
    OBVIOUS
  <2> DEFINE last == IF ds[n + 1].snapshot \in S THEN Append(f[n], ds[n + 1]) ELSE f[n]
             g == [i \in 0..(n + 1) |-> IF i = n + 1 THEN last ELSE f[i]]
  <2>2. g = [i \in 0..(n + 1) |-> g[i]] /\ DOMAIN g = 0..(n + 1)
    OBVIOUS
  <2>3. ASSUME NEW i \in 0..(n + 1) PROVE g[i] = Step(g, i)
    <3>1. CASE i = n + 1
      <4>1. i - 1 = n /\ i - 1 # n + 1 /\ i - 1 \in 0..(n + 1) /\ i # 0
        BY <3>1
      <4>2. g[i - 1] = f[n] /\ g[i] = last
        BY <3>1, <4>1
      <4> HIDE DEF g
      <4> QED
        BY <3>1, <4>1, <4>2
    <3>2. CASE i # n + 1
      <4>1. i \in 0..n /\ (i # 0 => i - 1 # n + 1 /\ i - 1 \in 0..(n + 1))
        BY <3>2
      <4>2. g[i] = f[i] /\ (i # 0 => g[i - 1] = f[i - 1])
        BY <3>2, <4>1
      <4>3. f[i] = Step(f, i)
        BY <2>1, <4>1
      <4> HIDE DEF g
      <4> QED
        BY <4>2, <4>3
    <3> QED
      BY <3>1, <3>2
  <2> HIDE DEF g
  <2>4. IsPart(g, n + 1)
    BY <2>2, <2>3, Zenon
  <2>5. n + 1 \in Nat
    OBVIOUS
  <2> QED
    BY <2>2, <2>4, <2>5
<1> HIDE DEF T
<1>3. Len(ds) \in T
  <2>1. T \in SUBSET Nat
    BY DEF T
  <2>2. T = Nat
    BY <1>1, <1>2, <2>1, SetInduction
  <2> QED
    BY <2>2
<1>4. PICK f : f = [i \in 0..Len(ds) |-> f[i]] /\ IsPart(f, Len(ds))
  BY <1>3 DEF T
<1>5. IsRows(f, ds, S)
  BY <1>4 DEF IsRows
<1> QED
  BY <1>5

\* One row more.
LEMMA PicksMore ==
  ASSUME NEW Row, NEW ds \in Seq(Row), NEW S, NEW n \in Nat, n + 1 <= Len(ds), NEW r, NEW e, Picks(Row, r, e, ds, n, S)
  PROVE  \E f : Picks(Row, IF ds[n + 1].snapshot \in S THEN Append(r, ds[n + 1]) ELSE r, f, ds, n + 1, S)
<1>1. ds[n + 1] \in Row /\ Len(r) \in Nat /\ r \in Seq(Row)
  BY DEF Picks
<1>2. CASE ds[n + 1].snapshot \notin S
  <2>1. e \in [1..Len(r) -> 1..(n + 1)]
    BY DEF Picks
  <2>2. Picks(Row, r, e, ds, n + 1, S)
    BY <1>2, <2>1 DEF Picks
  <2> QED
    BY <1>2, <2>2
<1>3. CASE ds[n + 1].snapshot \in S
  <2> DEFINE q == Append(r, ds[n + 1])
             f == [i \in 1..Len(q) |-> IF i = Len(q) THEN n + 1 ELSE e[i]]
  <2>1. q \in Seq(Row) /\ Len(q) = Len(r) + 1 /\ q[Len(q)] = ds[n + 1]
        /\ \A i \in 1..Len(r) : q[i] = r[i]
    BY <1>1
  <2> HIDE DEF q
  <2>2. \A i \in 1..Len(q) : i # Len(q) => i \in 1..Len(r) /\ f[i] = e[i] /\ e[i] \in 1..n
    <3> SUFFICES ASSUME NEW i \in 1..Len(q), i # Len(q)
                 PROVE  i \in 1..Len(r) /\ f[i] = e[i] /\ e[i] \in 1..n
      OBVIOUS
    <3>1. i \in 1..Len(r)
      BY <1>1, <2>1
    <3>2. e[i] \in 1..n
      BY <3>1 DEF Picks
    <3>3. f[i] = e[i]
      OBVIOUS
    <3> QED
      BY <3>1, <3>2, <3>3
  <2>3. Len(q) \in 1..Len(q) /\ f[Len(q)] = n + 1
    BY <1>1, <2>1
  <2>4. f \in [1..Len(q) -> 1..(n + 1)]
    BY <1>1, <2>2, <2>3
  <2>5. \A i \in 1..Len(q) : q[i] = ds[f[i]] /\ ds[f[i]].snapshot \in S
    BY <1>3, <2>1, <2>2, <2>3 DEF Picks
  <2>6. \A i, j \in 1..Len(q) : i < j => f[i] < f[j]
    <3> SUFFICES ASSUME NEW i \in 1..Len(q), NEW j \in 1..Len(q), i < j PROVE f[i] < f[j]
      OBVIOUS
    <3>1. i # Len(q) /\ i \in 1..Len(r) /\ f[i] = e[i] /\ e[i] \in 1..n
      BY <1>1, <2>1, <2>2
    <3>2. CASE j = Len(q)
      BY <2>3, <3>1, <3>2
    <3>3. CASE j # Len(q)
      BY <2>2, <3>1, <3>3 DEF Picks
    <3> QED
      BY <3>2, <3>3
  <2>7. \A x \in 1..(n + 1) : ds[x].snapshot \in S => \E i \in 1..Len(q) : f[i] = x
    <3> SUFFICES ASSUME NEW x \in 1..(n + 1), ds[x].snapshot \in S PROVE \E i \in 1..Len(q) : f[i] = x
      OBVIOUS
    <3>1. CASE x = n + 1
      BY <2>3, <3>1
    <3>2. CASE x # n + 1
      <4>1. PICK i \in 1..Len(r) : e[i] = x
        BY <3>2 DEF Picks
      <4>2. i \in 1..Len(q) /\ i # Len(q)
        BY <1>1, <2>1
      <4> QED
        BY <2>2, <4>1, <4>2
    <3> QED
      BY <3>1, <3>2
  <2> HIDE DEF f
  <2>8. Picks(Row, q, f, ds, n + 1, S)
    BY <2>1, <2>4, <2>5, <2>6, <2>7 DEF Picks
  <2> QED
    BY <1>3, <2>8 DEF q
<1> QED
  BY <1>2, <1>3

\* RowsOf has the rows of the snapshots, in their order, and no others.
LEMMA RowsOfPicks ==
  ASSUME NEW Row, NEW ds \in Seq(Row), NEW S
  PROVE  \E e : Picks(Row, RowsOf(ds, S), e, ds, Len(ds), S)
<1> DEFINE rows == CHOOSE rows : IsRows(rows, ds, S)
<1>1. IsRows(rows, ds, S)
  BY RowsExist
<1>2. RowsOf(ds, S) = rows[Len(ds)]
  BY DEF RowsOf, IsRows
<1> HIDE DEF rows
<1>3. \A i \in 0..Len(ds) :
        rows[i] = IF i = 0 THEN <<>>
                  ELSE IF ds[i].snapshot \in S THEN Append(rows[i - 1], ds[i]) ELSE rows[i - 1]
  BY <1>1 DEF IsRows
<1> DEFINE T == {n \in Nat : n <= Len(ds) => \E e : Picks(Row, rows[n], e, ds, n, S)}
<1>4. 0 \in T
  <2>1. rows[0] = <<>>
    BY <1>3
  <2>2. Picks(Row, <<>>, <<>>, ds, 0, S)
    BY DEF Picks
  <2> QED
    BY <2>1, <2>2
<1>5. ASSUME NEW n \in T PROVE n + 1 \in T
  <2> SUFFICES ASSUME n + 1 <= Len(ds) PROVE \E e : Picks(Row, rows[n + 1], e, ds, n + 1, S)
    <3>1. n + 1 \in Nat
      OBVIOUS
    <3> QED
      BY <3>1
  <2>1. n \in Nat /\ n <= Len(ds) /\ n + 1 \in 0..Len(ds) /\ n + 1 # 0 /\ (n + 1) - 1 = n
    OBVIOUS
  <2>2. PICK e : Picks(Row, rows[n], e, ds, n, S)
    BY <2>1
  <2>3. rows[n + 1] = IF ds[n + 1].snapshot \in S THEN Append(rows[n], ds[n + 1]) ELSE rows[n]
    BY <1>3, <2>1
  <2> QED
    BY <2>1, <2>2, <2>3, PicksMore
<1> HIDE DEF T
<1>6. T = Nat
  <2>1. T \in SUBSET Nat
    BY DEF T
  <2> QED
    BY <1>4, <1>5, <2>1, SetInduction
<1>7. Len(ds) \in Nat /\ Len(ds) <= Len(ds)
  OBVIOUS
<1> QED
  BY <1>2, <1>6, <1>7 DEF T

-----------------------------------------------------------------------------
(* The invariant.                                                          *)

Sorted(ds) == \A i, j \in 1..Len(ds) : i < j => ds[i].snapshot <= ds[j].snapshot

TrailInv ==
  /\ seq \in Nat
  /\ snaps \in SUBSET (1..seq)
  /\ seq > 0 => seq \in snaps
  /\ \E Row : diffs \in Seq(Row)
  /\ \A i \in 1..Len(diffs) : diffs[i].snapshot \in snaps
  /\ Sorted(diffs)
  /\ \A n \in Node : world[seq][n] = content[n]

ClientInv ==
  /\ since \in 0..seq
  /\ fetched \in [Node -> 0..seq]
  /\ limit \in 1..PageCap
  /\ diffing \in 0..seq
  /\ diffing # 0 => since < diffing

\* No row of a node is after snapshot k and not after snapshot t.
Silent(n, k, t) ==
  \A i \in 1..Len(diffs) :
    diffs[i].node = n /\ k < diffs[i].snapshot => ~(diffs[i].snapshot <= t)

\* What the client knows of a node it is not told of is what each snapshot committed that it
\* could have heard of the node from and has no row for it, the head included.
KnowsInv ==
  \A n \in Node \ (told \cup unrowed), k \in 0..seq, t \in snaps \cup {0} :
    k = KnownAt(n) /\ k <= t /\ Silent(n, k, t) => view[n] = world[t][n]

ResyncInv == TrailInv /\ ClientInv /\ KnowsInv

LEMMA RowsTyped ==
  ASSUME TrailInv
  PROVE  /\ seq \in Nat /\ \A s \in snaps : s \in Nat /\ 1 <= s /\ s <= seq
         /\ \A i \in 1..Len(diffs) : /\ diffs[i].snapshot \in snaps
                                      /\ diffs[i].snapshot \in Nat
                                      /\ diffs[i].snapshot <= seq
         /\ Len(diffs) \in Nat /\ DOMAIN diffs = 1..Len(diffs)
         /\ seq \in snaps \cup {0}
<1>1. seq \in Nat /\ snaps \subseteq 1..seq /\ (seq = 0 \/ seq > 0)
  BY DEF TrailInv
<1>2. \A s \in snaps : s \in Nat /\ 1 <= s /\ s <= seq
  BY <1>1
<1>3. PICK Row : diffs \in Seq(Row)
  BY DEF TrailInv
<1>4. Len(diffs) \in Nat /\ DOMAIN diffs = 1..Len(diffs)
  BY <1>3
<1>5. seq \in snaps \cup {0}
  BY <1>1 DEF TrailInv
<1> QED
  BY <1>1, <1>2, <1>4, <1>5 DEF TrailInv

LEMMA KnownIs ==
  ASSUME TrailInv, ClientInv, NEW n \in Node
  PROVE  /\ KnownAt(n) \in 0..seq
         /\ KnownAt(n) = IF since >= fetched[n] THEN since ELSE fetched[n]
<1>1. since \in Nat /\ fetched[n] \in Nat /\ seq \in Nat
  BY DEF TrailInv, ClientInv
<1>2. KnownAt(n) = IF since >= fetched[n] THEN since ELSE fetched[n]
  BY <1>1, MaxOfTwo DEF KnownAt
<1> QED
  BY <1>1, <1>2 DEF ClientInv

-----------------------------------------------------------------------------
(* Writers.                                                                *)

\* A row in snapshot s for each node of a set, and for no other.
NewRows(Row, s, rowed, new) ==
  /\ new \in Seq(Row)
  /\ \A i \in 1..Len(new) : new[i].snapshot = s /\ new[i].node \in rowed
  /\ \A n \in rowed : \E i \in 1..Len(new) : new[i].node = n

LEMMA NewRowsAre ==
  ASSUME NEW rowed \in SUBSET Node, NEW id, NEW intended, NEW blind, NEW Row,
         \A n \in rowed : RowFor(id, n, intended, blind) \in Row
  PROVE  NewRows(Row, id, rowed, SetToSeq({RowFor(id, n, intended, blind) : n \in rowed}))
<1> DEFINE S == {RowFor(id, n, intended, blind) : n \in rowed}
           s == SetToSeq(S)
<1>1. IsFiniteSet(rowed)
  BY ResyncAssumption, FS_Subset
<1>2. S \subseteq Row
  OBVIOUS
<1>3. PICK n \in Nat : n = Cardinality(S) /\ IsFiniteSet(S) /\ ExistsBijection(1..n, S)
  <2>1. [x \in rowed |-> RowFor(id, x, intended, blind)] \in Surjection(rowed, S)
    BY DEF Surjection
  <2>2. IsFiniteSet(S)
    BY <1>1, <2>1, FS_Surjection
  <2> QED
    BY <2>2, FS_CardinalityType
<1>4. PICK f : f \in Bijection(1..n, S)
  BY <1>3 DEF ExistsBijection
<1>5. f \in [1..n -> S] /\ IsInjective(f)
  BY <1>4 DEF Bijection, Injection
<1> HIDE DEF S
<1>6. s \in [1..n -> S] /\ IsInjective(s)
  BY <1>3, <1>5 DEF SetToSeq
<1> HIDE DEF s
<1>7. s \in Seq(Row) /\ Len(s) = n
  BY <1>2, <1>6
<1>8. Cardinality(1..n) = n
  <2>1. 1 \in Int /\ n \in Int
    BY <1>3
  <2>2. Cardinality(1..n) = IF 1 > n THEN 0 ELSE n - 1 + 1
    BY <2>1, FS_Interval
  <2> QED
    BY <1>3, <2>2
<1>9. s \in Surjection(1..n, S)
  <2>1. s \in Injection(1..n, S)
    BY <1>6 DEF Injection
  <2> QED
    BY <1>3, <1>8, <2>1, FS_Injection
<1>10. \A i \in 1..n : s[i] \in S
  BY <1>6
<1>11. \A x \in S : \E i \in 1..n : s[i] = x
  BY <1>9 DEF Surjection
<1>12. \A x \in S : x.snapshot = id /\ x.node \in rowed
  BY DEF S, RowFor
<1>13. \A x \in rowed : \E i \in 1..n : s[i].node = x
  <2> SUFFICES ASSUME NEW x \in rowed PROVE \E i \in 1..n : s[i].node = x
    OBVIOUS
  <2>1. RowFor(id, x, intended, blind) \in S /\ RowFor(id, x, intended, blind).node = x
    BY DEF S, RowFor
  <2> QED
    BY <1>11, <2>1
<1>14. NewRows(Row, id, rowed, s)
  BY <1>7, <1>10, <1>12, <1>13 DEF NewRows
<1> QED
  BY <1>14 DEF s, S

\* What Land leaves: the rows of the snapshots up to t, which are all of them or end a
\* rollback's target, and the new ones, for the nodes in rowed; of the others, those in
\* `taken` alone changed.
Landed(Row, t, r, e, new, rowed, taken, orphans) ==
  /\ t \in 0..seq
  /\ seq' = seq + 1
  /\ snaps' = {s \in snaps : s <= t} \cup {seq + 1}
  /\ Picks(Row, r, e, diffs, Len(diffs), {s \in snaps : s <= t})
  /\ NewRows(Row, seq + 1, rowed, new)
  /\ diffs' = r \o new
  /\ \A n \in Node : n \notin rowed \cup taken => content'[n] = content[n]
  /\ unrowed' = unrowed \cup ((taken \cup orphans) \ rowed)
  /\ \A s \in snaps' \cup {0} : world'[s] = IF s = seq + 1 THEN content' ELSE world[s]
  /\ UNCHANGED clientVars

LEMMA LandLands ==
  ASSUME TrailInv, NEW intended, NEW blind \in SUBSET Node, NEW t \in 0..seq, NEW orphans,
         Land(intended, blind, {s \in snaps : s <= t}, orphans)
  PROVE  \E Row, r, e, new, taken :
           Landed(Row, t, r, e, new, Changed(intended) \cup blind, taken, orphans)
<1> DEFINE kept == {s \in snaps : s <= t}
           rowed == Changed(intended) \cup blind
           fresh == {RowFor(seq + 1, n, intended, blind) : n \in rowed}
<1>1. PICK Old : diffs \in Seq(Old)
  BY DEF TrailInv
<1>2. PICK Row : Row = Old \cup fresh
  OBVIOUS
<1>3. diffs \in Seq(Row)
  <2>1. Len(diffs) \in Nat /\ diffs = [i \in 1..Len(diffs) |-> diffs[i]]
    BY <1>1
  <2>2. \A i \in 1..Len(diffs) : diffs[i] \in Row
    BY <1>1, <1>2
  <2> QED
    BY <2>1, <2>2
<1>4. PICK e : Picks(Row, RowsOf(diffs, kept), e, diffs, Len(diffs), kept)
  BY <1>3, RowsOfPicks
<1>5. rowed \in SUBSET Node
  BY DEF Changed
<1>6. \A n \in rowed : RowFor(seq + 1, n, intended, blind) \in Row
  BY <1>2
<1>7. NewRows(Row, seq + 1, rowed, SetToSeq(fresh))
  BY <1>5, <1>6, NewRowsAre
<1>8. PICK taken : /\ content' = [n \in Node |-> IF n \in taken THEN Gone ELSE intended[n]]
                   /\ unrowed' = unrowed \cup ((taken \cup orphans) \ rowed)
  BY DEF Land
<1>9. \A n \in Node : n \notin rowed \cup taken => content'[n] = content[n]
  BY <1>8 DEF Changed
<1>10. /\ seq' = seq + 1 /\ snaps' = kept \cup {seq + 1}
       /\ diffs' = RowsOf(diffs, kept) \o SetToSeq(fresh)
       /\ UNCHANGED clientVars
  BY DEF Land, NextId
<1>11. \A s \in snaps' \cup {0} : world'[s] = IF s = seq + 1 THEN content' ELSE world[s]
  BY DEF Land, NextId
<1> HIDE DEF kept, rowed, fresh
<1>12. Landed(Row, t, RowsOf(diffs, kept), e, SetToSeq(fresh), rowed, taken, orphans)
  BY <1>4, <1>7, <1>8, <1>9, <1>10, <1>11, Zenon DEF Landed, kept
<1> QED
  BY <1>12, Zenon DEF rowed

\* Where a row of the new trail comes from.
LEMMA RowsFrom ==
  ASSUME TrailInv, NEW Row, NEW t, NEW r, NEW e, NEW new, NEW rowed, NEW taken, NEW orphans,
         Landed(Row, t, r, e, new, rowed, taken, orphans)
  PROVE  /\ diffs' \in Seq(Row) /\ Len(diffs') = Len(r) + Len(new)
         /\ Len(r) \in Nat /\ Len(new) \in Nat
         /\ \A i \in 1..Len(r) : diffs'[i] = diffs[e[i]] /\ e[i] \in 1..Len(diffs)
         /\ \A i \in 1..Len(new) : diffs'[Len(r) + i] = new[i]
         /\ \A i \in 1..Len(diffs') : i \in 1..Len(r) \/ i - Len(r) \in 1..Len(new)
<1>1. r \in Seq(Row) /\ new \in Seq(Row) /\ diffs' = r \o new
  BY DEF Landed, Picks, NewRows
<1>2. diffs' \in Seq(Row) /\ Len(diffs') = Len(r) + Len(new) /\ Len(r) \in Nat /\ Len(new) \in Nat
  BY <1>1
<1>3. \A i \in 1..Len(r) : diffs'[i] = r[i]
  BY <1>1
<1>4. \A i \in 1..Len(new) : diffs'[Len(r) + i] = new[i]
  BY <1>1
<1>5. \A i \in 1..Len(r) : r[i] = diffs[e[i]] /\ e[i] \in 1..Len(diffs)
  BY DEF Landed, Picks
<1> QED
  BY <1>2, <1>3, <1>4, <1>5

LEMMA LandTrail ==
  ASSUME TrailInv, NEW Row, NEW t, NEW r, NEW e, NEW new, NEW rowed, NEW taken, NEW orphans,
         Landed(Row, t, r, e, new, rowed, taken, orphans)
  PROVE  TrailInv'
<1>1. seq \in Nat /\ seq' = seq + 1 /\ snaps' = {s \in snaps : s <= t} \cup {seq'}
  BY DEF TrailInv, Landed
<1>2. seq' \in Nat /\ snaps' \in SUBSET (1..seq') /\ seq' \in snaps'
  <2>1. seq' \in Nat /\ seq' \in 1..seq'
    BY <1>1
  <2>2. \A s \in snaps : s \in 1..seq'
    BY <1>1, RowsTyped
  <2> QED
    BY <1>1, <2>1, <2>2
<1>3. world'[seq'] = content'
  BY <1>1, <1>2 DEF Landed
<1>4. ASSUME NEW i \in 1..Len(r)
      PROVE  diffs'[i].snapshot \in snaps' /\ diffs'[i].snapshot \in Nat /\ diffs'[i].snapshot <= seq
  <2>1. diffs'[i] = diffs[e[i]] /\ e[i] \in 1..Len(diffs)
    BY RowsFrom
  <2>2. diffs[e[i]].snapshot \in {s \in snaps : s <= t}
    BY DEF Landed, Picks
  <2> QED
    BY <1>1, <2>1, <2>2, RowsTyped
<1>5. \A i \in 1..Len(diffs') : i \notin 1..Len(r) => diffs'[i].snapshot = seq + 1
  <2> SUFFICES ASSUME NEW i \in 1..Len(diffs'), i \notin 1..Len(r) PROVE diffs'[i].snapshot = seq + 1
    OBVIOUS
  <2>1. PICK j \in 1..Len(new) : j = i - Len(r)
    BY RowsFrom
  <2>2. Len(r) + j = i
    BY <2>1, RowsFrom
  <2>3. diffs'[i] = new[j]
    BY <2>2, RowsFrom
  <2> QED
    BY <2>3 DEF Landed, NewRows
<1>6. \A i \in 1..Len(diffs') : diffs'[i].snapshot \in snaps'
  BY <1>1, <1>4, <1>5
<1>7. Sorted(diffs')
  <2> SUFFICES ASSUME NEW i \in 1..Len(diffs'), NEW j \in 1..Len(diffs'), i < j
               PROVE  diffs'[i].snapshot <= diffs'[j].snapshot
    BY DEF Sorted
  <2>1. Len(r) \in Nat
    BY RowsFrom
  <2>2. CASE j \in 1..Len(r)
    <3>1. i \in 1..Len(r)
      BY <2>1, <2>2
    <3>2. e[i] < e[j] /\ e[i] \in 1..Len(diffs) /\ e[j] \in 1..Len(diffs)
      BY <2>2, <3>1 DEF Landed, Picks
    <3>3. diffs[e[i]].snapshot <= diffs[e[j]].snapshot
      BY <3>2 DEF TrailInv, Sorted
    <3> QED
      BY <2>2, <3>1, <3>3, RowsFrom
  <2>3. CASE j \notin 1..Len(r)
    BY <1>1, <1>4, <1>5, <2>3
  <2> QED
    BY <2>2, <2>3
<1>8. \E R : diffs' \in Seq(R)
  BY RowsFrom
<1> QED
  BY <1>2, <1>3, <1>6, <1>7, <1>8 DEF TrailInv

LEMMA LandClient ==
  ASSUME TrailInv, ClientInv,
         NEW Row, NEW t, NEW r, NEW e, NEW new, NEW rowed, NEW taken, NEW orphans,
         Landed(Row, t, r, e, new, rowed, taken, orphans)
  PROVE  ClientInv' /\ \A n : KnownAt(n)' = KnownAt(n)
<1>1. UNCHANGED <<since, limit, diffing, fetched>> /\ seq' = seq + 1 /\ seq \in Nat
  BY DEF Landed, clientVars, TrailInv
<1>2. \A n : KnownAt(n)' = KnownAt(n)
  BY <1>1 DEF KnownAt
<1>3. 0..seq \subseteq 0..seq'
  BY <1>1
<1>4. fetched' \in [Node -> 0..seq']
  BY <1>1, <1>3 DEF ClientInv
<1> QED
  BY <1>1, <1>2, <1>3, <1>4 DEF ClientInv

\* The rows up to t are kept.
LEMMA StaysSilent ==
  ASSUME TrailInv, NEW Row, NEW t, NEW r, NEW e, NEW new, NEW rowed, NEW taken, NEW orphans,
         Landed(Row, t, r, e, new, rowed, taken, orphans),
         NEW n, NEW k, NEW u \in Nat, Silent(n, k, u)', NEW v \in Nat, v <= u, v <= t
  PROVE  Silent(n, k, v)
<1> SUFFICES ASSUME NEW i \in 1..Len(diffs), diffs[i].node = n, k < diffs[i].snapshot,
                    diffs[i].snapshot <= v
             PROVE  FALSE
  BY DEF Silent
<1>1. diffs[i].snapshot \in snaps /\ diffs[i].snapshot <= t /\ diffs[i].snapshot <= u
  BY RowsTyped DEF Landed
<1>2. PICK p \in 1..Len(r) : e[p] = i
  BY <1>1 DEF Landed, Picks
<1>3. p \in 1..Len(diffs') /\ diffs'[p] = diffs[i]
  BY <1>2, RowsFrom
<1> QED
  BY <1>1, <1>3 DEF Silent

\* A node is not silent in a snapshot that has a row for it.
LEMMA RowedSpeaks ==
  ASSUME TrailInv, NEW Row, NEW t, NEW r, NEW e, NEW new, NEW rowed, NEW taken, NEW orphans,
         Landed(Row, t, r, e, new, rowed, taken, orphans), NEW n \in rowed, NEW k \in 0..seq,
         NEW u, u = seq + 1
  PROVE  ~Silent(n, k, u)'
<1>1. PICK j \in 1..Len(new) : new[j].node = n /\ new[j].snapshot = u
  BY DEF Landed, NewRows
<1>2. diffs'[Len(r) + j] = new[j] /\ Len(r) + j \in 1..Len(diffs')
  BY RowsFrom
<1>3. k < u /\ u <= u
  BY DEF TrailInv
<1> QED
  BY <1>1, <1>2, <1>3 DEF Silent

\* A new snapshot.  A node it has a row for is not silent, one that was taken or orphaned is
\* exempt, and any other is as it was at the head, or, after a rollback that prunes, at the
\* target too.
LEMMA LandKnows ==
  ASSUME ResyncInv, NEW Row, NEW t, NEW r, NEW e, NEW new, NEW rowed, NEW taken, NEW orphans,
         Landed(Row, t, r, e, new, rowed, taken, orphans),
         \/ t = seq
         \/ /\ t \in snaps /\ orphans = Orphans(t)
            /\ \A n \in Node \ rowed : Restored(t)[n] = content[n]
  PROVE  KnowsInv'
<1> USE DEF ResyncInv
<1>1. seq' = seq + 1 /\ seq \in Nat /\ t \in Nat /\ t <= seq
      /\ snaps' = {s \in snaps : s <= t} \cup {seq + 1}
      /\ told' = told /\ view' = view
  BY DEF TrailInv, Landed, clientVars
<1>2. \A n \in Node : KnownAt(n)' = KnownAt(n) /\ KnownAt(n) \in 0..seq
  BY LandClient, KnownIs
<1> SUFFICES ASSUME NEW n \in Node, n \notin told, n \notin unrowed',
                    NEW k \in 0..seq, k = KnownAt(n), NEW u \in snaps' \cup {0}, k <= u,
                    Silent(n, k, u)'
             PROVE  view[n] = world'[u][n]
  BY <1>1, <1>2 DEF KnowsInv
<1>3. n \notin unrowed /\ (n \in taken \cup orphans => n \in rowed)
  BY DEF Landed
<1>4. CASE u # seq + 1
  <2>1. u \in snaps \cup {0} /\ u \in Nat /\ u <= t
    BY <1>1, <1>4, RowsTyped
  <2>2. Silent(n, k, u)
    BY <2>1, StaysSilent
  <2>3. world'[u] = world[u]
    BY <1>4 DEF Landed
  <2> QED
    BY <1>3, <2>1, <2>2, <2>3 DEF KnowsInv
<1>5. CASE u = seq + 1
  <2>1. n \notin rowed
    BY <1>5, RowedSpeaks
  <2>2. content'[n] = content[n] /\ n \notin orphans
    BY <1>3, <2>1 DEF Landed
  <2>3. world'[u][n] = content[n]
    BY <1>5, <2>2 DEF Landed
  <2>4. u \in Nat /\ t <= u
    BY <1>1, <1>5
  <2>5. CASE t = seq
    <3>1. Silent(n, k, seq)
      BY <1>1, <2>4, <2>5, StaysSilent
    <3>2. seq \in snaps \cup {0} /\ k <= seq
      BY RowsTyped
    <3>3. view[n] = world[seq][n]
      BY <1>3, <3>1, <3>2 DEF KnowsInv
    <3> QED
      BY <2>3, <3>3 DEF TrailInv
  <2>6. CASE k = seq
    <3>1. Silent(n, k, seq)
      BY <2>6, RowsTyped DEF Silent
    <3>2. seq \in snaps \cup {0} /\ k <= seq
      BY RowsTyped
    <3>3. view[n] = world[seq][n]
      BY <1>3, <3>1, <3>2 DEF KnowsInv
    <3> QED
      BY <2>3, <3>3 DEF TrailInv
  <2>7. CASE t # seq /\ k # seq
    <3>1. /\ t \in snaps /\ orphans = Orphans(t) /\ Restored(t)[n] = content[n]
      BY <2>1, <2>7
    <3>2. k <= t /\ Restored(t)[n] = world[t][n]
      BY <1>1, <2>2, <2>7, <3>1 DEF Orphans
    <3>3. Silent(n, k, t)
      BY <1>1, <2>4, StaysSilent
    <3>4. view[n] = world[t][n]
      BY <1>3, <3>1, <3>2, <3>3 DEF KnowsInv
    <3> QED
      BY <2>3, <3>1, <3>2, <3>4
  <2> QED
    BY <2>5, <2>6, <2>7
<1> QED
  BY <1>4, <1>5

LEMMA CommitPreserves == ASSUME ResyncInv, Commit PROVE ResyncInv'
<1> USE DEF ResyncInv
<1>1. PICK intended \in Tables : \E blind \in SUBSET Present(intended) : Land(intended, blind, snaps, {})
  BY DEF Commit
<1>2. PICK blind \in SUBSET Present(intended) : Land(intended, blind, snaps, {})
  BY <1>1
<1>3. snaps = {s \in snaps : s <= seq} /\ seq \in 0..seq /\ blind \in SUBSET Node
  BY RowsTyped DEF Present
<1>4. Land(intended, blind, {s \in snaps : s <= seq}, {})
  BY <1>2, <1>3
<1>5. PICK Row, r, e, new, taken :
        Landed(Row, seq, r, e, new, Changed(intended) \cup blind, taken, {})
  BY <1>3, <1>4, LandLands
<1> QED
  BY <1>5, LandTrail, LandClient, LandKnows

LEMMA RollbackPreserves ==
  ASSUME ResyncInv, NEW target \in 1..seq, NEW dropAfter \in BOOLEAN, Rollback(target, dropAfter)
  PROVE  ResyncInv'
<1> USE DEF ResyncInv
<1>1. target \in snaps /\ target \in 0..seq /\ seq \in 0..seq /\ {} \in SUBSET Node
  BY RowsTyped DEF Rollback
<1> DEFINE rowed == Changed(Restored(target)) \cup {}
<1>2. CASE dropAfter
  <2>1. Land(Restored(target), {}, {s \in snaps : s <= target}, Orphans(target))
    BY <1>2 DEF Rollback
  <2>2. PICK Row, r, e, new, taken :
          Landed(Row, target, r, e, new, rowed, taken, Orphans(target))
    BY <1>1, <2>1, LandLands
  <2>3. \A n \in Node \ rowed : Restored(target)[n] = content[n]
    BY DEF Changed
  <2> HIDE DEF rowed
  <2> QED
    BY <1>1, <2>2, <2>3, LandTrail, LandClient, LandKnows
<1>3. CASE ~dropAfter
  <2>1. Land(Restored(target), {}, snaps, {}) /\ snaps = {s \in snaps : s <= seq}
    BY <1>3, RowsTyped DEF Rollback
  <2>2. Land(Restored(target), {}, {s \in snaps : s <= seq}, {})
    BY <2>1
  <2>3. PICK Row, r, e, new, taken : Landed(Row, seq, r, e, new, rowed, taken, {})
    BY <1>1, <2>2, LandLands
  <2> HIDE DEF rowed
  <2> QED
    BY <2>3, LandTrail, LandClient, LandKnows
<1> QED
  BY <1>2, <1>3

-----------------------------------------------------------------------------
(* The client.                                                             *)

LEMMA PicksSorted ==
  ASSUME NEW Row, NEW ds \in Seq(Row), Sorted(ds), NEW S, NEW r, NEW e, Picks(Row, r, e, ds, Len(ds), S)
  PROVE  Sorted(r)
<1> SUFFICES ASSUME NEW i \in 1..Len(r), NEW j \in 1..Len(r), i < j
             PROVE  r[i].snapshot <= r[j].snapshot
  BY DEF Sorted
<1>1. e[i] < e[j] /\ e[i] \in 1..Len(ds) /\ e[j] \in 1..Len(ds)
  BY DEF Picks
<1>2. ds[e[i]].snapshot <= ds[e[j]].snapshot
  BY <1>1 DEF Sorted
<1> QED
  BY <1>2 DEF Picks

\* GetDiffsSince: the rows after a snapshot, oldest first.
LEMMA SinceIs ==
  ASSUME TrailInv, NEW Row, diffs \in Seq(Row), NEW from \in Nat, NEW all, all = DiffsSince(from)
  PROVE  /\ all \in Seq(Row) /\ Sorted(all)
         /\ \A j \in 1..Len(all) :
              all[j].snapshot \in Nat /\ from < all[j].snapshot /\ all[j].snapshot <= seq
         /\ \A i \in 1..Len(diffs) :
              diffs[i].snapshot > from => \E j \in 1..Len(all) : all[j] = diffs[i]
<1> DEFINE S == {t \in snaps : t > from}
<1>1. PICK e : Picks(Row, all, e, diffs, Len(diffs), S)
  BY RowsOfPicks DEF TrailInv, DiffsSince
<1>2. Sorted(all)
  BY <1>1, PicksSorted DEF TrailInv
<1>3. ASSUME NEW j \in 1..Len(all)
      PROVE  all[j].snapshot \in Nat /\ from < all[j].snapshot /\ all[j].snapshot <= seq
  <2>1. all[j] = diffs[e[j]] /\ e[j] \in 1..Len(diffs) /\ diffs[e[j]].snapshot > from
    BY <1>1 DEF Picks
  <2> QED
    BY <2>1, RowsTyped
<1>4. ASSUME NEW i \in 1..Len(diffs), diffs[i].snapshot > from
      PROVE  \E j \in 1..Len(all) : all[j] = diffs[i]
  <2>1. diffs[i].snapshot \in S
    BY <1>4, RowsTyped
  <2>2. PICK j \in 1..Len(all) : e[j] = i
    BY <1>1, <2>1 DEF Picks
  <2> QED
    BY <1>1, <2>2 DEF Picks
<1> QED
  BY <1>1, <1>2, <1>3, <1>4 DEF Picks

LEMMA SinceTellsAll ==
  ASSUME TrailInv, NEW from \in Nat, DiffsSince(from) = <<>>, NEW i \in 1..Len(diffs)
  PROVE  ~(diffs[i].snapshot > from)
<1>0. PICK Row : diffs \in Seq(Row)
  BY DEF TrailInv
<1>1. PICK e : Picks(Row, <<>>, e, diffs, Len(diffs), {t \in snaps : t > from})
  BY <1>0, RowsOfPicks DEF DiffsSince
<1>2. diffs[i].snapshot \notin {t \in snaps : t > from}
  BY <1>1 DEF Picks
<1> QED
  BY <1>2, RowsTyped

\* GetDiffsBetween.
LEMMA BetweenIs ==
  ASSUME TrailInv, NEW from \in Nat, NEW to \in Nat, NEW i \in 1..Len(diffs),
         from < diffs[i].snapshot, diffs[i].snapshot <= to
  PROVE  diffs[i].node \in NodesOf(DiffsBetween(from, to))
<1> DEFINE S == {t \in snaps : from < t /\ t <= to}
           r == DiffsBetween(from, to)
<1>0. PICK Row : diffs \in Seq(Row)
  BY DEF TrailInv
<1>1. PICK e : Picks(Row, r, e, diffs, Len(diffs), S)
  BY <1>0, RowsOfPicks DEF DiffsBetween
<1>2. PICK j \in 1..Len(r) : e[j] = i
  BY <1>1, RowsTyped DEF Picks
<1>3. r[j] = diffs[i] /\ r \in Seq(Row)
  BY <1>1, <1>2 DEF Picks
<1> QED
  BY <1>3 DEF NodesOf

\* What makes a page of Delta one the client may resume after: rows after from, and, but for
\* a snapshot that is more than a page, all of them up to the last.
Whole(ds, from) ==
  \A i \in 1..Len(diffs) :
    from < diffs[i].snapshot /\ diffs[i].snapshot <= LastOf(ds) => diffs[i].node \in NodesOf(ds)

LEMMA PageIsWhole ==
  ASSUME TrailInv, NEW from \in Nat, NEW max \in Nat \ {0}, NEW page, page = Delta(from, max)
  PROVE  /\ page.diffs # <<>> => LastOf(page.diffs) \in Nat /\ from < LastOf(page.diffs)
                                 /\ LastOf(page.diffs) <= seq
         /\ page.diffs # <<>> /\ ~page.overflow => Whole(page.diffs, from)
         /\ page.overflow => page.truncated /\ page.diffs # <<>>
<1> DEFINE all == DiffsSince(from)
           cut == SubSeq(all, 1, max)
           last == all[max].snapshot
           trimmed == RowsOf(cut, snaps \ {last})
<1>0. PICK Row : diffs \in Seq(Row)
  BY DEF TrailInv
<1>1. /\ all \in Seq(Row) /\ Sorted(all)
      /\ \A j \in 1..Len(all) :
           all[j].snapshot \in Nat /\ from < all[j].snapshot /\ all[j].snapshot <= seq
      /\ \A i \in 1..Len(diffs) :
           diffs[i].snapshot > from => \E j \in 1..Len(all) : all[j] = diffs[i]
  BY <1>0, SinceIs
<1>2. page = IF Len(all) <= max THEN Page(all, FALSE, FALSE)
             ELSE IF all[max + 1].snapshot # last THEN Page(cut, TRUE, FALSE)
             ELSE IF all[1].snapshot = last THEN Page(cut, TRUE, TRUE)
             ELSE Page(trimmed, TRUE, FALSE)
  BY DEF Delta
<1> HIDE DEF all
<1>3. CASE Len(all) <= max
  <2>1. page.diffs = all /\ page.overflow = FALSE
    BY <1>2, <1>3 DEF Page
  <2>2. ASSUME all # <<>> PROVE Len(all) \in 1..Len(all)
    BY <1>1, <2>2
  <2>3. Whole(all, from)
    <3> SUFFICES ASSUME NEW i \in 1..Len(diffs), from < diffs[i].snapshot
                 PROVE  diffs[i].node \in NodesOf(all)
      BY DEF Whole
    <3>1. diffs[i].snapshot > from
      BY RowsTyped
    <3>2. PICK j \in 1..Len(all) : all[j] = diffs[i]
      BY <1>1, <3>1
    <3> QED
      BY <1>1, <3>2 DEF NodesOf
  <2> QED
    BY <1>1, <2>1, <2>2, <2>3 DEF LastOf
<1>4. CASE Len(all) > max
  <2>1. /\ max \in 1..Len(all) /\ max + 1 \in 1..Len(all) /\ 1 \in 1..Len(all) /\ Len(all) \in Nat
        /\ 1 \in 1..max /\ max \in 1..max
    BY <1>1, <1>4
  <2>2. cut \in Seq(Row) /\ Len(cut) = max /\ \A j \in 1..max : cut[j] = all[j] /\ j \in 1..Len(all)
    BY <1>1, <2>1
  <2>3. last \in Nat /\ from < last /\ last <= seq
    BY <1>1, <2>1
  <2>4. \A j \in 1..max : all[j].snapshot <= last
    <3> SUFFICES ASSUME NEW j \in 1..max PROVE all[j].snapshot <= last
      OBVIOUS
    <3>1. CASE j = max
      BY <2>3, <3>1
    <3>2. CASE j # max
      <4>1. j < max /\ j \in 1..Len(all)
        BY <2>2, <3>2
      <4> QED
        BY <1>1, <2>1, <4>1 DEF Sorted
    <3> QED
      BY <3>1, <3>2
  <2>5. ASSUME NEW i \in 1..Len(diffs), from < diffs[i].snapshot,
               \/ diffs[i].snapshot < last
               \/ diffs[i].snapshot = last /\ all[max + 1].snapshot # last
        PROVE  \E j \in 1..max : cut[j] = diffs[i]
    <3>1. diffs[i].snapshot > from /\ diffs[i].snapshot \in Nat
      BY <2>5, RowsTyped
    <3>2. PICK j \in 1..Len(all) : all[j] = diffs[i]
      BY <1>1, <3>1
    <3>3. all[max].snapshot <= all[max + 1].snapshot /\ all[max + 1].snapshot \in Nat
      <4>1. max < max + 1
        OBVIOUS
      <4> QED
        BY <1>1, <2>1, <4>1 DEF Sorted
    <3>4. diffs[i].snapshot < all[max + 1].snapshot
      BY <2>3, <2>5, <3>1, <3>3
    <3>5. j <= max
      <4> SUFFICES ASSUME j > max PROVE FALSE
        BY <2>1
      <4>1. CASE j = max + 1
        BY <3>1, <3>2, <3>3, <3>4, <4>1
      <4>2. CASE j # max + 1
        <5>1. max + 1 < j
          BY <2>1, <4>2
        <5>2. all[max + 1].snapshot <= all[j].snapshot
          BY <1>1, <2>1, <5>1 DEF Sorted
        <5>3. diffs[i].snapshot < all[j].snapshot
          BY <1>1, <3>1, <3>2, <3>3, <3>4, <5>2
        <5> QED
          BY <3>1, <3>2, <5>3
      <4> QED
        BY <4>1, <4>2
    <3>6. j \in 1..max
      BY <2>1, <3>5
    <3> QED
      BY <2>2, <3>2, <3>6
  <2>6. cut # <<>> /\ LastOf(cut) = last
    BY <2>1, <2>2 DEF LastOf
  <2>7. CASE all[max + 1].snapshot # last
    <3>1. page.diffs = cut /\ page.overflow = FALSE
      BY <1>2, <1>4, <2>1, <2>7 DEF Page
    <3>2. Whole(cut, from)
      <4> SUFFICES ASSUME NEW i \in 1..Len(diffs), from < diffs[i].snapshot, diffs[i].snapshot <= last
                   PROVE  diffs[i].node \in NodesOf(cut)
        BY <2>6 DEF Whole
      <4>1. diffs[i].snapshot < last \/ diffs[i].snapshot = last
        BY <2>3, RowsTyped
      <4>2. PICK j \in 1..max : cut[j] = diffs[i]
        BY <2>5, <2>7, <4>1
      <4>3. j \in DOMAIN cut
        BY <2>2
      <4> HIDE DEF cut
      <4> QED
        BY <4>2, <4>3 DEF NodesOf
    <3> QED
      BY <2>3, <2>6, <3>1, <3>2
  <2>8. CASE all[max + 1].snapshot = last /\ all[1].snapshot = last
    <3>1. page.diffs = cut /\ page.overflow = TRUE /\ page.truncated = TRUE
      BY <1>2, <1>4, <2>1, <2>8 DEF Page
    <3> QED
      BY <2>3, <2>6, <3>1
  <2>9. CASE all[max + 1].snapshot = last /\ all[1].snapshot # last
    <3>1. page.diffs = trimmed /\ page.overflow = FALSE
      BY <1>2, <1>4, <2>1, <2>9 DEF Page
    <3>2. PICK e : Picks(Row, trimmed, e, cut, Len(cut), snaps \ {last})
      BY <2>2, RowsOfPicks
    <3> HIDE DEF trimmed, cut
    <3>3. ASSUME trimmed # <<>>
          PROVE  LastOf(trimmed) \in Nat /\ from < LastOf(trimmed) /\ LastOf(trimmed) < last
      <4>1. Len(trimmed) \in 1..Len(trimmed) /\ trimmed \in Seq(Row)
        BY <3>2, <3>3 DEF Picks
      <4>2. PICK j \in 1..max : /\ j = e[Len(trimmed)]
                               /\ trimmed[Len(trimmed)] = cut[j] /\ cut[j].snapshot # last
        BY <2>2, <3>2, <4>1 DEF Picks
      <4>3. all[j].snapshot \in Nat /\ from < all[j].snapshot /\ all[j].snapshot <= last
        BY <1>1, <2>2, <2>4
      <4> QED
        BY <2>2, <2>3, <4>2, <4>3 DEF LastOf
    <3>4. ASSUME trimmed # <<>> PROVE Whole(trimmed, from)
      <4> SUFFICES ASSUME NEW i \in 1..Len(diffs), from < diffs[i].snapshot,
                          diffs[i].snapshot <= LastOf(trimmed)
                   PROVE  diffs[i].node \in NodesOf(trimmed)
        BY DEF Whole
      <4>1. diffs[i].snapshot < last /\ diffs[i].snapshot \in snaps \ {last}
        BY <2>3, <3>3, <3>4, RowsTyped
      <4>2. PICK j \in 1..max : cut[j] = diffs[i]
        BY <2>5, <4>1
      <4>3. PICK p \in 1..Len(trimmed) : e[p] = j
        BY <2>2, <3>2, <4>1, <4>2 DEF Picks
      <4>4. trimmed[p] = diffs[i] /\ trimmed \in Seq(Row)
        BY <3>2, <4>2, <4>3 DEF Picks
      <4> QED
        BY <4>4 DEF NodesOf
    <3> QED
      BY <2>3, <3>1, <3>3, <3>4, RowsTyped
  <2> QED
    BY <2>7, <2>8, <2>9
<1> QED
  BY <1>1, <1>3, <1>4

\* The client reads on: it is told of every node with a row between the snapshot it resumed
\* from and the one it resumes from next.
LEMMA ReadsOn ==
  ASSUME ResyncInv, UNCHANGED <<snaps, diffs, seq, world, view, fetched, unrowed>>,
         told \subseteq told', since' \in since..seq,
         \A i \in 1..Len(diffs) :
           since < diffs[i].snapshot /\ diffs[i].snapshot <= since' => diffs[i].node \in told'
  PROVE  KnowsInv'
<1> USE DEF ResyncInv
<1> SUFFICES ASSUME NEW n \in Node, n \notin told', n \notin unrowed, NEW h \in 0..seq,
                    h = KnownAt(n)', NEW t \in snaps \cup {0}, h <= t, Silent(n, h, t)'
             PROVE  view[n] = world[t][n]
  BY DEF KnowsInv
<1>1. PICK k \in 0..seq : k = KnownAt(n)
  BY KnownIs
<1>2. /\ since \in Nat /\ since' \in Nat /\ fetched[n] \in Nat /\ seq \in Nat /\ t \in Nat
      /\ since <= since'
  BY RowsTyped DEF ClientInv, TrailInv
<1>3. k = IF since >= fetched[n] THEN since ELSE fetched[n]
  BY <1>1, KnownIs
<1>4. h = IF since' >= fetched[n] THEN since' ELSE fetched[n]
  <2>1. h = Max({since', fetched[n]})
    BY DEF KnownAt
  <2> QED
    BY <1>2, <2>1, MaxOfTwo
<1>5. k <= h /\ k <= t
  BY <1>2, <1>3, <1>4
<1>6. ASSUME NEW i \in 1..Len(diffs), diffs[i].node = n, k < diffs[i].snapshot PROVE h < diffs[i].snapshot
  <2>1. diffs[i].snapshot \in Nat
    BY RowsTyped
  <2>2. ~(since < diffs[i].snapshot /\ diffs[i].snapshot <= since')
    BY <1>6
  <2> QED
    BY <1>2, <1>3, <1>4, <1>6, <2>1, <2>2
<1>7. Silent(n, k, t)
  BY <1>6 DEF Silent
<1> QED
  BY <1>1, <1>5, <1>7 DEF KnowsInv

LEMMA SameTrail == ASSUME TrailInv, UNCHANGED trail PROVE TrailInv'
BY DEF TrailInv, Sorted, trail

LEMMA DeltaPreserves == ASSUME ResyncInv, MemoryDelta PROVE ResyncInv'
<1> USE DEF ResyncInv
<1>1. PICK page : page = Delta(since, limit)
  OBVIOUS
<1>2. /\ diffing = 0 /\ told' = told \cup NodesOf(page.diffs)
      /\ LastPage(page) \/ Continues(page) \/ Overflows(page)
      /\ UNCHANGED trail /\ UNCHANGED <<snaps, diffs, seq, world, view, fetched, unrowed>>
  BY <1>1 DEF MemoryDelta, trail
<1>3. since \in Nat /\ since <= seq /\ seq \in Nat /\ limit \in Nat \ {0} /\ limit \in 1..PageCap
  BY ResyncAssumption DEF ClientInv, TrailInv
<1>4. /\ page.diffs # <<>> => LastOf(page.diffs) \in Nat /\ since < LastOf(page.diffs)
                              /\ LastOf(page.diffs) <= seq
      /\ page.diffs # <<>> /\ ~page.overflow => Whole(page.diffs, since)
      /\ page.overflow => page.truncated /\ page.diffs # <<>>
  BY <1>1, <1>3, PageIsWhole
<1>5. TrailInv'
  BY <1>2, SameTrail
<1>6. CASE LastPage(page) \/ Continues(page)
  <2>1. since' = Resumed(page) /\ UNCHANGED <<limit, diffing>>
    BY <1>6 DEF LastPage, Continues
  <2>2. page.diffs = <<>> => since' = since
    BY <2>1 DEF Resumed
  <2>3. page.diffs # <<>> => since' = LastOf(page.diffs)
    BY <2>1 DEF Resumed
  <2>4. since' \in since..seq
    BY <1>3, <1>4, <2>2, <2>3
  <2>5. ClientInv'
    BY <1>2, <1>3, <2>1, <2>4 DEF ClientInv
  <2>6. ~page.overflow
    BY <1>4, <1>6 DEF LastPage, Continues
  <2>7. ASSUME NEW i \in 1..Len(diffs), since < diffs[i].snapshot, diffs[i].snapshot <= since'
        PROVE  diffs[i].node \in told'
    BY <1>2, <1>3, <1>4, <2>2, <2>3, <2>6, <2>7, RowsTyped DEF Whole
  <2>8. KnowsInv'
    BY <1>2, <2>4, <2>7, ReadsOn
  <2> QED
    BY <1>5, <2>5, <2>8
<1>7. CASE Overflows(page)
  <2>1. since' = since
    BY <1>7 DEF Overflows
  <2>2. ClientInv'
    <3>1. CASE limit' \in limit + 1 .. PageCap /\ UNCHANGED diffing
      BY <1>2, <1>3, <2>1, <3>1, ResyncAssumption DEF ClientInv
    <3>2. CASE diffing' = LastOf(page.diffs) /\ UNCHANGED limit
      BY <1>2, <1>3, <1>4, <1>7, <2>1, <3>2 DEF ClientInv, Overflows
    <3> QED
      BY <1>7, <3>1, <3>2 DEF Overflows
  <2>3. since' \in since..seq
    BY <1>3, <2>1
  <2>4. ASSUME NEW i \in 1..Len(diffs), since < diffs[i].snapshot, diffs[i].snapshot <= since'
        PROVE  diffs[i].node \in told'
    BY <1>3, <2>1, <2>4, RowsTyped
  <2>5. KnowsInv'
    BY <1>2, <2>3, <2>4, ReadsOn
  <2> QED
    BY <1>5, <2>2, <2>5
<1> QED
  BY <1>2, <1>6, <1>7

LEMMA DiffPreserves == ASSUME ResyncInv, MemoryDiff PROVE ResyncInv'
<1> USE DEF ResyncInv
<1>1. since \in Nat /\ diffing \in Nat /\ seq \in Nat /\ since < diffing /\ diffing <= seq
  BY DEF ClientInv, TrailInv, MemoryDiff
<1>2. since' = diffing /\ diffing' = 0 /\ told' = told \cup NodesOf(DiffsBetween(since, diffing))
  BY DEF MemoryDiff
<1>3. ClientInv'
  BY <1>1, <1>2 DEF ClientInv, MemoryDiff, trail
<1>4. since' \in since..seq
  BY <1>1, <1>2
<1>5. KnowsInv'
  BY <1>1, <1>2, <1>4, BetweenIs, ReadsOn DEF MemoryDiff, trail
<1> QED
  BY <1>3, <1>5, SameTrail DEF MemoryDiff

LEMMA FetchPreserves == ASSUME ResyncInv, FetchBatch PROVE ResyncInv'
<1> USE DEF ResyncInv
<1>1. TrailInv'
  BY SameTrail DEF FetchBatch
<1>2. fetched' \in [Node -> 0..seq]
  BY RowsTyped DEF FetchBatch, ClientInv, trail
<1>3. ClientInv'
  BY <1>2 DEF FetchBatch, ClientInv, trail
<1>4. KnowsInv'
  <2>1. UNCHANGED <<seq, snaps, diffs, world, content, since>>
    BY DEF FetchBatch, trail
  <2> SUFFICES ASSUME NEW n \in Node, n \notin unrowed', NEW k \in 0..seq, k = KnownAt(n)',
                      NEW t \in snaps \cup {0}, k <= t, Silent(n, k, t)'
               PROVE  view'[n] = world[t][n]
    BY <2>1 DEF KnowsInv, FetchBatch
  <2>2. CASE n \in told
    <3>1. k = Max({since, seq})
      BY <2>1, <2>2 DEF KnownAt, FetchBatch
    <3>2. since \in Nat /\ seq \in Nat /\ since <= seq
      BY DEF ClientInv, TrailInv
    <3>3. k = seq
      BY <3>1, <3>2, MaxOfTwo
    <3>4. t = seq
      BY <3>2, <3>3, RowsTyped
    <3>5. view'[n] = content[n]
      BY <2>2 DEF FetchBatch
    <3> QED
      BY <3>4, <3>5 DEF TrailInv
  <2>3. CASE n \notin told
    <3>1. k = KnownAt(n) /\ view'[n] = view[n] /\ n \notin unrowed
      BY <2>1, <2>3 DEF KnownAt, FetchBatch
    <3>2. Silent(n, k, t)
      BY <2>1 DEF Silent
    <3> QED
      BY <2>3, <3>1, <3>2 DEF KnowsInv
  <2> QED
    BY <2>2, <2>3
<1> QED
  BY <1>1, <1>3, <1>4

-----------------------------------------------------------------------------
LEMMA ResyncInvInit == Init => ResyncInv
<1> SUFFICES ASSUME Init PROVE ResyncInv
  OBVIOUS
<1>1. TrailInv
  <2>1. diffs \in Seq({})
    BY DEF Init
  <2>2. Len(diffs) = 0 /\ world[seq] = content
    BY DEF Init
  <2> QED
    BY <2>1, <2>2 DEF Init, TrailInv, Sorted
<1>2. ClientInv
  BY ResyncAssumption DEF Init, ClientInv
<1>3. KnowsInv
  BY DEF Init, KnowsInv
<1> QED
  BY <1>1, <1>2, <1>3 DEF ResyncInv

LEMMA ResyncStutters == ASSUME ResyncInv, UNCHANGED vars PROVE ResyncInv'
<1>1. UNCHANGED trail /\ UNCHANGED <<seq, snaps, diffs, world, since, limit, diffing, fetched, told, unrowed, view>>
  BY DEF vars, trail
<1>2. TrailInv'
  BY <1>1, SameTrail DEF ResyncInv
<1>3. ClientInv'
  BY <1>1 DEF ResyncInv, ClientInv
<1>4. KnowsInv'
  <2>1. \A n, k, t : Silent(n, k, t)' = Silent(n, k, t) /\ KnownAt(n)' = KnownAt(n)
    BY <1>1 DEF KnownAt, Silent
  <2> QED
    BY <1>1, <2>1 DEF ResyncInv, KnowsInv
<1> QED
  BY <1>2, <1>3, <1>4 DEF ResyncInv

LEMMA ResyncInvPreserved == ResyncInv /\ [Next]_vars => ResyncInv'
BY CommitPreserves, RollbackPreserves, DeltaPreserves, DiffPreserves, FetchPreserves, ResyncStutters
   DEF Next

\* A client that is told of nothing more and has fetched what it was told of knows every node
\* as it is, but for those that a cascade took without a row, or that a pruning rollback
\* changed without one it could see (Engine.Delta, deltaTruncationNote, GetDiffsSince).
THEOREM ClientCatchesUp == Spec => []CaughtUp
<1>1. ResyncInv => CaughtUp
  <2> SUFFICES ASSUME ResyncInv, told = {}, DiffsSince(since) = <<>>, NEW n \in Node, n \notin unrowed
               PROVE  view[n] = content[n]
    BY DEF CaughtUp
  <2> USE DEF ResyncInv
  <2>1. since \in Nat /\ fetched[n] \in Nat
    BY DEF ClientInv, TrailInv
  <2>2. PICK k \in 0..seq : k = KnownAt(n) /\ since <= k
    BY <2>1, KnownIs
  <2>3. \A i \in 1..Len(diffs) : ~(diffs[i].snapshot > since)
    BY <2>1, SinceTellsAll
  <2>4. Silent(n, k, seq)
    BY <2>1, <2>2, <2>3, RowsTyped DEF Silent
  <2>5. seq \in snaps \cup {0} /\ k <= seq
    BY RowsTyped
  <2>6. view[n] = world[seq][n]
    BY <2>2, <2>4, <2>5 DEF KnowsInv
  <2> QED
    BY <2>6 DEF TrailInv
<1> QED
  BY <1>1, ResyncInvInit, ResyncInvPreserved, PTL DEF Spec
=============================================================================
