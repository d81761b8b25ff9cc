------------------------------ MODULE TempFile ------------------------------
(***************************************************************************)
(* The seed temperatures of .remindb/temperatures.json: the tree its keys   *)
(* are grafted into, and what it resolves a path to.                       *)
(*                                                                         *)
(* The file is a JSON object, which Go hands over as a map: its entries are *)
(* inserted in any order.  A key is the sequence of names between its       *)
(* slashes, and its value the tree it was built into; a tree is a function  *)
(* on the positions it has, the empty one included, to the temperature      *)
(* there.                                                                  *)
(***************************************************************************)
EXTENDS Naturals, Sequences, FiniteSetsExt, SequencesExt

CONSTANTS
  Star,       \* the segment "*"
  NoTemp,     \* no temperature
  Conflict    \* what a file that contradicts itself is loaded as

EmptyTree == [q \in {<<>>} |-> NoTemp]

\* parseValue of a number.
Leaf(temp) == [q \in {<<>>} |-> temp]

Above(q) == {SubSeq(q, 1, k) : k \in 0..Len(q) - 1}

HasTemp(tree, q) == q \in DOMAIN tree /\ tree[q] # NoTemp

HasChildren(tree, q) == \E r \in DOMAIN tree : q \in Above(r)

\* What a value was built into: the positions above one are there, and nothing is below a
\* temperature.
IsTree(tree) ==
  /\ <<>> \in DOMAIN tree
  /\ \A q \in DOMAIN tree :
       /\ q \in Seq(ToSet(q)) /\ Above(q) \subseteq DOMAIN tree
       /\ HasTemp(tree, q) => ~HasChildren(tree, q)

\* The entries of a file: a key has a name at least.
AreEntries(entries) ==
  /\ IsFiniteSet(entries)
  /\ \A e \in entries : e.key \in Seq(ToSet(e.key)) \ {<<>>} /\ IsTree(e.value)

\* tempConflict at some position both trees have.
MergeConflict(tree, key, value) ==
  \E p \in DOMAIN value :
     LET q == key \o p IN
     \/ HasTemp(tree, q) /\ (HasTemp(value, p) \/ HasChildren(value, p))
     \/ HasTemp(value, p) /\ HasChildren(tree, q)

\* Mutant: a key is grafted below a temperature as if none were there.
InsertBelow(tree, entry) ==
  LET grafted == {entry.key \o p : p \in DOMAIN entry.value}
      value(q) == entry.value[SubSeq(q, Len(entry.key) + 1, Len(q))]
  IN
  IF MergeConflict(tree, entry.key, entry.value) THEN Conflict
  ELSE [q \in DOMAIN tree \cup Above(entry.key) \cup grafted |->
          IF q \in grafted /\ value(q) # NoTemp THEN value(q)
          ELSE IF q \in DOMAIN tree THEN tree[q] ELSE NoTemp]

\* insertKey, and mergeEntry where the position is taken.
Insert(tree, entry) ==
  LET grafted == {entry.key \o p : p \in DOMAIN entry.value}
      value(q) == entry.value[SubSeq(q, Len(entry.key) + 1, Len(q))]
  IN
  IF \/ \E q \in Above(entry.key) : HasTemp(tree, q)
     \/ MergeConflict(tree, entry.key, entry.value)
  THEN Conflict
  ELSE [q \in DOMAIN tree \cup Above(entry.key) \cup grafted |->
          IF q \in grafted /\ value(q) # NoTemp THEN value(q)
          ELSE IF q \in DOMAIN tree THEN tree[q] ELSE NoTemp]

\* buildEntry: the entries in the order the map yields them; the first conflict ends it.
LoadTemps(entries) ==
  LET tree[k \in 0..Len(entries)] ==
        IF k = 0 THEN EmptyTree
        ELSE IF tree[k - 1] = Conflict THEN Conflict
        ELSE Insert(tree[k - 1], entries[k])
  IN  tree[Len(entries)]

\* Resolve: the temperature on the way down, or the one of the deepest "*" beside it.
Resolve(tree, path) ==
  LET at(k)    == SubSeq(path, 1, k)
      explicit == {k \in 1..Len(path) : HasTemp(tree, at(k))}
      stars    == {k \in 0..Len(path) - 1 : HasTemp(tree, Append(at(k), Star))}
  IN  IF explicit # {} THEN tree[at(Min(explicit))]
      ELSE IF stars # {} THEN tree[Append(at(Max(stars)), Star)]
      ELSE NoTemp

-----------------------------------------------------------------------------
(* What the file says, whatever the order.                                 *)

Positions(entries) ==
  UNION {Above(e.key) \cup {e.key \o p : p \in DOMAIN e.value} : e \in entries}

Written(entries) ==
  UNION {{<<e.key \o p, e.value[p]>> : p \in {p \in DOMAIN e.value : e.value[p] # NoTemp}}
           : e \in entries}

\* A temperature is given once, and nothing is said below it.
Consistent(entries) ==
  /\ \A e, d \in entries : e # d =>
        {e.key \o p : p \in {p \in DOMAIN e.value : HasTemp(e.value, p)}}
          \cap {d.key \o p : p \in {p \in DOMAIN d.value : HasTemp(d.value, p)}} = {}
  /\ \A w \in Written(entries) : \A q \in Positions(entries) : w[1] \notin Above(q)

SaidOf(entries, path) ==
  LET upTo(q) == q = path \/ q \in Above(path)
      on      == {w \in Written(entries) : upTo(w[1])}
      beside  == {w \in Written(entries) : Last(w[1]) = Star /\ Front(w[1]) \in Above(path)}
      deepest == CHOOSE w \in beside : \A v \in beside : Len(v[1]) <= Len(w[1])
  IN  IF on # {} THEN (CHOOSE w \in on : TRUE)[2]
      ELSE IF beside # {} THEN deepest[2] ELSE NoTemp
=============================================================================
