------------------------------ MODULE NodeTree ------------------------------
(***************************************************************************)
(* What DELETE and UPSERT do to the node table, whatever other columns its  *)
(* rows have: a table is a function from the identifiers that have a row,   *)
(* and `parent` is a column of it.                                          *)
(***************************************************************************)
EXTENDS Functions

\* A root's parent.
NoNode == 0

\* The foreign key nodes.parent_id REFERENCES nodes(id).
FKIntact(g) == \A n \in DOMAIN g : g[n].parent \in DOMAIN g \cup {NoNode}

ChildrenOf(g, n) == {c \in DOMAIN g : g[c].parent = n}

ClosedBelow(g, C) == \A n \in DOMAIN g : g[n].parent \in C => n \in C

\* The rows DELETE removes with R: ON DELETE CASCADE follows parent_id.
Cascade(g, R) ==
  {n \in DOMAIN g :
     \A C \in SUBSET DOMAIN g :
        (R \cap DOMAIN g \subseteq C /\ ClosedBelow(g, C)) => n \in C}

Subtree(g, n) == Cascade(g, {n})

\* Mutant: the children of a deleted row stay.
DropRowsOnly(g, R) == Restrict(g, DOMAIN g \ R)

Drop(g, R) == Restrict(g, DOMAIN g \ Cascade(g, R))

\* UPSERT of the rows S of t.
Put(g, t, S) == [n \in DOMAIN g \cup S |-> IF n \in S THEN t[n] ELSE g[n]]
=============================================================================
