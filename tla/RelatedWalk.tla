---------------------------- MODULE RelatedWalk ----------------------------
(***************************************************************************)
(* MemoryRelated: the walk over the lateral edges from an anchor, ranked by *)
(* summed weight, cut to a limit of rows and a budget of tokens.  It reads  *)
(* the edges of RelationGraph in any state they can be in, cycles included. *)
(*                                                                         *)
(* Left out: temperatures, which order rows of the same weight (any order   *)
(* of them is an answer here) and take the boost of the call.               *)
(***************************************************************************)
EXTENDS RelationGraph, Integers, FiniteSetsExt, SequencesExt

CONSTANTS
  Weight,      \* the weight of an edge, by its origin
  Tokens,      \* the tokens of each node
  WeightMins,  \* the weight_min a call can have
  Depths,      \* the depth a call can have, 0 when it has none
  Limits,      \* the row limits of a walk: the tool's is 100
  Budgets,     \* the budget a call can have, 0 when it has none
  DefaultBudget \* the budget of a call that has none: the configured one, or the tool's

\* Weights of either sign; the identifiers are the digests of 64 bits.
ASSUME WalkAssumption ==
  /\ Weight["parsed"] \in Int /\ Weight["manual"] \in Int
  /\ \A n \in Node : Tokens[n] \in Nat
  /\ Depths \subseteq Int /\ Limits \subseteq Nat /\ Budgets \subseteq Int
  /\ DefaultBudget \in Nat \ {0}

Directions == {"out", "in", "both"}

\* The edges a walk may take, from where to where, those below weight_min left out.
Step(from, to, weight) == [from |-> from, to |-> to, weight |-> weight]
Heavy(min) == {e \in relations : Weight[e.origin] >= min}
Forward(min) == {Step(e.src, e.dst, Weight[e.origin]) : e \in Heavy(min)}
Backward(min) == {Step(e.dst, e.src, Weight[e.origin]) : e \in Heavy(min)}

Row(n, hop, weight) == [node |-> n, hop |-> hop, weight |-> weight]

\* The rows of the recursive query: every walk of at most depth steps, cycles walked again.
Walk(steps, anchor, depth) ==
  LET rows[h \in 1..depth] ==
        IF h = 1 THEN {Row(s.to, 1, s.weight) : s \in {s \in steps : s.from = anchor}}
        ELSE UNION {{Row(s.to, h, r.weight + s.weight) : s \in {s \in steps : s.from = r.node}}
                      : r \in rows[h - 1]}
  IN UNION {rows[h] : h \in 1..depth}

RelatedOut(anchor, min, depth) == Walk(Forward(min), anchor, depth)
RelatedIn(anchor, min, depth) == Walk(Backward(min), anchor, depth)
\* Both ways: each walk keeps its direction.
RelatedBoth(anchor, min, depth) == RelatedOut(anchor, min, depth) \cup RelatedIn(anchor, min, depth)

RelatedQuery(anchor, direction, min, depth) ==
  CASE direction = "in" -> RelatedIn(anchor, min, depth)
    [] direction = "out" -> RelatedOut(anchor, min, depth)
    [] OTHER -> RelatedBoth(anchor, min, depth)

\* Mutant: a node has the hops of its longest walk.
GroupedFarthest(rows, anchor) ==
  {Row(n, Max({r.hop : r \in {r \in rows : r.node = n}}),
          Max({r.weight : r \in {r \in rows : r.node = n}}))
     : n \in ({r.node : r \in rows} \cap Alive) \ {anchor}}

\* GROUP BY node: one row each, with its fewest hops and its heaviest walk; the anchor left out.
Grouped(rows, anchor) ==
  {Row(n, Min({r.hop : r \in {r \in rows : r.node = n}}),
          Max({r.weight : r \in {r \in rows : r.node = n}}))
     : n \in ({r.node : r \in rows} \cap Alive) \ {anchor}}

\* The answers a walk can give: heaviest first, at most limit of them.
GetRelatedNodes(anchor, direction, min, depth, limit) ==
  {SubSeq(order, 1, Min({limit, Len(order)})) : order \in
     {s \in SetToSeqs(Grouped(RelatedQuery(anchor, direction, min, depth), anchor)) :
        \A i, j \in DOMAIN s : i < j => s[i].weight >= s[j].weight}}

ClampDepth(depth) == IF depth <= 0 THEN 1 ELSE Min({depth, 5})

\* Rows are printed until the first that would go over the budget.
FormatRelated(related, budget) ==
  LET used[i \in 0..Len(related)] == IF i = 0 THEN 0 ELSE used[i - 1] + Tokens[related[i].node]
      fits(i) == budget <= 0 \/ used[i] <= budget
  IN SubSeq(related, 1, Max({k \in 0..Len(related) : \A i \in 1..k : fits(i)}))

ResolveBudget(budget) == IF budget > 0 THEN budget ELSE DefaultBudget

\* MemoryRelated: every row of the walk is warmed, those over the budget too.
HandleRelated(anchor, direction, min, depth, limit, budget) ==
  {[warmed |-> related, shown |-> FormatRelated(related, ResolveBudget(budget))]
     : related \in GetRelatedNodes(anchor, direction, min, ClampDepth(depth), limit)}

-----------------------------------------------------------------------------
(* Properties.                                                             *)

\* The nodes within k steps of the anchor, one step at a time.
Ball(steps, anchor, k) ==
  LET near[i \in 0..k] ==
        IF i = 0 THEN {anchor}
        ELSE near[i - 1] \cup {s.to : s \in {s \in steps : s.from \in near[i - 1]}}
  IN near[k]

\* The sets of steps a walk keeps to: out, in, or one of the two.
Ways(direction, min) ==
  (IF direction # "in" THEN {Forward(min)} ELSE {})
    \cup (IF direction # "out" THEN {Backward(min)} ELSE {})

Around(anchor, direction, min, k) ==
  UNION {Ball(steps, anchor, k) : steps \in Ways(direction, min)}

\* The paths of h steps from the anchor, and what they weigh.
PathsOf(steps, anchor, h) ==
  {p \in [1..h -> steps] : p[1].from = anchor /\ \A i \in 2..h : p[i].from = p[i - 1].to}

PathWeight(p) == SumFunction([i \in DOMAIN p |-> p[i].weight])

\* The weights of all paths to n of at most depth steps.
WeightsOf(steps, anchor, depth, n) ==
  UNION {{PathWeight(p) : p \in {p \in PathsOf(steps, anchor, h) : p[h].to = n}} : h \in 1..depth}

PathWeights(anchor, direction, min, depth, n) ==
  UNION {WeightsOf(steps, anchor, depth, n) : steps \in Ways(direction, min)}

Heaviest(weight, weights) == weight \in weights /\ \A w \in weights : w <= weight

\* One row for every node within the depth, at its distance ...
Reached(answer, anchor, direction, min, depth) ==
  /\ {r.node : r \in ToSet(answer)} \subseteq Around(anchor, direction, min, depth) \ {anchor}
  /\ \A i, j \in DOMAIN answer : answer[i].node = answer[j].node => i = j
  /\ \A r \in ToSet(answer) : /\ r.node \in Around(anchor, direction, min, r.hop)
                              /\ r.node \notin Around(anchor, direction, min, r.hop - 1)

\* ... with the weight of the heaviest path to it, the heaviest row first ...
Ranked(answer, anchor, direction, min, depth) ==
  /\ \A r \in ToSet(answer) :
       Heaviest(r.weight, PathWeights(anchor, direction, min, depth, r.node))
  /\ \A i, j \in DOMAIN answer : i < j => answer[i].weight >= answer[j].weight

\* ... none left out but for the limit, and then none to which a heavier path leads ...
Complete(answer, anchor, direction, min, depth, limit) ==
  LET found == Around(anchor, direction, min, depth) \ {anchor} IN
  /\ Len(answer) = Min({limit, Cardinality(found)})
  /\ \A n \in found \ {r.node : r \in ToSet(answer)} :
       \A w \in PathWeights(anchor, direction, min, depth, n) :
         \A r \in ToSet(answer) : w <= r.weight

Cost(rows) == SumFunction([i \in DOMAIN rows |-> Tokens[rows[i].node]])

\* ... and what is shown fits the budget, up to the first row that would go over it.
Fits(answer, budget) ==
  /\ IsPrefix(answer.shown, answer.warmed)
  /\ Cost(answer.shown) <= budget
  /\ Len(answer.shown) < Len(answer.warmed) =>
       Cost(answer.shown) + Tokens[answer.warmed[Len(answer.shown) + 1].node] > budget

\* MemoryRelated on whatever graph compiles, deletions, rollbacks and manual edges have left,
\* cycles and dangling links included, returns the neighbourhood of the anchor: "each hop's
\* weight adds up and the heaviest path to each target wins".
RelatedRight ==
  \A a \in Alive, direction \in Directions, min \in WeightMins,
     depth \in Depths, limit \in Limits, budget \in Budgets :
    \A answer \in HandleRelated(a, direction, min, depth, limit, budget) :
      /\ Reached(answer.warmed, a, direction, min, ClampDepth(depth))
      /\ Ranked(answer.warmed, a, direction, min, ClampDepth(depth))
      /\ Complete(answer.warmed, a, direction, min, ClampDepth(depth), limit)
      /\ Fits(answer, ResolveBudget(budget))
=============================================================================
