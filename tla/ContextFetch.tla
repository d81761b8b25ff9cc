---------------------------- MODULE ContextFetch ----------------------------
(***************************************************************************)
(* Reading under a token budget: MemoryFetch with the context of an anchor, *)
(* MemoryFetchBatch and MemorySearch, and the boost of what was returned.   *)
(*                                                                         *)
(* A read takes no lock.  A fetch reads the anchor and then, in three       *)
(* goroutines and three statements, its ancestors, descendants and          *)
(* siblings; commits can fall between any two of them.  Scores depend on    *)
(* clocks and floats, so nodes are ranked in any order.  MemoryTree, which   *)
(* has no budget and boosts nothing, reads the whole table at once.         *)
(***************************************************************************)
EXTENDS NodeGraph, SequencesExt, FiniteSetsExt

CONSTANTS
  TokenCount,    \* tokens of each content
  Budgets,       \* budgets a caller asks for; 0 is none
  Depths,        \* depths a caller asks for; 0 is the default
  Anchors,       \* the nodes a caller asks the context of
  Asks,          \* the ids a batch asks for, and the nodes a query matches
  MaxDepth,      \* the default of a fetch
  TreeDepth,     \* the default of MemoryTree
  DepthCap,      \* the most levels a call can ask for: treewalk.MaxDepth
  SearchLimit,   \* searchLimit
  TopTemp        \* the highest temperature; a boost is one step up to it

VARIABLES
  nodes,   \* table nodes
  temps,   \* its temperature column
  read     \* the read under way

Resting == [step |-> "resting"]

Tokens(row) == TokenCount[row.content]

Rows(g, S) == Restrict(g, S)

-----------------------------------------------------------------------------
(* Statements.                                                             *)

\* GetAncestors: the node itself included.
Ancestors(g, n) ==
  LET up[k \in 0..NodeCount] ==
        IF k = 0 THEN {n} \cap DOMAIN g
        ELSE LET below == up[k - 1] IN below \cup ({g[m].parent : m \in below} \cap DOMAIN g)
  IN  up[NodeCount]

\* Mutant: one level too many.
DescendantsBelow(g, n, depth) ==
  LET level[k \in 1..depth + 1] == IF k = 1 THEN ChildrenOf(g, n) ELSE UNION {ChildrenOf(g, c) : c \in level[k - 1]}
  IN  UNION {level[k] : k \in 1..depth + 1}

\* GetDescendants: children are level one, and levels up to depth are returned.
Descendants(g, n, depth) ==
  LET level[k \in 1..depth] == IF k = 1 THEN ChildrenOf(g, n) ELSE UNION {ChildrenOf(g, c) : c \in level[k - 1]}
  IN  UNION {level[k] : k \in 1..depth}

\* GetSiblings: no row equals a NULL parent, so a root has none.
Siblings(g, n) ==
  IF n \notin DOMAIN g \/ g[n].parent = NoNode THEN {} ELSE ChildrenOf(g, g[n].parent) \ {n}

-----------------------------------------------------------------------------
(* Ranking and the budget.  A ranked list is a sequence of nodes with the  *)
(* rows they were read with.                                               *)

UsedBy(list) ==
  LET used[k \in 0..Len(list)] == IF k = 0 THEN 0 ELSE used[k - 1] + Tokens(list[k].row)
  IN  used[Len(list)]

\* Mutant: the first node that does not fit ends the list.
FillUntilFull(list, budget) ==
  LET fits(k) == UsedBy(SubSeq(list, 1, k)) <= budget
      most    == {k \in 0..Len(list) : fits(k)}
  IN  SubSeq(list, 1, CHOOSE k \in most : \A j \in most : j <= k)

\* fillBudget: a node that does not fit is passed over, and smaller ones follow.
FillBudget(list, budget) ==
  LET kept[k \in 0..Len(list)] ==
        IF k = 0 THEN <<>>
        ELSE IF UsedBy(kept[k - 1]) + Tokens(list[k].row) > budget THEN kept[k - 1]
        ELSE Append(kept[k - 1], list[k])
  IN  kept[Len(list)]

Ranked(rows) == {[i \in DOMAIN order |-> [node |-> order[i], row |-> rows[order[i]]]]
                   : order \in SetToSeqs(DOMAIN rows)}

Within(list, budget) == IF budget = 0 THEN list ELSE FillBudget(list, budget)

\* The rows of three batches; the first one a node is in decides.
FirstRows(batches, anchor) ==
  LET among == (UNION {DOMAIN batches[i] : i \in DOMAIN batches}) \ {anchor}
      first(n) == CHOOSE i \in DOMAIN batches :
                    n \in DOMAIN batches[i] /\ \A j \in 1..i - 1 : n \notin DOMAIN batches[j]
  IN  [n \in among |-> batches[first(n)][n]]

-----------------------------------------------------------------------------
(* MemoryFetch.                                                            *)

Clamp(depth, default) ==
  CASE depth <= 0 -> default
    [] depth > DepthCap -> DepthCap
    [] OTHER -> depth

Fetch(anchor, budget, depth) ==
  /\ read = Resting
  /\ anchor \in DOMAIN nodes
  /\ read' = [step |-> "collect", anchor |-> anchor, row |-> nodes[anchor], budget |-> budget,
              depth |-> Clamp(depth, MaxDepth), batches |-> [b \in {} |-> EmptyGraph], during |-> {nodes}]
  /\ UNCHANGED <<nodes, temps>>

Batch(b) ==
  CASE b = 1 -> Ancestors(nodes, read.anchor)
    [] b = 2 -> Descendants(nodes, read.anchor, read.depth)
    [] b = 3 -> Siblings(nodes, read.anchor)

\* One of the goroutines: 1 the ancestors, 2 the descendants, 3 the siblings.
Collect(b) ==
  /\ read.step = "collect"
  /\ b \notin DOMAIN read.batches
  /\ read' = [read EXCEPT !.batches = [c \in DOMAIN @ \cup {b} |->
                IF c = b THEN Rows(nodes, Batch(b)) ELSE @[c]]]
  /\ UNCHANGED <<nodes, temps>>

Answers(kind, asked, found, list, during) ==
  /\ read' = [step |-> "answered", kind |-> kind, asked |-> asked, found |-> found,
              list |-> list, during |-> during]
  /\ UNCHANGED <<nodes, temps>>

\* Mutant: the anchor does not count against the budget.
RemainingOfAll == read.budget

Remaining == IF Tokens(read.row) > read.budget THEN 0 ELSE read.budget - Tokens(read.row)

\* The rest is ranked and cut to what the anchor leaves; the anchor goes last.
AnswerFetch ==
  LET rows == FirstRows(read.batches, read.anchor) IN
  /\ read.step = "collect"
  /\ DOMAIN read.batches = 1..3
  /\ \E list \in Ranked(rows) :
       Answers("fetch", read, rows,
               Append(Reverse(IF read.budget = 0 THEN list ELSE FillBudget(list, Remaining)),
                      [node |-> read.anchor, row |-> read.row]), read.during)

\* A goroutine's query fails, or the caller gives up.
FailFetch ==
  /\ read.step = "collect"
  /\ read' = Resting
  /\ UNCHANGED <<nodes, temps>>

-----------------------------------------------------------------------------
(* MemoryFetchBatch and MemorySearch read in one statement.                *)

\* The ids in the caller's order, each once, as many as fit.
FetchBatch(ids, budget) ==
  LET found == [n \in ids \cap DOMAIN nodes |-> nodes[n]] IN
  /\ read = Resting
  /\ ids # {}
  /\ \E list \in Ranked(found) :
       Answers("batch", [ids |-> ids, budget |-> budget], found, Within(list, budget), {nodes})

\* Hits are the best SearchLimit of the stored nodes the full-text index matches.
Search(matching, hits, budget) ==
  /\ read = Resting
  /\ hits \subseteq DOMAIN nodes
  /\ Cardinality(hits) = Min({SearchLimit, Cardinality(matching \cap DOMAIN nodes)})
  /\ \E list \in Ranked(Rows(nodes, hits)) :
       Answers("search", [ids |-> hits, budget |-> budget], Rows(nodes, hits),
               Reverse(Within(list, budget)), {nodes})

-----------------------------------------------------------------------------
(* MemoryTree.                                                             *)

\* Mutant: a node at the depth still hands over its children.
WalkBelow(g, roots, depth) ==
  LET level[k \in 0..depth + 1] == IF k = 0 THEN roots ELSE UNION {ChildrenOf(g, n) : n \in level[k - 1]}
  IN  [n \in UNION {level[k] : k \in 0..depth + 1} |-> CHOOSE k \in 0..depth + 1 : n \in level[k]]

\* The nodes a walk down from the roots visits, each with its indentation.
Walk(g, roots, depth) ==
  LET level[k \in 0..depth] == IF k = 0 THEN roots ELSE UNION {ChildrenOf(g, n) : n \in level[k - 1]}
  IN  [n \in UNION {level[k] : k \in 0..depth} |-> CHOOSE k \in 0..depth : n \in level[k]]

\* Below a node, or below all those without a parent.
Tree(root, depth) ==
  /\ read = Resting
  /\ root \in DOMAIN nodes \cup {NoNode}
  /\ read' = [step |-> "shown", root |-> root, depth |-> Clamp(depth, TreeDepth), during |-> {nodes},
              found |-> Walk(nodes, IF root = NoNode THEN ChildrenOf(nodes, NoNode) ELSE {root},
                             Clamp(depth, TreeDepth))]
  /\ UNCHANGED <<nodes, temps>>

EndTree ==
  /\ read.step = "shown"
  /\ read' = Resting
  /\ UNCHANGED <<nodes, temps>>

-----------------------------------------------------------------------------
Returned == {s.node : s \in ToSet(read.list)}

\* boostResultNodes: the rows that are still there; a failure is only logged.
Boost ==
  /\ read.step = "answered"
  /\ read' = Resting
  /\ \/ temps' = [n \in DOMAIN temps |->
                    IF n \in Returned /\ temps[n] < TopTemp THEN temps[n] + 1 ELSE temps[n]]
     \/ UNCHANGED temps
  /\ UNCHANGED nodes

\* What a commit of anybody else means to the history of the read.
Watch == read' = IF read.step = "collect" THEN [read EXCEPT !.during = @ \cup {nodes'}] ELSE read

ReadInit == read = Resting

StartRead ==
  \/ \E n \in Anchors : \E b \in Budgets : \E d \in Depths : Fetch(n, b, d)
  \/ \E n \in Anchors \cup {NoNode} : \E d \in Depths : Tree(n, d)
  \/ \E ids \in Asks : \E b \in Budgets : FetchBatch(ids, b)
  \/ \E ids \in Asks : \E b \in Budgets : \E hits \in SUBSET ids : Search(ids, hits, b)

Reads == (\E b \in 1..3 : Collect(b)) \/ AnswerFetch \/ FailFetch \/ Boost \/ EndTree

-----------------------------------------------------------------------------
(* Properties.                                                             *)

LeftOut == DOMAIN read.found \ Returned

\* An answer stays within its budget, names no node twice, and leaves out only what would not
\* have fitted with the rest; a fetch has its anchor, last, even if that alone is too much.
FetchFits ==
  read.step = "answered" =>
    LET used   == UsedBy(read.list)
        budget == read.asked.budget
        anchor == IF read.kind = "fetch" THEN Tokens(read.asked.row) ELSE 0
        limit  == IF anchor > budget THEN anchor ELSE budget
    IN  /\ Cardinality(Returned) = Len(read.list)
        /\ Returned \subseteq DOMAIN read.found \cup (IF read.kind = "fetch" THEN {read.asked.anchor} ELSE {})
        /\ read.kind = "fetch" => Last(read.list).node = read.asked.anchor
        /\ IF budget = 0 THEN LeftOut = {}
           ELSE used <= limit /\ \A n \in LeftOut : used + Tokens(read.found[n]) > limit

Above(g, n) == Ancestors(g, n) \ {n}

\* The context of n in one state of the store.
ContextIn(g, n, depth) ==
  IF n \notin DOMAIN g THEN {}
  ELSE Above(g, n)
         \cup {m \in DOMAIN g : n \in Above(g, m) /\ Cardinality(Above(g, m)) <= Cardinality(Above(g, n)) + depth}
         \cup {m \in DOMAIN g \ {n} : g[m].parent = g[n].parent /\ g[n].parent # NoNode}

SeesContext ==
  LET anchor == read.asked.anchor
      sees(n, g) == n \in ContextIn(g, anchor, read.asked.depth) /\ g[n] = read.found[n]
  IN  /\ \A n \in DOMAIN read.found : \E g \in read.during : sees(n, g)
      /\ Cardinality(read.during) = 1 =>
           \A g \in read.during : DOMAIN read.found = ContextIn(g, anchor, read.asked.depth)

SeesTree(g) ==
  LET above(n) == Cardinality(Above(g, n))
      below(n) == above(n) - (IF read.root = NoNode THEN 0 ELSE above(read.root))
  IN  read.found = [n \in {m \in DOMAIN g : (read.root = NoNode \/ read.root \in Ancestors(g, m))
                                             /\ below(m) <= read.depth} |-> below(n)]

\* A fetch over a store that did not change meanwhile has exactly the anchor's context; one
\* over a store that did has only rows that were stored, as they were and in the anchor's
\* context, at some time while it ran.  A tree has every stored node whose parents lead to
\* the root it was asked for, or to none, in that many steps: nothing is stored that no walk
\* from the roots would reach.
FetchSees ==
  /\ read.step = "answered" /\ read.kind = "fetch" => SeesContext
  /\ read.step = "shown" => \A g \in read.during : SeesTree(g)
=============================================================================
