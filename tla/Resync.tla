------------------------------ MODULE Resync -------------------------------
(***************************************************************************)
(* A client that keeps up with the version trail: it pages through           *)
(* MemoryDelta from the last snapshot it knows, follows the note of a        *)
(* truncated page, and fetches the nodes it was told of, while others        *)
(* commit snapshots and roll back.                                         *)
(*                                                                         *)
(* The writers are VersionTrail seen from here: a snapshot has a row for     *)
(* each node its call changed, and a rollback undoes the rows after its     *)
(* target.  But the delete of a node cascades, and has rows for the nodes   *)
(* the call was to change only; and a compile of a directory adds nodes     *)
(* that it takes for absent although they are there.                       *)
(* MaxSnapshot bounds the snapshots; PageCap stands for maxDeltaLimit.      *)
(***************************************************************************)
EXTENDS Naturals, Sequences, SequencesExt, FiniteSetsExt

CONSTANTS
  Node,
  Texts,         \* the contents each node can have
  Gone,          \* no row
  MaxSnapshot,
  PageCap

ASSUME ResyncAssumption ==
  /\ IsFiniteSet(Node)
  /\ \A n \in Node : Gone \notin Texts[n]
  /\ MaxSnapshot \in Nat /\ PageCap \in Nat \ {0}

VARIABLES
  content,     \* of each node, as the table has it, Gone if it does not
  snaps,       \* the ids of the snapshots that are there
  diffs,       \* their rows: each a snapshot, a node, and the content before
  seq,         \* the last snapshot id given out, and the head
  since,       \* the snapshot the client resumes from
  limit,       \* the page size it asks for
  diffing,     \* the snapshot a note told it to read with MemoryDiff, or 0
  told,        \* nodes it was told of and has not fetched since
  view,        \* what it knows of each node
  world,       \* history variable: the content each snapshot committed, and the first one
  fetched,     \* history variable: the head when it last fetched each node
  unrowed      \* history variable: nodes that changed behind its back, without a row

vars == <<content, snaps, diffs, seq, since, limit, diffing, told, view, world, fetched, unrowed>>
trail == <<content, snaps, diffs, seq, world>>
clientVars == <<since, limit, diffing, told, view, fetched>>

-----------------------------------------------------------------------------
\* The rows of some snapshots, in their order.
RowsOf(ds, S) ==
  LET rows[i \in 0..Len(ds)] ==
        IF i = 0 THEN <<>>
        ELSE IF ds[i].snapshot \in S THEN Append(rows[i - 1], ds[i]) ELSE rows[i - 1]
  IN  rows[Len(ds)]

-----------------------------------------------------------------------------
\* Writers

Tables ==
  {t \in [Node -> UNION {Texts[n] : n \in Node} \cup {Gone}] :
     \A n \in Node : t[n] \in Texts[n] \cup {Gone}}

Changed(intended) == {n \in Node : intended[n] # content[n]}

\* The row of a node: an `add` says that there was none before.
RowFor(id, n, intended, blind) ==
  [snapshot |-> id, node |-> n,
   op  |-> IF n \in blind \/ content[n] = Gone THEN "add" ELSE IF intended[n] = Gone THEN "rem" ELSE "mod",
   old |-> IF n \in blind THEN Gone ELSE content[n]]

\* Mutant: the identifiers of pruned snapshots are given out again.
NextIdReused(kept) == Max(kept \cup {0}) + 1

\* AUTOINCREMENT.
NextId(kept) == seq + 1

\* A snapshot with a row for each node the call was to change, and for those it took for
\* absent.  The deletes come between the upserts, and cascade: nodes `taken` along can be some
\* that the call leaves alone, or some that it has just put there.
Land(intended, blind, kept, orphans) ==
  LET id    == NextId(kept)
      rowed == Changed(intended) \cup blind
  IN
  /\ seq < MaxSnapshot
  /\ rowed # {}
  /\ seq' = id
  /\ snaps' = kept \cup {id}
  /\ diffs' = RowsOf(diffs, kept) \o SetToSeq({RowFor(id, n, intended, blind) : n \in rowed})
  /\ \E taken \in SUBSET {n \in Node : intended[n] # Gone} :
       /\ taken # {} => \E n \in Changed(intended) : intended[n] = Gone
       /\ content' = [n \in Node |-> IF n \in taken THEN Gone ELSE intended[n]]
       /\ unrowed' = unrowed \cup ((taken \cup orphans) \ rowed)
  /\ world' = [s \in snaps' \cup {0} |-> IF s = id THEN content' ELSE world[s]]
  /\ UNCHANGED clientVars

Present(intended) == {n \in Node : content[n] # Gone /\ intended[n] # Gone}

\* Any call that emits a snapshot.
Commit == \E intended \in Tables : \E blind \in SUBSET Present(intended) : Land(intended, blind, snaps, {})

\* reverseApplyDiff: what is not there is not modified back.
Undone(row, now) == IF row.op = "mod" /\ now = Gone THEN Gone ELSE row.old

\* RestoreToSnapshotTx: the rows after the target undone, the newest first.
Restored(target) ==
  FoldRight(LAMBDA row, now : [now EXCEPT ![row.node] = Undone(row, @)],
            RowsOf(diffs, {s \in snaps : s > target}), content)

\* The head at which what the client knows of a node was true.
KnownAt(n) == Max({since, fetched[n]})

\* What a pruning rollback can change without a row after the snapshot a client knows: nodes
\* known from a snapshot that goes, and nodes that it does not put back to what they were.
Orphans(target) ==
  {n \in Node : target < KnownAt(n) /\ KnownAt(n) < seq}
    \cup {n \in Node : Restored(target)[n] # world[target][n]}

Rollback(target, dropAfter) ==
  /\ target \in snaps /\ target < seq
  /\ IF dropAfter
     THEN Land(Restored(target), {}, {s \in snaps : s <= target}, Orphans(target))
     ELSE Land(Restored(target), {}, snaps, {})

-----------------------------------------------------------------------------
\* MemoryDelta

DiffsSince(s) == RowsOf(diffs, {t \in snaps : t > s})

Page(ds, truncated, overflow) == [diffs |-> ds, truncated |-> truncated, overflow |-> overflow]

\* Mutant: the rows of a snapshot that does not fit are kept in part.
DeltaUntrimmed(from, max) ==
  LET all == DiffsSince(from) IN
  IF Len(all) <= max THEN Page(all, FALSE, FALSE)
  ELSE Page(SubSeq(all, 1, max), TRUE, all[1].snapshot = all[max + 1].snapshot)

\* Mutant: a page is trimmed back even if nothing is left.
DeltaTrimsAll(from, max) ==
  LET all == DiffsSince(from) IN
  IF Len(all) <= max THEN Page(all, FALSE, FALSE)
  ELSE Page(RowsOf(SubSeq(all, 1, max), snaps \ {all[max + 1].snapshot}),
            TRUE, FALSE)

\* Engine.Delta: one row more than the page shows whether there is more, and whether the
\* last snapshot of the page is complete.
Delta(from, max) ==
  LET all  == DiffsSince(from)
      page == SubSeq(all, 1, max)
      last == all[max].snapshot
  IN
  IF Len(all) <= max THEN Page(all, FALSE, FALSE)
  ELSE IF all[max + 1].snapshot # last THEN Page(page, TRUE, FALSE)
  ELSE IF all[1].snapshot = last THEN Page(page, TRUE, TRUE)
  ELSE Page(RowsOf(page, snaps \ {last}), TRUE, FALSE)

NodesOf(ds) == {ds[i].node : i \in DOMAIN ds}

LastOf(ds) == ds[Len(ds)].snapshot

\* Where the client resumes: at the last snapshot of the page, if there is one.
Resumed(page) == IF page.diffs = <<>> THEN since ELSE LastOf(page.diffs)

\* The page has all there is; with no rows at all the client keeps its snapshot.
LastPage(page) ==
  /\ ~page.truncated
  /\ since' = Resumed(page)
  /\ UNCHANGED <<limit, diffing>>

\* A page cut short on a boundary between snapshots.
Continues(page) ==
  /\ page.truncated /\ ~page.overflow
  /\ since' = Resumed(page)
  /\ UNCHANGED <<limit, diffing>>

\* One snapshot is more than a page: ask for more rows, or use MemoryDiff.
Overflows(page) ==
  /\ page.overflow
  /\ \/ limit < PageCap /\ limit' \in limit + 1 .. PageCap /\ UNCHANGED diffing
     \/ limit = PageCap /\ diffing' = LastOf(page.diffs) /\ UNCHANGED limit
  /\ UNCHANGED since

MemoryDelta ==
  LET page == Delta(since, limit) IN
  /\ diffing = 0
  /\ told' = told \cup NodesOf(page.diffs)
  /\ LastPage(page) \/ Continues(page) \/ Overflows(page)
  /\ UNCHANGED <<trail, view, fetched, unrowed>>

-----------------------------------------------------------------------------
DiffsBetween(from, to) == RowsOf(diffs, {t \in snaps : from < t /\ t <= to})

\* MemoryDiff(since, diffing): the snapshot right after since, unless it is gone by now.
MemoryDiff ==
  /\ diffing # 0
  /\ told' = told \cup NodesOf(DiffsBetween(since, diffing))
  /\ since' = diffing
  /\ diffing' = 0
  /\ UNCHANGED <<trail, limit, view, fetched, unrowed>>

\* MemoryFetchBatch of the nodes it was told of, the ones that are gone reported missing.
FetchBatch ==
  /\ told # {}
  /\ told' = {}
  /\ view' = [n \in Node |-> IF n \in told THEN content[n] ELSE view[n]]
  /\ fetched' = [n \in Node |-> IF n \in told THEN seq ELSE fetched[n]]
  /\ unrowed' = unrowed \ told
  /\ UNCHANGED <<trail, since, limit, diffing>>

Init ==
  /\ content = [n \in Node |-> Gone]
  /\ snaps = {}
  /\ diffs = <<>>
  /\ seq = 0
  /\ since = 0
  /\ limit \in 1 .. PageCap
  /\ diffing = 0
  /\ told = {}
  /\ view = content
  /\ world = [s \in {0} |-> content]
  /\ fetched = [n \in Node |-> 0]
  /\ unrowed = {}

Next ==
  \/ Commit
  \/ \E s \in 1 .. seq, d \in BOOLEAN : Rollback(s, d)
  \/ MemoryDelta
  \/ MemoryDiff
  \/ FetchBatch

\* The client goes on until it has caught up.
Spec == Init /\ [][Next]_vars
             /\ WF_vars(MemoryDelta) /\ WF_vars(MemoryDiff) /\ WF_vars(FetchBatch)

-----------------------------------------------------------------------------
(* Properties *)

\* Paging is lossless: a client that is told of nothing more and has fetched what it was
\* told of knows every node as it is, however its pages fall between snapshots, commits
\* and rollbacks; but for nodes that a cascade took without a row, or that a pruning rollback
\* changed without one that it could see.
CaughtUp ==
  told = {} /\ diffing = 0 /\ DiffsSince(since) = <<>> =>
    \A n \in Node \ unrowed : view[n] = content[n]

\* The client never gets stuck on a page: once nobody writes, it has caught up in the end.
Arrives == <>[](told = {} /\ diffing = 0 /\ DiffsSince(since) = <<>>)
=============================================================================
