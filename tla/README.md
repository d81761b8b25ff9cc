# remindb in TLA+

remindb keeps an agent's notes as a versioned graph of nodes in one SQLite file. A compiler turns
source files into nodes; an MCP server offers tools that read and change the graph, and runs
loops in the background that rescan the sources, cool nodes down, and write down who connected.
This directory models that program: TLA+ modules translated from the Go source, TLC
configurations that check them on small instances, and TLAPS proofs of what holds for every
instance. Paths are relative to the repository's root.

    tlc -config history.cfg MCVersionTrail.tla         # any row of the table of runs
    tlapm TrailProofs.tla                              # any module of the table of theorems

## The system

| Component | State it keeps | Operations | Interacts with |
|---|---|---|---|
| Version trail (`pkg/store/snapshot.go`, `pkg/emitter`, `pkg/diff`) | tables `snapshots`, `diffs`, `cursors` | emit a snapshot, restore, prune, fold diffs | every tool that changes memory emits through it, in the transaction that changes the nodes |
| Node table (`pkg/store/node.go`) | table `nodes`, with a self-reference that cascades | upsert, delete, list by file, by parent, by root | trail, relations (their keys cascade from it) |
| Mutating tools (`pkg/mcp/tools`) | none; hold `Store.OpMu` while they run | write, summarise, forget (strict, cascade, reparent), compile, rollback, relate, pin | read the graph, compute deltas, emit, touch the notifier |
| Transactions (`pkg/store/db.go`) | `OpMu`, `txMu`, SQLite's write lock | run in a transaction, again when busy | handlers of this server; other servers on the file |
| Compiler (`pkg/compiler`, `pkg/parser`, `pkg/transformer`) | none | parse files in parallel, diff against the stored nodes, emit and link in one transaction | trail, relations |
| Relations (`pkg/relations`, `pkg/store/relations.go`) | tables `relations`, `pending_relations`; a trigger on the deletion of nodes | resolve wiki-links, park the ones that do not resolve, retry | nodes: deleting one turns edges into pending rows |
| Rescan (`pkg/mcp/rescan`) | modification times last seen, in memory | walk, purge what was deleted, compile what changed | files (which others edit meanwhile), compiler, trail |
| Temperature (`pkg/temperature`) | column `temperature`; nodes recently warned about, in memory | boost on read, decay on tick, list the cold, warn | tools boost and pin; sessions receive warnings |
| Resource notifier (`pkg/mcp/notify`) | one timer per resource | touch, fire, close | callbacks of the Go timers; MCP sessions |
| Sessions and ledger (`pkg/mcp/session`, `pkg/mcp/ledger`) | live sessions in memory, an append-only file per client | observe, flush, compact on start | the protocol library's sessions; other servers of the workspace |
| Delta paging (`pkg/query/engine.go`, `pkg/mcp/tools/delta.go`) | none: the client keeps the snapshot it knows | a page of diffs and a note on how to go on | trail, which rollbacks may prune under it |
| Search and context (`pkg/query`, `pkg/store/search.go`) | none | rank, cut to a token budget, walk the tree and the links | reads while compiles commit; boosts what it returned |
| Patterns and seeds (`internal/pathmatch`, `internal/tempfile`) | none: `.remindb/ignore`, `pinned`, `temperatures.json` | match a path, resolve a temperature | the walk of the compiler |
| Doctor (`pkg/doctor`, `pkg/store/doctor.go`) | none; a process of its own | check, repair | the database, with servers on it or not |
| Migrations (`pkg/store/migrate.go`, `migrations`) | table `schema_migrations` | apply what is missing | every process that opens the database |
| Logs (`pkg/mcp/sessionlog`, `jsonlsink`, `rescanlog`, `pkg/logbuf`) | rotating files, a ring in memory | append, rotate, list | resources list them |
| Views (`pkg/mcp/resources`, `pkg/inspect`) | none | render | read-only |
| Configuration, redaction (`pkg/config`, `internal/redaction`) | none | pure functions; the loops read the configuration again at every tick | everything above |
| Command line and server (`cmd/remindb`, `pkg/mcp/server.go`) | wiring | start loops, register tools | everything above |

What is hard here:

- **One statement against many.** A tool reads the graph in several statements, computes deltas,
  and then commits. In one server `OpMu` keeps others out; between servers on one file nothing
  does until the transaction.
- **History that must be undoable.** A snapshot keeps one row per changed node, with what the node
  was. Cascades, promotions and rollbacks change nodes as side effects; a change without a row, or
  a row with a stale old side, makes an older snapshot unrecoverable, long after the call.
- **Order.** Deltas are applied one at a time, in the order of hashes, while cascades act at once;
  pruning happens after the new snapshot is inserted.
- **Files.** A compile walks, measures, reads and parses file by file in goroutines, while an editor
  writes, removes and renames; patterns and seeds change too, and agents pin what is being replaced.
- **Time.** The rescan compares what it saw with what it reads later; timers fire while they are
  being reset; a warning is sent after the query that chose the node; a suppression expires.
- **Loss.** Modification times, suppressions and session counts are in memory and go with a crash;
  a purge can commit and the compile after it fail; a note can send a client past a page.

Per component, what makes it correct: the trail is one chain to HEAD, never rewritten, and walks
back exactly; concurrent tools amount to one after the other, and return; a link is always an edge
or a pending row; no edit and no deletion is missed; no touch is lost; no node is warned about
twice too soon, none silently suppressed; a client's history neither loses nor doubles a session;
a client that follows the notes ends up with what the graph says;
what a compile stores is what the patterns keep, as the files had it; a pin an agent chose survives;
an answer fits its budget and holds what was stored while it was put together; a repair heals and
leaves a healthy database alone.

## The modules

`NodeTree` — what the schema does to a table of rows with parents: `Put`, `Cascade` (ON DELETE CASCADE),
`Drop`, `FKIntact`. `NodeGraph` — the node table of the trail and the pure operators on it:
`Parses` (what parsing files can yield), `DiffFlat` (the diff engine), `PreState` and `RowsFor`
(the diff rows), `Undo` (`reverseApplyDiff`). A node is its parent, file and content; identifiers
are numbers because the order of the hashes shows. Hash collisions are left out.

`VersionTrail` — the tables `nodes`, `snaps`, `diffs`, `head` and one action per handler that
lands a snapshot: `Write`, `Summarize`, `ForgetStrict`, `ForgetCascade`, `ForgetReparent`,
`CompileDir`, `CompileFiles`, `PurgeFiles`, `Rollback` (with and without `drop_after`). Each ends in
`Land`, as each handler ends in one transaction. `world` is a history variable: the node table each
snapshot committed. A call that fails or changes nothing is a stuttering step. `RestoreToSnapshot`
and `ConsolidateDiffs` are the reads that the properties compare with `world`. `MCVersionTrail`
names trees and sets of calls.

`SnapshotLog` — the abstract specification: a log of entries that never change, each on top of the one
before, cut only at its tail. `VersionTrail` implements it (`LogRefined`, where an entry is a snapshot
with the node table it committed).

`SharedTrail` — extends `VersionTrail` with goroutines that wait for `OpMu`, read statement by
statement, and commit; any step may fail. `Deployments` says how goroutines are spread over servers;
each server has its own `OpMu`, and the transaction is all that servers share.

`Doctor` — extends `SharedTrail` with `remindb doctor`: each check is a statement (HEAD's is two) and
each repair another, over the servers' database or over one damaged from outside. `MCSharedTrail`
has two goroutines of one server or of two, and what is left of a small database without some of
its rows.

`PathMatch` — lines of patterns as operators: `ParsePattern`, `MatchPath`, `Match`, `Kept` (what a
walk keeps), `Pinned`; beside them what a list of lines says (`Said`), without recursion.
`TempFile` — `LoadTemps` builds the tree of `temperatures.json` in any order of its keys, `Resolve`
looks a path up; beside them what the file says (`SaidOf`, `Consistent`).

`DirCompile` — one compile of a directory: `StartDir` or `StartRescan` (the walk, patterns and
seeds), `Begin` and `Read` per file, `FailFile`, `Join` (the comparison), `Commit`, `Reseed`, `Fail`;
around it an editor (`Edit`, `EditConfig`) and agents (`SetPinned`). `chosen` is a history variable
for the pins. `InitialCompile` is the one a server starts over an empty table.

`ContextFetch` — `Fetch` and its three `Collect`s, `AnswerFetch`, `FetchBatch`, `Search`, `FillBudget`
and the `Boost` of what was returned; `Tree` walks the whole table down from a root. `Workspace` composes it with `DirCompile` over one node
table: the reader's statements fall between the compiler's commits. `MCWorkspace` has two
files, one in a directory, and four configurations, one of which contradicts itself.

`RelationGraph` — `relations` and `pending` beside a table of rows with parents and labels, under compiles,
forgets, purges, rollbacks and `MemoryRelate`. `Upserted` and `Deleted` are the two statements, the second with
its cascades and the trigger (`Repended`); a handler is a few of them and `Committed`, and a rollback is
`InIdOrder`, one statement per delta. `Compile` is `emit` followed by `RunTx` in the same transaction.
`struck` is a history variable: the rows a call deleted, to put back or not. `RelatedWalk` — extends it
with `MemoryRelated`: the recursive query as the set of its rows, grouped, ordered, limited, and cut to the
budget of the call or the configured one. `MCRelationGraph` has a heading above a
section and a heading in another file, whose links and manual edges can form chains, cycles and loops.

`RescanLoop` — a scan as `Start`, `Visit`, `Purge`, `Read`, `Commit` and their failures, among edits,
removals, `MemoryCompile` and a restart. `modTimes` and `stored` are the loop's map and the store;
`config` and `enabled` are what `config.json` says and what the loop last made of it.

`ColdNotify` — `Decay`, `Query` and `Handle` are the three points of a tick between which handlers
boost and pin and clients come, set their logging level or not, and go; `recentlyNotified` is the tracker's map, and
the history variables `last` and `unheard` keep which marks came with a warning that was sent. `Reconfigure` and
`SkippedTick` are the configuration and a tick of a disabled ticker.

`Publisher` — `Touch`, `Expire` (the timer starts a goroutine), `Untrack` (the critical section of
`fire`), `Send`, `Close`. `MCPublisher` gives two URIs windows of different length.

`SessionLedger` — connections, the registry of each process, `Flush` with its appends one by one,
compaction in three steps, `Stop`, `Exit` and `Crash`. `files` holds the lines; readers keep the
last line of a session. `Migrations` — what a process does when it opens the database: `OpenDatabase`
reads the records once, `Apply` is a migration with its record. `ServerStart` composes the two: a
process serves only when it has migrated, and a killed one closes the database. In `MCServerStart`
another command opens it too.

`Resync` — a client that pages through `MemoryDelta`, follows the notes and fetches, while others
commit and roll back. The writers are `VersionTrail` seen from the rows: `Land` writes a row for each node a
call was to change (`RowFor`), for a compile also for nodes it takes for absent (`blind`), and none for those
that the cascade of a delete takes along (`taken`); a rollback restores what the rows say, which need not be
what its target was. In `MCResync` a snapshot can be larger than a page.

`Logs` — a log call goes down the handlers: `Lock`, `Rotate`, `Open`, `Write` under the sink's mutex,
then `Buffer` into the ring; `OpenLog` and `Scan` read the session's file, `ReadRecords` and
`ReadDropped` the ring. Files are inodes with two names. `MCLogs` adds the symmetry of goroutines.

Two refinements: the trail implements `SnapshotLog`, and what servers do step by step implements
`VersionTrail` when there is one of them (`AtomicTrail`, whose mapping is the identity on the tables).
What the trail promises to readers is stated on `world`, which no code has.

Operators introduced as "Mutant:" are plausible mistakes, one or two for each
property, with which the property fails. No specification uses them.

## The runs

| Run | Instance | Shows |
|---|---|---|
| `history` | a heading, a section and a paragraph with identifiers out of tree order, one written node, two contents, four snapshots, every call | `TypeOK`, `UniqueCursor`, `Rooted`, `LogRefined`: one history, never rewritten; `StepReversible`, `RestoreExact`, `NetChangeExact`, `RollbackLands`: rows alone rebuild every snapshot, diffs are net changes, rollbacks land |
| `servers` | two goroutines of one server or of two, a heading and a written node, three snapshots, pruning included; a doctor beside them, or on sixteen damaged databases | `AtomicTrail`: one server's commits are atomic calls; `LinearChain` for both deployments; `CallsReturn`; `DoctorHeals` |
| `workspace` | a file in a directory and one beside it, each with two texts or absent or malformed, one text oversize, four configurations, two workers, three acts of the environment | `StoredIsCompiled`, `TempsAsSaid`, `ChoiceKept`, `CompileReturns`; `FetchFits`, `FetchSees` |
| `links` | a heading above a section in one file, a heading of the same label in another, links by label, by label and file, and by hand by identifier, rollbacks to the table before; two weights, depths, limits and budgets | `LinkKept`, `Healed`, `FallsBack`; `RelatedRight` on every graph this leads to |
| `rescan_races` | two files, three edits of files or configuration, one restart, one failure | `NoLostEdit`, `ChangesArrive`, `DeletionsArrive` |
| `updates` | two URIs with windows of one and two, four touches | `NoDeadEntry`, `NoTouchLost`, `Delivered` |
| `cold_warnings` | two nodes, temperatures of 0 to 3, a suppression of two ticks, any edits of the configuration | `MarkedWasSent`, `NotTwice`, `ColdIsNotified` |
| `sessions` | one process that restarts, two connections of two calls; another command that opens the database, which has none, one or both of two migrations | `SchemaCurrent`; `NeverDoubleCounts`, `CheckpointKept`, `Recorded` |
| `resync` | three nodes of one content, pages of one or two rows, three snapshots | `CaughtUp`, `Arrives` |
| `logs` | two goroutines, lines of one and three under a cap of two, a ring of two, three records, one failure, one crash | `ReadsInOrder`, `TailKept`, `MissingTold` |
| `restore_after_drop` | a violation: see below | `RestoreEverywhere` fails with pruning rollbacks |
| `rollback_of_promotion` | a violation: see below | `RollbackAlwaysLands` fails after a promotion |

The wording of each property, with the code it speaks of, is in the module. The one type
invariant that TLC checks, and TLAPS proves, is `VersionTrail`'s, whose tables most modules build on;
the others would only say what the actions of a page say.

### Why the bounds are enough

A snapshot's properties relate it to the one before, to the calls that touch its nodes next, and to
a rollback over both: the shortest failures known (below) take three and four snapshots, and four
let a rollback be rolled back. A tree of depth three is the least in which a cascade takes a node
whose parent is also written; the twisted numbering puts a child before its parent in the order of
identifiers and the grandchild between them. Two contents make a content come back. Two
goroutines are enough for a race on one lock, as no step waits for a third; the proofs of
`TrailProofs` hold for any number. A damaged database needs one row that points nowhere of
each kind, and what is left of two nodes and two snapshots has all of their combinations.

In `workspace` one act starts a compile, one changes a file between its measuring and its reading (or a
pin between its read and its commit) and one starts a read, which is the least in which all three
actors meet; two initial states put the files above and below each bound. Two workers are as many as
the files. A pattern that skips the directory with one that takes the file back, a `**`, and a
pattern of one segment cover the branches of `Match`; seeds with `*` at both depths, an explicit
key without temperature and a conflict those of `Resolve` and `insertKey`.

In `rescan_races` two files let one be purged while the other is compiled; three edits let a file be
created, changed and put back in one scan, or the loop be disabled and enabled around an edit; times
are whole units of the settle window, so every comparison can fall either way. Four touches
arm a timer, reset it while its goroutine waits, and start another. In `cold_warnings`
the limit is not below the number of nodes (see below for what happens otherwise). In `sessions`
two connections share a client, a second or a process in every way. In `resync` three nodes make a snapshot
larger than a page of two rows, and three snapshots let one be read, one pruned and one land. Two migrations are the least with a state between them, and one that can
be repeated comes before one that cannot, as in `migrations`. In `logs` a line of three is longer than the cap, and three records
fill the ring over and discard a rotated file. In `links` the heading comes before the section in the
order of identifiers, so a rollback can delete the one and then put the other back; its three nodes with
manual edges close cycles and loops, and a depth of two goes round them. The depths of a read are none, one, and more than
`ClampDepth` lets through, whose cap `DepthCap` stands for. Each bound is a constant named in its module's header; no property
speaks of a state at a bound, except that edits, touches, acts and snapshots end, which is what
"once nobody writes" means in the liveness properties.

Contents and goroutines that nothing tells apart are declared symmetric (`history`, `logs`); those
runs check invariants and action properties only, for which that is sound.

`CHECK_DEADLOCK FALSE` stands where a bound on calls lets a history end (`history`,
`updates`, `resync`, `logs`, `workspace`, and the two violations). The other runs check for deadlock.

### Fairness

Handlers that hold the lock go on (weak fairness of `Work`), and `sync.Mutex` hands the lock to a waiter
that has waited for a millisecond, hence strong fairness of `Acquire`; a doctor beside them owes
nobody a step. A compile's goroutines go on, its errgroup waits for all of them, and the commit and
the reseed follow (weak fairness of `Compiling`). The rescan loop and the
temperature loop are tickers in goroutines: time passes and a scan or a tick goes on, weakly fair,
also the tick that only reads the configuration; what fails does so at most `MaxFailures` times.
Timers run out and their goroutines run. A flush comes with
its ticker, appends what it collected, and `Run` returns only after the last one. The client in
`Resync` goes on reading. Nothing obliges anybody to write, edit, touch, connect, read or leave, nor
to leave a loop enabled.

## Where the code departs from its documentation

Two departures have a run whose counterexample shows them:

- `restore_after_drop`: a rollback with `drop_after` deletes the rows after its target and keeps its
  own, which undo them. `MemoryWrite` stores a node, a second one changes it, and a rollback to the first snapshot
  drops the second: walking back from HEAD, `RestoreToSnapshot` undoes the `mod` row that is left, and
  reconstructs the first snapshot with the content of the second, which is pruned
  (`pkg/mcp/tools/rollback.go:103`; `pkg/store/snapshot.go:276`).
- `rollback_of_promotion`: compile a file, forget its root with `mode=reparent`, roll back to the compile and
  then to the promotion. The second rollback deletes the root that the first put back, the cascade takes its
  child with the grandchild, and only the child is put back: the grandchild has no delta
  (`pkg/mcp/tools/rollback.go:216`; `docs/versioning.md:41`).

Two more have no run, and the properties they would break exempt them:

- **Rollbacks unlink.** A compile puts a promoted section back below its heading and links the one to the other; a rollback to
  the promotion deletes the heading, the cascade takes the section with its edges and pending rows, and a
  later statement inserts the section again, without any: its link to the heading is gone until the file is compiled
  again (`pkg/mcp/tools/rollback.go:216`, `migrations/0003_relations.sql`; `docs/knowledge-graph.md:54`).
- **Silent clients count.** `ss.Log` returns no error for a session that has set no log level, and sends it nothing. With no
  other client the cold nodes are marked all the same, and a client that sets its level late is not warned of them
  until the TTL is over (`pkg/mcp/server.go:317`; `pkg/mcp/server.go:259`, `pkg/mcp/server_test.go:131`).

The other properties state the exception they need: `LinkKept` and `FallsBack` speak of rows that are
not struck, also within a rollback, and `MarkedWasSent` exempts nodes marked while every client was silent.
The properties of `history` do too. `RestoreExact`, `NetChangeExact`,
`StepReversible` and `RollbackLands` speak of snapshots that are `Exact`: one that knew its nodes
(`KnowsItsNodes`, below), pruned nothing (`Prunes`), and reached its target if it was a rollback. To
have reached it (`Reaches`) it must leave the table of the target and have no pruning snapshot to walk
over: one that has can leave the right table with rows that do not say how it got there, a `rem`
row for a node that was not there or a reappearing node without a row. It takes six snapshots to see, more than
`history` has; the proof of `StepsReversible` found it.
`RollbackLands` also asks that no node has moved to another parent since the target (`SamePlaces`).

Others were met while modelling. Each was seen as a counterexample or follows from the lines; each
property states the exception it needs:

- A directory compile takes a node that `MemoryWrite` changed last for absent, and lands an `add` row
  without the old content (`pkg/store/queries.go:34`, `pkg/compiler/compiler.go:634`;
  `docs/versioning.md:27`). Hence `KnowsItsNodes`.
- Two servers: `MemoryWrite` reads the node before its transaction, so its row can have an old side
  the other server has replaced (`pkg/mcp/tools/write.go:41`). Between two servers `servers` checks the
  chain, not the contents.
- A source whose last wiki-link is removed is skipped by `RunTx`, and its pending rows stay
  (`pkg/relations/compile.go:25`); edges from compiles are never deleted while both ends live.
- The trigger keeps a link without a file as one with the file of the node deleted
  (`migrations/0003_relations.sql:33`; `docs/knowledge-graph.md:54`): it does not follow a heading to
  another file. `FallsBack` lets a compiled link go to any file.
- The rescan knows deleted files from memory only, so one deleted while the server is down keeps its
  nodes (`pkg/mcp/rescan/rescan.go:289`; `docs/resources.md:381`). `DeletionsArrive` speaks of
  files the running loop has recorded.
- When the purge commits and the compile fails, nobody is notified
  (`pkg/mcp/rescan/rescan.go:334`; `docs/resources.md:396`); and the first tick after a restart
  notifies of a change though nothing changed (`docs/resources.md:400`).
- A file whose modification time goes back is never compiled again (`pkg/mcp/rescan/rescan.go:274`). With
  `settle` at `0s`, which the configuration accepts, a second edit within one unit of the file system's
  timestamps is missed: `NoLostEdit` fails with `Settle = 0`, and its theorem assumes otherwise.
- Suppression ends after the TTL although the node never warmed up
  (`pkg/temperature/tracker.go:152`; `docs/temperature.md:51`); and the limit of the query cuts before
  suppressed nodes are dropped, so with more cold nodes than the limit some are never warned about
  (`pkg/temperature/tracker.go:137`; `docs/temperature.md:37`).
- `fire` deletes the entry of its URI even when the timer was armed again, so one burst can send twice
  (`pkg/mcp/notify/notify.go:92`; `docs/resources.md:404`). No touch is lost by it: proved.
- Of two processes that open a fresh database at a time one fails, on a version that is recorded or a
  column that is there (`pkg/store/migrate.go:94`); it is not retried, but the next start goes through, which
  is `Openable` in `SchemaCurrent`.
- Two processes that compact one ledger file: the rename drops a line appended after the read
  (`pkg/mcp/ledger/ledger.go:262`; `docs/configuration.md:170`). `sessions` has one process, and
  `CheckpointsKept` assumes `OneServes`: none starts before the one before it is gone.
- Two stdio sessions of one second have the same identifier and count as one
  (`pkg/mcp/session/registry.go:203`): `NeverDoubleCounts` says "at most", `Recorded` and
  `CheckpointKept` exempt them (`Alone`). A session flushed before it is initialised is recorded
  under an empty client (`registry.go:237`).
- `MemoryDelta` from a snapshot that a rollback pruned, when the client's is between the target and
  the old head: changes it saw and the rollback undid are not reported
  (`pkg/query/engine.go:148`; `docs/versioning.md:35`). The same holds of a node whose way back to the
  target leads over the rows of an earlier pruning rollback, whose old side is what was pruned: the node
  becomes what it was not at the target, and a client from before has no row of it. Hence `Orphans`, the first part of
  `unrowed`, which `CaughtUp` exempts until the client fetches the node.
- Nodes that the cascade of a delete takes along have a row only if the call had a delta for them: not a child of
  the file's that `MemoryWrite` or another compile root put there (`pkg/store/queries.go:34`), nor the grandchild of
  `rollback_of_promotion`. A client that follows the rows keeps them (`migrations/0001_init.sql:3`;
  `docs/versioning.md:35`), pruning or not. They are the second part of `unrowed`.
- Two servers that append to one `rescan.jsonl` can both find it over the cap, and the second rename
  discards the older lines for the first's new file (`pkg/mcp/jsonlsink/jsonlsink.go:67`;
  `docs/configuration.md:184`). Between a rename and the open a client is told that the session is
  unknown (`pkg/mcp/resources/sessions_logs.go:91`), and one line of over a megabyte hides all
  the others of its file (`pkg/mcp/sessionlog/sessionlog.go:172`). `logs` has one server and lines
  that a scanner holds.
- A resource touched more often than its window is never announced (`pkg/mcp/notify/notify.go:83`): every
  touch starts the window again. `updates` bounds the touches, so `Delivered` speaks of the time after.
- A compile that finds no file left returns before it compares (`pkg/compiler/compiler.go:387`): the nodes
  of an emptied directory stay. `StoredIsCompiled` speaks of compiles that begin.
- A file that is malformed or oversize for one compile is skipped and loses its nodes; when it is
  well again they are new, so their pins and temperatures are gone
  (`pkg/compiler/compiler.go:183`, `:200`; `docs/configuration.md:164`). `ChoiceKept` asks that the file had the
  node all along. A file is measured and then read, so one that grows in between is compiled.
- The walk does not enter a directory that a pattern matches, so a later line that takes a file below
  it back has no effect (`pkg/compiler/compiler.go:363`; `docs/configuration.md:117`); and a pin pattern that names
  a directory pins nothing, as `ResolvePins` matches files only (`pkg/compiler/compiler.go:579`;
  `docs/configuration.md:156`).
- A rescan tick seeds pins, not temperatures (`pkg/mcp/rescan/rescan.go:322`; `docs/configuration.md:126`):
  `TempsAsSaid` expects none of it.
- The reseed of `remindb compile` runs in transactions after the commit: when one fails, the command
  reports a failure although the snapshot stands (`pkg/compiler/compiler.go:413`). It resets rows by
  source file, of whichever compile root.
- `CompileFile` resolves pins under the absolute path and looks them up under the one given
  (`pkg/compiler/compiler.go:567`, `:210`).
- A doctor beside a server can report that HEAD names no snapshot, when a rollback prunes between its
  two statements, and with `--fix` writes HEAD again as it is (`pkg/doctor/checks.go:73`): `DoctorHeals`.
- `MemoryRelated` warms every row of its walk, those that the budget cut from the answer too
  (`pkg/mcp/tools/related.go:55`; `docs/knowledge-graph.md` speaks of the surfaced ones); the walk goes round
  cycles, so a summed weight can exceed that of any simple path; and `both` never turns round on the way.
- `MemoryWrite` of unchanged content lands no snapshot (`docs/versioning.md:19` says every call does),
  and `MemoryDiff` leaves out a node whose content is the same but whose parent changed.

## What is proved

TLAPS checks these for every value of the constants, under the assumptions named in the modules
(a file's tree has parents before children; NULL, no root and no identifier are not values; bounds are
naturals, and so are token counts and budgets; nodes are finitely many; each goroutine has a server; a damaged database is a database; every file starts as one of its
versions, each a parse of that file; lines have a size; migrations are numbered; a process that
serves is an opener that is not a command; token counts are natural and weights integers; paths are
sequences of names; patterns and seeds are such as the parsers of their files accept, which refuse an empty
key and an empty segment). Two theorems have a hypothesis on top: `LabelsStay` and
`OneServes`, explained below.

| Theorem | Says |
|---|---|
| `TrailProofs!TypeCorrect` | `Spec => []TypeOK` |
| `TrailProofs!ChainLinear` | `Spec => []LinearChain` |
| `TrailProofs!CursorsUnique` | `Spec => []UniqueCursor` |
| `TrailProofs!TrailIsLog` | `Spec => LogRefined`: the trail implements `SnapshotLog` |
| `TrailProofs!HistoryIsKept` | `Spec => HistoryKept`: no row of an entry is rewritten, and only a tail is pruned |
| `TrailProofs!ForestRooted` | `Spec => []Rooted`: every node hangs from a root through stored parents |
| `TrailProofs!StepsReversible` | `Spec => []StepReversible`: the rows of an exact snapshot undo it |
| `TrailProofs!RestoreIsExact` | `Spec => []RestoreExact`: the walk back rebuilds a snapshot when all after it are exact |
| `TrailProofs!RollbacksLand` | `Spec => RollbackLands`, whatever the order of the deltas and the cascades, over exact snapshots and unmoved nodes |
| `TrailProofs!NetChangesExact` | `Spec => []NetChangeExact`: the folded diffs of exact snapshots are the difference of two tables |
| `TrailProofs!SharedChain` | any servers with any interleaving of reads and commits keep `LinearChain` |
| `TrailProofs!SharedIsLog` | and implement `SnapshotLog` together |
| `TrailProofs!HandlersAreAtomic` | one server implements `VersionTrail`: `AtomicTrail` |
| `TrailProofs!DoctorUnseen` | servers behave beside a doctor as without one |
| `TrailProofs!ChainBesideDoctor`, `AtomicBesideDoctor` | hence `LinearChain` and atomic handlers beside it |
| `TrailProofs!RepairsHeal` | `DoctorHeals`, for any damaged database |
| `RelationProofs!LinksKept` | `Spec /\ LabelsStay => []LinkKept`: no link of a row is lost while the row is not struck |
| `RelationProofs!CompilesHeal` | `Spec => Healed`: a compile leaves no pending row that could resolve |
| `RelationProofs!EdgesFallBack` | `Spec => FallsBack`: an edge whose target alone is struck leaves a pending row or another edge |
| `RelationProofs!RelatedIsRight` | `Spec => []RelatedRight`: `MemoryRelated` returns the neighbourhood of its anchor, each node with the weight of its heaviest path, the heaviest first |
| `WorkspaceProofs!ChoicesSurvive` | `Spec => []ChoiceKept`: a pin an agent chose survives compiles |
| `WorkspaceProofs!StoresCompiled` | `Spec => StoredIsCompiled`: what lands is what the patterns keep, as some moment of the compile had it |
| `WorkspaceProofs!SeedsReachRows` | `Spec => TempsAsSaid`: seeds reach the rows they are for, whatever the order of their keys |
| `WorkspaceProofs!ReadsFit` | `Spec => []FetchFits`: answers keep to their budget |
| `WorkspaceProofs!ReadsSee` | `Spec => []FetchSees`: answers are of the store as it was meanwhile |
| `LogsProofs!MissingIsTold` | `Spec => []MissingTold`: of the readers of the ring |
| `LogsProofs!ReadersInOrder` | `Spec => []ReadsInOrder`: of the readers of a session's file |
| `LogsProofs!TailIsKept` | `Spec => []TailKept` |
| `ServerProofs!SchemaIsCurrent` | `ServerSpec => []SchemaCurrent`, for any number of openers |
| `ServerProofs!HistoryNotDoubled` | `ServerSpec => []NeverDoubleCounts`, for any number of processes |
| `ServerProofs!CheckpointsKept` | `ServerSpec /\ []OneServes => []CheckpointKept` |
| `ResyncProofs!ClientCatchesUp` | `Spec => []CaughtUp`: paging is lossless, but for nodes that changed without a row to be seen |
| `RescanProofs!EditsNotLost` | `Spec => []NoLostEdit`, if `Settle # 0` |
| `NotifyProofs!Marked` | `Spec => []MarkedWasSent`: marked only with a warning that was sent, or while every client was silent |
| `NotifyProofs!NobodyTwice` | `Spec => NotTwice` |
| `NotifyProofs!TypeCorrect` | `PublisherSpec => []TypeOK` |
| `NotifyProofs!EntriesAlive` | `PublisherSpec => []NoDeadEntry` |
| `NotifyProofs!TouchesKept` | `PublisherSpec => []NoTouchLost` |

**The chain.** Every handler reduces to one shape, `Lands`: a snapshot whose hash
folds in the present HEAD, on top of all snapshots (parent HEAD) or of those up to a target (parent
the target). `LinearChain` is not inductive alone: a step needs to know that identifiers lie in
`1..seq`. `ChainInv` adds that, and that the HEAD a hash folds in is older than its snapshot but no
older than any snapshot before it. From that, two snapshots with one hash would have one previous
HEAD between them, hence be one: `CursorsUnique` is a corollary, pruning and returning contents
included. `HistoryIsKept` and `TrailIsLog` follow from the same shape: survivors keep their rows, and
what goes is everything after the target; the refinement also needs that HEAD is the newest entry.

**Places.** A promotion moves a node below its parent's parent, a rollback puts back what was recorded, and a
recompile puts a node where its identifier says. `PlacedInv`: every stored place, and every place a row
has recorded, is below nothing, or in the identifier's own file and below an ancestor of the identifier; and
parents are there. Identifiers of a file are ordered parents first (`HomeTreeAssumption`), so a placed table whose
foreign keys hold has no cycle: `Rooted`. The rows are part of it because a rollback brings rows of the past back.

**The walk back.** `HistoryInv` says two things of rows. Those of an exact snapshot tell all that changed from
the table before it to its own (`RowsExact`), which gives `StepReversible`. Those of every snapshot
that pruned nothing tell less but enough (`RowsTell`): no node appears without an `add`, and what
a `rem` with a recorded place removed was there. That is what a rollback over them needs to compute its own rows, so exact
rollbacks stay exact. `RestoreToSnapshot` composes single steps, by induction on the distance from HEAD.
A rollback puts back and deletes one node at a time, and each delete cascades; `RollbackLands` follows because,
when no node has moved, a node of the target hangs in the tables passed on the way where it hangs in the target, whose
parents are all there, so no cascade takes it. For `NetChangeExact` the fold over the snapshots is taken node by node: the first old side and the last
new one of a node's rows are what the two tables say of it.

**Links.** `GraphInv`: edges end at live nodes and pending rows hang from them. `Staged` says what any statements of a
call have made of the tables: a row that was not struck has its links, edges and pending rows still, where an edge into a
struck row has become a pending row, and nothing hangs from any other row. Upserts and deletes keep it
(`UpsertedStaged`, `DeletedStaged`), hence every rollback, by induction on its statements (`RolledStaged`). `LinkInv`: for every link
by name of a row's text there is an edge from it to a node of that label, or a pending row
with that label, in the file named or, for an edge the trigger turned back, in that of the node it had. `LabelsStay` says that a
node keeps its label while it lives. An edge holds
an identifier and not a label, so a heading that is renamed under its identifier keeps its edges, and the
link that made one is named by neither: `LinkKept` says so in its first words. In `links` every node has one title.
A row that a rollback strikes and puts back starts without links (see the departures). `FallsBack` and `Healed` need no
hypothesis on labels.

**The compile.** `CompileInv`: the files are versions (`DiskInv`); the stored nodes are at home (`StoreInv`); a job's tables
are versions that its file had while the job ran, or empty for a file that was malformed, or oversize when it was
measured; the deltas it carries to the commit are still those of the tables as they are (`JobInv`), because
the boosts and pins that others write meanwhile are not in a delta; and what an agent chose
is steady (`ChosenInv`): every version the file may still be stored as has the node.

**The related walk.**
The recursive query is unrolled (`BallUnroll`): a node is within `k` steps as `BallIs` computes it if and only if some row of
the query has it at a hop of at most `k`, by induction on `k`; and a row of hop `h` has weight `w` if and only if a path of `h` steps
weighs that (`RowsArePaths`, from the last step of a path, `PathLast`). Rows have bounded hops and weights, so each group has a least
hop and a greatest weight (`GroupedIs`), and the list is one row for a node, the heaviest first, whose cut is what `Complete` says.
What is printed is the longest beginning within the budget; the sum of its tokens is a fold over a set, and the fold does not
depend on the order it takes the set in (`SumSplits`, by induction on the number of elements).

**Patterns.** `MatchPath` is unrolled backwards, segment by segment: the places where the rest of a path may start. A place is one of
those if and only if a cover of the rest starts there (`MatchesCovers`, both ways by induction on the segments), and an untied
pattern is a cover with `**` before it (`AnywhereCovers`). The last hit decides, as in `Said`. With `ConfigsKnown`, what the
walk finds is what is there and not ignored (`WalkIsExact`); the other half of `StoredIsCompiled` follows from `CompileInv`.

**Seeds.** `TreeSays` relates a tree of keys to a set of entries: it has their positions and their temperatures, and they are
`Consistent`. `Insert` of one more entry keeps that unless it refuses (`InsertSays`): the new temperatures meet no
old one, no old position is below a new temperature, and nothing new is below an old one. Hence whatever order loads without a conflict
loads the same tree, and only from entries that agree (`LoadSays`). On the way down a path there is then one temperature at most, and
below each of its directories one `*`, so `Resolve` and `SaidOf` choose the same (`ResolveIs`). `SeedInv` carries that through the compile to its commit, and
an upsert is exactly a row that is new or differs.

**The reads.** The recursions of the reader (`UsedBy`, `FillBudget`, `Ancestors`, `Descendants`, `Walk`) are local
recursive functions; each is shown to exist (`StepByStep`) and then unrolled by induction on its index. For
`ReadsFit`: the sum of a list grows by one cost at a time and is that of the reversed list (`UsedByReverse`); what is kept of the first
k nodes fits, and what was passed over would not fit with it (`KeptOf`), which stays so as more is kept because costs are not negative. For
`ReadsSee`: nodes at home have a rank that falls towards the root, so going up stops after as many steps as
that and `GetAncestors` is a node and its parent's ancestors (`UpStops`, `AncestorsAre`); the levels of a walk down are then the nodes
of one depth (`LevelsAre`), which gives `GetDescendants` and the tree. The invariant, `CollectInv`, has for each batch a state of the store, among those
the fetch ran over, whose batch it is.

**The logs.** `RingInv` relates the slots of the ring to the records buffered: as many as there are, from the oldest
on, and the others counted as dropped; `ConsoleInv` keeps what a console missed below that count between its two
reads. For the files, `FilesInv` gives each inode an offset, the number of lines appended before its
first; two names point at the last inodes made, and the goroutine past `Lock` alone moves them. What a client
has read is then a stretch of what was appended, and what the two files hold is its end.

**The schema.** `SchemaInv`: the migrations in force and the records are the same beginning of the list, and what
a migrating process has read, or applied since, is a beginning of that. An opener that was overtaken fails on the next
migration, which is recorded, and does not serve.

**The ledger.** `LedgerInv` has a clock, the second each connection was first seen in, which gives each its identifier.
Every entry of a registry, record on its way, line of a file or of a temporary file, and line a compaction has read,
is of a seen connection and counts no more calls than that has made. So the last lines of different
sessions are of different connections, and a sum over the former is at most that over the latter, compared along an
injection (`SumBound`, `CallsBound`). `CheckpointsKept` adds `KeptInv`: only a process that serves appends and only one that starts
compacts, so under `OneServes` what a compaction has read or written still says what the file says, and the
last record of a connection that shares its session with nobody stays the last line of that session. Without
`OneServes` the departure about two compacting processes is a counterexample.

**Servers.** `Lands` says nothing of what a handler has read, so the commits of several servers have it
too, however stale their reads (`TailInv`): that is `SharedChain` and `SharedIsLog`. For one server the
invariant `AtomicInv` says that a goroutine past `Acquire` holds `OpMu`, and that what it carries is
`Fresh`: the deltas and the tree it computed are those of the tables as they are now. Nobody else can have
committed, as whoever commits holds the lock; so its commit is the atomic call.

**The doctor.** On the servers' database a repair can only write HEAD as it is: `DoctorInv` says that this
database is `Healthy` (no orphans, no dangling rows, HEAD is the newest snapshot), so nothing that a check
says, stale or not, changes it. On a damaged one each statement is followed through the three checks.

**The rescan.** The strengthening is that recorded times are past, and that what a worker has read, of
a file not edited since the walk, is its present text. `Settle # 0` keeps the two edits of one
unit of time apart: a time the walk records is over, so a later edit has a later time.

**The client.** `KnowsInv`: take a node that the client is not told of and that did not change behind its back. What the client knows
of it is what each snapshot committed that has, with those between it and the client's, no row for the node (`Silent`). `world`, the history
variable, has what each committed, HEAD's being the table. A snapshot on top of all others leaves a node
without a row as it was at the head, unless it is `taken`; a rollback that prunes keeps the rows up to its target, so a node
without a row in it is at the target as it is at the head, unless it is one of `Orphans` (`LandKnows`). A page moves the client over a stretch of
snapshots of which it has every row (`PageIsWhole`). With no rows left, HEAD is one of the snapshots the invariant speaks of. `RowsOf`
keeps exactly the rows asked for, in order (`RowsOfPicks`), by `SetInduction` on the length. What `Restored` computes does
not matter to any of it, so it stays folded.

**The warnings.** `ColdInv`: the ages of the map agree with the time since the warnings that were sent, within the one tick between
decay and query, but for the nodes marked while every client was silent (`unheard`). Those, and a node that is not in the map or is handed to the
handler, were last warned about longer ago than the map remembers.

**The types.** `TypeCorrect` needs to know what the walk back of `RestoreToSnapshot` yields, a recursive
function of the snapshot. The induction it needs, `SetInduction`, is proved from the least element of a set of
naturals, `LeastNat`: a set that has 0 and every successor is all of `Nat`. The same two lemmas serve
every induction of these proofs, as the library's theorems take an operator. The first sections of `TrailProofs` have
what each operator of `NodeGraph` preserves (`Put`, `Drop`, `DiffFlat`, `RowsFor`, `Undo`).

**The notifier.** `TypeOK`, `NoDeadEntry` and `NoTouchLost` together are inductive: a touch relies on
the entry it finds, an entry is alive because the goroutine that would drop it sends, and a timer's
closure has the URI of the entry (part of `TypeOK`), so that timers and goroutines of one URI never
pay for another's touch.

**Only model-checked**: liveness (`CallsReturn`, `CompileReturns`, `ChangesArrive`, `DeletionsArrive`,
`Delivered`, `ColdIsNotified`, `Recorded`, `Arrives`) and anything with ENABLED, which TLAPS does not
cover. Every safety property and every action property that a passing run checks is a theorem above. What a violating run
refutes has none, of course.

## What is not modelled

Text: parsing, labels, identifiers' digits, token counts, formatting, redaction. They are pure, and
where the model needs their result it takes any (contents, links, the trees of a file, the matches of a
query). SQLite itself: full text search, pragmas, the busy handler's timing; its keys, cascades, trigger and
serialised transactions are modelled where they act. The HTTP wrapper, the views, the terminal
listing, benchmarks and plugins keep no state of the system's own.

Within the modelled parts: a compile reads its patterns and seeds in one step, before its files; the
reload of settings is that of `enabled` alone, not of intervals, settle time and thresholds; the walk
does not meet symbolic links; the doctor's checks of the full-text index, the schema version and
missing directories, and the backup before a repair, are left out; weights are given by an edge's origin
and temperatures do not break ties in `RelatedWalk`; ranking yields any order, as scores are floats over
clocks. The registration of tools and, but for migrations and the initial compile, the start-up of
the server are straight-line code.

## Plan

The order follows what a failure would cost: the trail first, as everything lands there, then what
races with it, then what tells clients.

1. Done: `NodeGraph`, `VersionTrail`, `SnapshotLog`; `SharedTrail` over servers; `Doctor`; `RelationGraph`,
   `RelatedWalk`; `PathMatch`, `TempFile`, `DirCompile`, `ContextFetch`, `Workspace`; `RescanLoop`;
   `ColdNotify`; `Publisher`; `SessionLedger`, `Migrations`, `ServerStart`; `Resync`; `Logs`; the proofs in the table above.
2. Next modules, where they pay: the merge of settings field by field, and sections and wiki-links of a
   small document, as functions against reference definitions.
3. Next proofs: that the compiles of `DirCompile` are those `VersionTrail` takes as given, so that what the trail proves holds of a
   directory that is edited meanwhile.
