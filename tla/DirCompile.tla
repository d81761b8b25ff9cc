----------------------------- MODULE DirCompile -----------------------------
(***************************************************************************)
(* One compile of a source directory, from the walk to the reseed: the      *)
(* command line's, MemoryCompile's, or the one of a rescan tick.  Files are *)
(* checked and read one by one by a few goroutines, while an editor goes on *)
(* writing them; what they parsed to is compared with the stored nodes and  *)
(* lands in one transaction; a reseed follows in transactions of its own.   *)
(*                                                                         *)
(* Everything stored was compiled from this directory: VersionTrail has the *)
(* nodes of other origins, and the versions.  RescanLoop has which files a  *)
(* tick hands over.  A file that does not parse at all (an I/O error, a     *)
(* deadline passed) and one that is malformed or oversize differ: the first *)
(* fails the compile, the others are skipped.                              *)
(***************************************************************************)
EXTENDS NodeGraph, PathMatch, TempFile

CONSTANTS
  Path,          \* the path of each file below the directory
  Versions,      \* what an editor may write into each file, parsed
  Oversize,      \* the versions above compile.max_file_size
  Absent,        \* no such file
  Malformed,     \* contents the parser refuses
  Configs,       \* what the files of .remindb may say
  Starts,        \* the directories a server may start over
  Workers,       \* compile.max_parallelism
  DefaultTemp,   \* 0.5
  PinTemps,      \* what a MemoryPin may set the temperature to
  MaxCalls       \* bound on what the environment does: edits, calls and ticks

ASSUME VersionsAssumption == \A f \in File : Versions[f] \subseteq Parses({f})

ASSUME PatternsAssumption ==
  /\ \A f \in File : IsSequence(Path[f]) /\ Path[f] # <<>>
  /\ \A c \in Configs : ArePatterns(c.ignore)

ASSUME SeedsAssumption == \A c \in Configs : AreEntries(c.seeds)

ASSUME StartsAssumption ==
  \A s \in Starts :
     /\ s.config \in Configs /\ s.config.seeds = {}
     /\ DOMAIN s.disk = File /\ \A f \in File : s.disk[f] \in Versions[f]

ASSUME WorkersAssumption == Workers \in Nat \ {0}

VARIABLES
  disk,     \* the source files
  config,   \* .remindb/ignore, .remindb/pinned, .remindb/temperatures.json
  nodes,    \* table nodes
  temps,    \* its temperature column
  pins,     \* its pinned column
  job,      \* the compile under way
  chosen,   \* history variable: what an agent last chose with MemoryPin or MemoryUnpin
  calls     \* what the environment has done

compileVars == <<disk, config, nodes, temps, pins, job, chosen, calls>>

Idle == [step |-> "idle"]

Counted == calls < MaxCalls /\ calls' = calls + 1

OfFile(g, f) == Restrict(g, {n \in DOMAIN g : g[n].file = f})

\* The files of a tree of nodes and the nodes of its files, with nothing of the others.
Union(tables) ==
  [n \in UNION {DOMAIN tables[f] : f \in DOMAIN tables} |-> tables[HomeFile[n]][n]]

-----------------------------------------------------------------------------
(* What becomes of an agent's choice: it holds as long as the node's file   *)
(* has always had it, also in what a compile under way has read.           *)

HasNode(version, n) == version \notin {Absent, Malformed} \cup Oversize /\ n \in DOMAIN version

Steady(n, d, c, j) ==
  LET f == HomeFile[n] IN
  /\ HasNode(d[f], n)
  /\ Kept(c.ignore, Path[f])
  /\ j.step # "idle" =>
       /\ \A v \in j.seen[f] : HasNode(v, n)
       /\ j.kind # "rescan" => f \in j.files
       /\ ~("pins" \in j.reseed /\ f \in j.pins)

KeepChoices(d, c, j) == chosen' = Restrict(chosen, {n \in DOMAIN chosen : Steady(n, d, c, j)})

-----------------------------------------------------------------------------
(* The user edits the directory.                                           *)

Edit(f, version) ==
  /\ Counted
  /\ disk[f] # version
  /\ disk' = [disk EXCEPT ![f] = version]
  /\ job' = IF job = Idle THEN Idle ELSE [job EXCEPT !.seen[f] = @ \cup {version}]
  /\ KeepChoices(disk', config, job')
  /\ UNCHANGED <<config, nodes, temps, pins>>

EditConfig(c) ==
  /\ Counted
  /\ config # c
  /\ config' = c
  /\ KeepChoices(disk, c, job)
  /\ UNCHANGED <<disk, nodes, temps, pins, job>>

\* MemoryPin, with a temperature or without, and MemoryUnpin: under OpMu, which the command
\* line does not take.
SetPinned(n, pinned, temp) ==
  /\ Counted
  /\ job # Idle => job.kind = "cli"
  /\ n \in DOMAIN nodes
  /\ temp # NoTemp => pinned
  /\ pins' = [pins EXCEPT ![n] = pinned]
  /\ temps' = [temps EXCEPT ![n] = IF temp = NoTemp THEN @ ELSE temp]
  /\ chosen' = [m \in DOMAIN chosen \cup (IF Steady(n, disk, config, job) THEN {n} ELSE {}) |->
                  IF m = n THEN pinned ELSE chosen[m]]
  /\ UNCHANGED <<disk, config, nodes, job>>

-----------------------------------------------------------------------------
(* The compile starts.                                                     *)

Begins(kind, files, seeds, reseed) ==
  /\ job = Idle
  /\ job' = [step |-> "read", kind |-> kind, files |-> files, seeds |-> seeds,
             pins |-> {f \in files : Pinned(config.pinned, Path[f])}, reseed |-> reseed,
             begun |-> {}, tables |-> EmptyGraph, failed |-> FALSE, deltas |-> EmptyGraph,
             todo |-> {}, entries |-> config.seeds, seen |-> [f \in File |-> {disk[f]}]]
  /\ KeepChoices(disk, config, job')
  /\ UNCHANGED <<disk, config, nodes, temps, pins>>

\* The walk of CompileDir.
Found == {f \in File : disk[f] # Absent /\ Kept(config.ignore, Path[f])}

\* CompileDir.  With no file left to compile it returns at once.
StartDir(kind, reseed) ==
  /\ Counted
  /\ reseed # {} => kind = "cli"
  /\ Found # {}
  /\ \E order \in SetToSeqs(config.seeds) :
        LET tree == LoadTemps(order) IN
        /\ tree # Conflict
        /\ Begins(kind, Found, [f \in Found |-> Resolve(tree, Path[f])], reseed)

\* MaybeInitialCompile: a server that counts no node compiles before it serves anybody.  As
\* the table may change after the count, it is no other compile than the command line's.
InitialCompile == nodes = EmptyGraph /\ StartDir("cli", {})

\* The changed files of a rescan tick: pins, but no temperatures.
StartRescan(files) ==
  /\ Counted
  /\ files # {}
  /\ files \subseteq Found
  /\ Begins("rescan", files, [f \in files |-> NoTemp], {})

-----------------------------------------------------------------------------
(* The goroutines of one errgroup.                                         *)

Settled(f, table, failed) ==
  /\ job' = [job EXCEPT !.begun = @ \cup {f},
                        !.tables = [e \in DOMAIN @ \cup {f} |-> IF e = f THEN table ELSE @[e]],
                        !.failed = @ \/ failed]
  /\ UNCHANGED <<disk, config, nodes, temps, pins, chosen, calls>>

\* Mutant: after a failure no goroutine is started for the files that are left.
BeginUnlessFailed(f) ==
  /\ job.step = "read"
  /\ ~job.failed
  /\ f \in job.files \ job.begun
  /\ Cardinality(job.begun \ DOMAIN job.tables) < Workers
  /\ IF disk[f] = Absent THEN Settled(f, EmptyGraph, TRUE)
     ELSE IF disk[f] \in Oversize THEN Settled(f, EmptyGraph, FALSE)
     ELSE /\ job' = [job EXCEPT !.begun = @ \cup {f}]
          /\ UNCHANGED <<disk, config, nodes, temps, pins, chosen, calls>>

\* A goroutine starts, and checks the size of its file.
Begin(f) ==
  /\ job.step = "read"
  /\ f \in job.files \ job.begun
  /\ Cardinality(job.begun \ DOMAIN job.tables) < Workers
  /\ IF job.failed \/ disk[f] = Absent THEN Settled(f, EmptyGraph, TRUE)
     ELSE IF disk[f] \in Oversize THEN Settled(f, EmptyGraph, FALSE)
     ELSE /\ job' = [job EXCEPT !.begun = @ \cup {f}]
          /\ UNCHANGED <<disk, config, nodes, temps, pins, chosen, calls>>

Reading(f) == job.step = "read" /\ f \in job.begun \ DOMAIN job.tables

\* Mutant: a file that is gone by the time it is read is skipped.
ReadOrSkip(f) ==
  /\ Reading(f)
  /\ IF disk[f] \in {Absent, Malformed} THEN Settled(f, EmptyGraph, FALSE)
     ELSE Settled(f, disk[f], FALSE)

\* It reads and parses the file, whatever its size has become.
Read(f) ==
  /\ Reading(f)
  /\ IF disk[f] = Absent THEN Settled(f, EmptyGraph, TRUE)
     ELSE IF disk[f] = Malformed THEN Settled(f, EmptyGraph, FALSE)
     ELSE Settled(f, disk[f], FALSE)

\* Any other error, or the deadline.
FailFile(f) == Reading(f) /\ Settled(f, EmptyGraph, TRUE)

-----------------------------------------------------------------------------
(* What they read is compared with what is stored, and lands.              *)

Ends == job' = Idle /\ UNCHANGED <<disk, config, nodes, temps, pins, chosen, calls>>

\* Mutant: the stored nodes of skipped files are not looked up.
KnownOfParsed ==
  {n \in DOMAIN nodes : job.kind = "rescan" =>
     nodes[n].file \in {f \in job.files : DOMAIN job.tables[f] # {}}}

\* loadPrevNodes: everything of the root, or the nodes of the files parsed and skipped.
KnownNodes == {n \in DOMAIN nodes : job.kind = "rescan" => nodes[n].file \in job.files}

\* g.Wait, buildPrevState and the deltas.
Join ==
  /\ job.step = "read"
  /\ DOMAIN job.tables = job.files
  /\ IF job.failed THEN Ends
     ELSE /\ job' = [job EXCEPT !.step = "commit",
                          !.deltas = DiffFlat(Union(job.tables), ContentsOf(nodes, KnownNodes))]
          /\ UNCHANGED <<disk, config, nodes, temps, pins, chosen, calls>>

Upserted(n) == n \in WithOp(job.deltas, {"add", "mod"})

\* Mutant: an upsert writes the seed or the default.
TempAfterReset(n) ==
  IF Upserted(n) \/ n \notin DOMAIN nodes
  THEN (IF job.seeds[HomeFile[n]] = NoTemp THEN DefaultTemp ELSE job.seeds[HomeFile[n]])
  ELSE temps[n]

\* qUpsertNode: a row that is there keeps its temperature if none is seeded, and its pin.
TempAfter(n) ==
  IF Upserted(n) /\ job.seeds[HomeFile[n]] # NoTemp THEN job.seeds[HomeFile[n]]
  ELSE IF n \in DOMAIN nodes THEN temps[n] ELSE DefaultTemp

\* Mutant: an upsert writes the pin as it writes the other columns.
PinAfterUpsert(n) ==
  IF Upserted(n) \/ n \notin DOMAIN nodes THEN HomeFile[n] \in job.pins ELSE pins[n]

PinAfter(n) == IF n \in DOMAIN nodes THEN pins[n] ELSE HomeFile[n] \in job.pins

\* reseed: with both flags one transaction, else one for each temperature.
ReseedTransactions ==
  LET seeds == {job.seeds[f] : f \in job.files} \ {NoTemp}
      ofTemps == IF "temps" \in job.reseed THEN seeds ELSE {}
      ofPins  == IF "pins" \in job.reseed THEN job.pins ELSE {}
  IN  IF ofTemps # {} /\ ofPins # {} THEN {[temps |-> ofTemps, pins |-> ofPins]}
      ELSE {[temps |-> {t}, pins |-> {}] : t \in ofTemps}
             \cup {[temps |-> {}, pins |-> p] : p \in {ofPins} \ {{}}}

Goes(todo) ==
  job' = IF todo = {} THEN Idle ELSE [job EXCEPT !.step = "reseed", !.todo = todo]

Commit ==
  /\ job.step = "commit"
  /\ UpsertsAccepted(nodes, Union(job.tables), job.deltas)
  /\ nodes' = ApplyDeltas(nodes, Union(job.tables), job.deltas)
  /\ temps' = [n \in DOMAIN nodes' |-> TempAfter(n)]
  /\ pins' = [n \in DOMAIN nodes' |-> PinAfter(n)]
  /\ Goes(ReseedTransactions)
  /\ UNCHANGED <<disk, config, chosen, calls>>

\* ResetTemperaturesByFiles, ResetPinnedByFiles.
Reseed(t) ==
  /\ job.step = "reseed"
  /\ t \in job.todo
  /\ temps' = [n \in DOMAIN temps |->
                 LET f == nodes[n].file IN
                 IF f \in job.files /\ job.seeds[f] \in t.temps THEN job.seeds[f] ELSE temps[n]]
  /\ pins' = [n \in DOMAIN pins |-> pins[n] \/ nodes[n].file \in t.pins]
  /\ job' = IF job.todo = {t} THEN Idle ELSE [job EXCEPT !.todo = @ \ {t}]
  /\ UNCHANGED <<disk, config, nodes, chosen, calls>>

\* A query or a transaction fails, also one of a reseed whose compile has landed.
Fail == job.step \in {"commit", "reseed"} /\ Ends

-----------------------------------------------------------------------------
\* What a first compile of a directory leaves.
Fresh(d, c) ==
  Union([f \in {f \in File : Kept(c.ignore, Path[f])} |->
           IF d[f] \in {Absent, Malformed} \cup Oversize THEN EmptyGraph ELSE d[f]])

\* The server starts over a compiled directory.
CompileInit ==
  /\ \E start \in Starts : disk = start.disk /\ config = start.config
  /\ nodes = Fresh(disk, config)
  /\ temps = [n \in DOMAIN nodes |-> DefaultTemp]
  /\ pins = [n \in DOMAIN nodes |-> Pinned(config.pinned, Path[HomeFile[n]])]
  /\ job = Idle
  /\ chosen = EmptyGraph
  /\ calls = 0

Environment ==
  \/ \E f \in File : \E v \in Versions[f] \cup {Absent, Malformed} : Edit(f, v)
  \/ \E c \in Configs : EditConfig(c)
  \/ \E n \in NodeId : \E p \in BOOLEAN : \E t \in PinTemps \cup {NoTemp} : SetPinned(n, p, t)
  \/ \E kind \in {"cli", "tool"} : \E reseed \in SUBSET {"temps", "pins"} : StartDir(kind, reseed)
  \/ InitialCompile
  \/ \E fs \in SUBSET File : StartRescan(fs)

Compiling ==
  \/ Fail
  \/ \E f \in File : FailFile(f) \/ Begin(f) \/ Read(f)
  \/ Join
  \/ Commit
  \/ job.step = "reseed" /\ \E t \in job.todo : Reseed(t)

-----------------------------------------------------------------------------
(* Properties.                                                             *)

\* A file the patterns leave out, by itself or with a directory above it.
Ignored(f) ==
  \/ Said(config.ignore, Path[f], FALSE)
  \/ \E k \in 1..Len(Path[f]) - 1 : Said(config.ignore, SubSeq(Path[f], 1, k), TRUE)

\* The walk of a full compile takes the files that are there and not ignored, a rescan some.
WalkExact ==
  job = Idle /\ job'.step = "read" =>
     LET there == {f \in File : disk[f] # Absent /\ ~Ignored(f)}
     IN  IF job'.kind = "rescan" THEN job'.files \subseteq there ELSE job'.files = there

\* What a version leaves in the store.
CompiledTo(version) ==
  IF version = Malformed \/ version \in Oversize THEN {EmptyGraph} ELSE {version}

\* A file that grew after its size was checked is compiled all the same.
MayStore(seen) ==
  (UNION {CompiledTo(v) : v \in seen \ {Absent}})
    \cup (IF Cardinality(seen) > 1 THEN seen \cap Oversize ELSE {})

CommitExact ==
  Commit =>
     \A f \in File :
        IF f \in job.files THEN OfFile(nodes', f) \in MayStore(job.seen[f])
        ELSE OfFile(nodes', f) = IF job.kind = "rescan" THEN OfFile(nodes, f) ELSE EmptyGraph

\* After a full compile the store is, file by file, a version the file had while the compile
\* ran, nothing of a file that was skipped, ignored or missing, and nothing else; a rescan
\* does that for the files it was given and leaves the others alone.  A file that could not
\* be read never costs its nodes.
StoredIsCompiled == [][WalkExact /\ CommitExact]_compileVars

SeedsConsistent ==
  job = Idle /\ job'.step = "read" /\ job'.kind # "rescan" => Consistent(config.seeds)

TempsExact ==
  Commit =>
    \A n \in DOMAIN nodes' :
       LET said == IF job.kind = "rescan" THEN NoTemp
                   ELSE SaidOf(job.entries, Path[HomeFile[n]])
           same == n \in DOMAIN nodes /\ nodes'[n] = nodes[n]
       IN  temps'[n] = IF ~same /\ said # NoTemp THEN said
                       ELSE IF n \in DOMAIN nodes THEN temps[n] ELSE DefaultTemp

\* Seed temperatures reach the rows a compile creates or modifies, as temperatures.json said
\* when it started, in whatever order its keys were read, and no other temperature is touched;
\* a file that contradicts itself is refused in whatever order its keys are read.
TempsAsSaid == [][SeedsConsistent /\ TempsExact]_compileVars

\* "MemoryPin choices survive every recompile", as long as the file has had the node all along
\* and no reseed of the pins was asked for.
ChoiceKept == \A n \in DOMAIN chosen : n \in DOMAIN pins /\ pins[n] = chosen[n]

\* A compile comes to its end, whatever its goroutines meet.
CompileReturns == job.step # "idle" ~> job.step = "idle"
=============================================================================
