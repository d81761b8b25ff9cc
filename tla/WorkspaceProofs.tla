-------------------------- MODULE WorkspaceProofs --------------------------
(***************************************************************************)
(* Theorems about Workspace: whatever an editor does to the files while a   *)
(* compile runs, whoever reads or pins meanwhile, and what readers see.     *)
(***************************************************************************)
EXTENDS Workspace, FiniteSetTheorems, SequenceTheorems, TLAPS

-----------------------------------------------------------------------------
(* Nodes at home: every node has the place its identifier is made from.    *)

AtHome(g) ==
  /\ DOMAIN g \subseteq NodeId
  /\ \A n \in DOMAIN g :
       /\ g[n] = [parent |-> HomeParent[n], file |-> HomeFile[n], content |-> g[n].content]
       /\ HomeParent[n] \in DOMAIN g \cup {NoNode}
       /\ g[n].content \in Content

\* What a file was parsed to.
LEMMA ParsedAtHome ==
  ASSUME NEW f \in File, NEW t \in Parses({f})
  PROVE  AtHome(t) /\ \A n \in DOMAIN t : HomeFile[n] = f
<1>1. PICK S \in ParsedSets({f}) :
        \E c \in [S -> Content] :
          t = [n \in S |-> [parent |-> HomeParent[n], file |-> HomeFile[n], content |-> c[n]]]
  BY DEF Parses
<1>2. S \subseteq NodeId /\ \A n \in S : HomeFile[n] = f /\ HomeParent[n] \in S \cup {NoNode}
  BY <1>1 DEF ParsedSets
<1> QED
  BY <1>1, <1>2 DEF AtHome

LEMMA ParentHome ==
  ASSUME NEW n \in NodeId, HomeParent[n] \in NodeId
  PROVE  HomeFile[HomeParent[n]] = HomeFile[n]
  BY HomeTreeAssumption DEF NodeId, NoNode

\* Tables of one file each.
ByFile(tables) ==
  \A f \in DOMAIN tables : AtHome(tables[f]) /\ \A n \in DOMAIN tables[f] : HomeFile[n] = f

LEMMA UnionIs ==
  ASSUME NEW tables, ByFile(tables)
  PROVE  /\ AtHome(Union(tables))
         /\ \A n \in DOMAIN Union(tables) : HomeFile[n] \in DOMAIN tables
         /\ \A f \in DOMAIN tables : \A n :
              /\ n \in DOMAIN Union(tables) /\ HomeFile[n] = f <=> n \in DOMAIN tables[f]
              /\ n \in DOMAIN tables[f] => Union(tables)[n] = tables[f][n]
<1> DEFINE u == Union(tables)
<1>1. \A n : n \in DOMAIN u <=> \E f \in DOMAIN tables : n \in DOMAIN tables[f]
  BY DEF Union
<1>2. \A n \in DOMAIN u : u[n] = tables[HomeFile[n]][n]
  BY DEF Union
<1> HIDE DEF u
<1>3. \A n \in DOMAIN u : HomeFile[n] \in DOMAIN tables /\ n \in DOMAIN tables[HomeFile[n]]
  BY <1>1 DEF ByFile
<1>4. \A f \in DOMAIN tables : \A n \in DOMAIN tables[f] : n \in DOMAIN u /\ HomeFile[n] = f
  BY <1>1 DEF ByFile
<1>5. AtHome(u)
  <2> SUFFICES ASSUME NEW n \in DOMAIN u
               PROVE  /\ n \in NodeId
                      /\ u[n] = [parent |-> HomeParent[n], file |-> HomeFile[n], content |-> u[n].content]
                      /\ HomeParent[n] \in DOMAIN u \cup {NoNode}
                      /\ u[n].content \in Content
    BY DEF AtHome
  <2>1. PICK f \in DOMAIN tables : f = HomeFile[n]
    BY <1>3
  <2>2. n \in DOMAIN tables[f] /\ u[n] = tables[f][n]
    BY <1>2, <1>3, <2>1
  <2>3. AtHome(tables[f])
    BY DEF ByFile
  <2> QED
    BY <1>4, <2>2, <2>3 DEF AtHome
<1> QED
  BY <1>2, <1>3, <1>4, <1>5 DEF u

-----------------------------------------------------------------------------
(* What a commit does to the node table.                                   *)

\* Rows with nothing below them but each other are all that is deleted with them.
LEMMA DropOfClosed ==
  ASSUME NEW g, NEW R \in SUBSET DOMAIN g, ClosedBelow(g, R)
  PROVE  Drop(g, R) = [n \in DOMAIN g \ R |-> g[n]]
<1>1. Cascade(g, R) = R
  BY DEF Cascade, ClosedBelow
<1> QED
  BY <1>1 DEF Drop, Restrict

\* The nodes u take the place of the stored nodes K that are known: nothing else is touched.
LEMMA CommitDoes ==
  ASSUME NEW g, NEW u, AtHome(g), AtHome(u), NEW K \in SUBSET DOMAIN g,
         \A n \in DOMAIN g : HomeParent[n] \in K => n \in K
  PROVE  ApplyDeltas(g, u, DiffFlat(u, ContentsOf(g, K))) =
           [n \in (DOMAIN g \ K) \cup DOMAIN u |-> IF n \in DOMAIN u THEN u[n] ELSE g[n]]
<1> DEFINE ds   == DiffFlat(u, ContentsOf(g, K))
           ups  == WithOp(ds, {"add", "mod"})
           rems == WithOp(ds, {"rem"})
           put  == Put(g, u, ups)
<1>1. rems = K \ DOMAIN u
  BY DEF DiffFlat, ContentsOf, WithOp, Added, Modified, Removed
<1>2. /\ ups \subseteq DOMAIN u
      /\ \A n \in DOMAIN u \ ups : n \in K /\ u[n].content = g[n].content
  BY DEF DiffFlat, ContentsOf, WithOp, Added, Modified, Removed
<1> HIDE DEF ds, ups, rems
<1>3. \A n \in DOMAIN u \ ups : u[n] = g[n]
  BY <1>2 DEF AtHome
<1>4. /\ DOMAIN put = DOMAIN g \cup DOMAIN u
      /\ \A n \in DOMAIN put : put[n] = IF n \in DOMAIN u THEN u[n] ELSE g[n]
  BY <1>2, <1>3 DEF Put
<1> HIDE DEF put
<1>5. \A n \in DOMAIN put : n \in NodeId /\ put[n].parent = HomeParent[n]
  BY <1>4 DEF AtHome
<1>6. ClosedBelow(put, rems)
  <2> SUFFICES ASSUME NEW n \in DOMAIN put, HomeParent[n] \in K \ DOMAIN u
               PROVE  n \in K \ DOMAIN u
    BY <1>1, <1>5 DEF ClosedBelow
  <2>1. HomeParent[n] # NoNode
    BY DEF AtHome, NodeId, NoNode
  <2>2. n \notin DOMAIN u
    BY <2>1 DEF AtHome
  <2> QED
    BY <1>4, <2>2
<1>7. Drop(put, rems) = [n \in DOMAIN put \ rems |-> put[n]]
  BY <1>1, <1>4, <1>6, DropOfClosed
<1>8. DOMAIN put \ rems = (DOMAIN g \ K) \cup DOMAIN u
  BY <1>1, <1>4
<1>9. ApplyDeltas(g, u, ds) = Drop(put, rems)
  BY DEF ApplyDeltas, put, ups, rems
<1> QED
  BY <1>4, <1>7, <1>8, <1>9 DEF ds

-----------------------------------------------------------------------------
(* What the compile under way knows.                                       *)

IsJob(j) ==
  j = [step |-> j.step, kind |-> j.kind, files |-> j.files, seeds |-> j.seeds, pins |-> j.pins,
       reseed |-> j.reseed, begun |-> j.begun, tables |-> j.tables, failed |-> j.failed,
       deltas |-> j.deltas, todo |-> j.todo, entries |-> j.entries, seen |-> j.seen]

\* Edits are seen, from the start of the compile on.
SeenInv(j) ==
  /\ DOMAIN j.seen = File
  /\ \A f \in File : /\ disk[f] \in j.seen[f]
                     /\ IsFiniteSet(j.seen[f])
                     /\ j.seen[f] \subseteq Versions[f] \cup {Absent, Malformed}

\* A table is a version the file has had meanwhile, or empty because of one that is skipped;
\* and a file that is read was not too large once.
Right(j, f) ==
  \/ /\ j.tables[f] \in j.seen[f] \ {Absent, Malformed}
     /\ j.seen[f] \ Oversize # {}
  \/ /\ j.tables[f] = EmptyGraph
     /\ (j.seen[f] \ {Absent}) \cap ({Malformed} \cup Oversize) # {}

TablesInv(j) ==
  /\ j.files \subseteq File
  /\ j.begun \subseteq j.files /\ DOMAIN j.tables \subseteq j.begun
  /\ \A f \in j.begun \ DOMAIN j.tables : j.seen[f] \ Oversize # {}
  /\ ~j.failed => \A f \in DOMAIN j.tables : Right(j, f)

\* What it has worked out is still so when it is written.
StepInv(j) ==
  /\ j.step \in {"read", "commit", "reseed"}
  /\ j.step # "read" => ~j.failed /\ DOMAIN j.tables = j.files
  /\ j.step = "commit" => j.deltas = DiffFlat(Union(j.tables), ContentsOf(nodes, KnownNodes))
  /\ j.step = "reseed" =>
       \A t \in j.todo : t.pins \subseteq (IF "pins" \in j.reseed THEN j.pins ELSE {})

JobInv == job = Idle \/ (IsJob(job) /\ SeenInv(job) /\ TablesInv(job) /\ StepInv(job))

StoreInv ==
  /\ AtHome(nodes)
  /\ \A n \in DOMAIN nodes : HomeFile[n] \in File
  /\ pins \in [DOMAIN nodes -> BOOLEAN]

DiskInv ==
  /\ DOMAIN disk = File
  /\ \A f \in File : disk[f] \in Versions[f] \cup {Absent, Malformed}

\* The inductive strengthening of ChoiceKept: what is chosen is steady.
ChosenInv ==
  \A n \in DOMAIN chosen :
     /\ n \in DOMAIN nodes /\ pins[n] = chosen[n]
     /\ Steady(n, disk, config, job)

CompileInv == DiskInv /\ StoreInv /\ JobInv /\ ChosenInv

-----------------------------------------------------------------------------
\* Tables that are right are of one file each.
LEMMA RightByFile ==
  ASSUME SeenInv(job), TablesInv(job), ~job.failed
  PROVE  ByFile(job.tables)
<1> SUFFICES ASSUME NEW f \in DOMAIN job.tables
             PROVE  AtHome(job.tables[f]) /\ \A n \in DOMAIN job.tables[f] : HomeFile[n] = f
  BY DEF ByFile
<1>1. f \in File /\ Right(job, f)
  BY DEF TablesInv
<1>2. CASE job.tables[f] = EmptyGraph
  BY <1>2 DEF EmptyGraph, AtHome
<1>3. CASE job.tables[f] \in job.seen[f] \ {Absent, Malformed}
  <2>1. job.tables[f] \in Parses({f})
    BY <1>1, <1>3, VersionsAssumption DEF SeenInv
  <2> QED
    BY <1>1, <2>1, ParsedAtHome
<1> QED
  BY <1>1, <1>2, <1>3 DEF Right

\* The store a commit leaves.
Stored(u, K) ==
  nodes' = [n \in (DOMAIN nodes \ K) \cup DOMAIN u |-> IF n \in DOMAIN u THEN u[n] ELSE nodes[n]]

LEMMA CommitStores ==
  ASSUME StoreInv, SeenInv(job), TablesInv(job), StepInv(job), Commit
  PROVE  /\ Stored(Union(job.tables), KnownNodes)
         /\ ByFile(job.tables) /\ DOMAIN job.tables = job.files
         /\ KnownNodes = {n \in DOMAIN nodes : job.kind = "rescan" => HomeFile[n] \in job.files}
         /\ \A n \in DOMAIN nodes : HomeParent[n] \in KnownNodes => n \in KnownNodes
<1>1. ByFile(job.tables) /\ DOMAIN job.tables = job.files
  BY RightByFile DEF Commit, StepInv
<1>2. AtHome(Union(job.tables))
  BY <1>1, UnionIs
<1>3. \A n \in DOMAIN nodes : nodes[n].file = HomeFile[n] /\ n \in NodeId
  BY DEF StoreInv, AtHome
<1>4. KnownNodes = {n \in DOMAIN nodes : job.kind = "rescan" => HomeFile[n] \in job.files}
  BY <1>3 DEF KnownNodes
<1>5. \A n \in DOMAIN nodes : HomeParent[n] \in KnownNodes => n \in KnownNodes
  BY <1>3, <1>4, ParentHome
<1>6. Stored(Union(job.tables), KnownNodes)
  <2>1. nodes' = ApplyDeltas(nodes, Union(job.tables), DiffFlat(Union(job.tables), ContentsOf(nodes, KnownNodes)))
    BY DEF Commit, StepInv
  <2>2. PICK u, K : u = Union(job.tables) /\ K = KnownNodes
    OBVIOUS
  <2>3. K \in SUBSET DOMAIN nodes /\ AtHome(nodes) /\ AtHome(u)
    BY <1>2, <1>4, <2>2 DEF StoreInv
  <2>4. \A n \in DOMAIN nodes : HomeParent[n] \in K => n \in K
    BY <1>5, <2>2
  <2>5. ApplyDeltas(nodes, u, DiffFlat(u, ContentsOf(nodes, K))) =
          [n \in (DOMAIN nodes \ K) \cup DOMAIN u |-> IF n \in DOMAIN u THEN u[n] ELSE nodes[n]]
    BY <2>3, <2>4, CommitDoes
  <2>6. Stored(u, K)
    BY <2>1, <2>2, <2>5 DEF Stored
  <2> QED
    BY <2>2, <2>6
<1> QED
  BY <1>1, <1>4, <1>5, <1>6

-----------------------------------------------------------------------------
(* The steps of a compile.                                                 *)

\* What a choice depends on stays the same while a compile goes on.
SameJob(j, k) ==
  /\ k.kind = j.kind /\ k.files = j.files /\ k.pins = j.pins /\ k.reseed = j.reseed
  /\ k.seen = j.seen

\* A step of a compile that writes nothing.
LEMMA JobMoves ==
  ASSUME CompileInv, UNCHANGED <<disk, config, nodes, pins, chosen>>,
         \/ job' = Idle
         \/ /\ job # Idle /\ SameJob(job, job')
            /\ IsJob(job') /\ SeenInv(job)' /\ TablesInv(job)' /\ StepInv(job)'
  PROVE  CompileInv'
<1>1. DiskInv' /\ StoreInv' /\ JobInv'
  BY DEF CompileInv, DiskInv, StoreInv, JobInv
<1>2. ASSUME NEW n, Steady(n, disk, config, job) PROVE Steady(n, disk', config', job')
  <2>1. CASE job' = Idle
    BY <1>2, <2>1 DEF Steady, Idle
  <2>2. CASE job # Idle /\ SameJob(job, job')
    <3>1. job.step # "idle"
      BY <2>2 DEF CompileInv, JobInv, StepInv
    <3> QED
      BY <1>2, <2>2, <3>1 DEF Steady, SameJob
  <2> QED
    BY <2>1, <2>2
<1> QED
  BY <1>1, <1>2 DEF CompileInv, ChosenInv

\* A file is done: its table is right, or the compile fails.
LEMMA Settles ==
  ASSUME CompileInv, job # Idle, job.step = "read", NEW f \in job.files \ DOMAIN job.tables,
         NEW table, NEW failed \in BOOLEAN, Settled(f, table, failed),
         ~failed => \/ table \in job.seen[f] \ {Absent, Malformed} /\ job.seen[f] \ Oversize # {}
                    \/ table = EmptyGraph /\ (job.seen[f] \ {Absent}) \cap ({Malformed} \cup Oversize) # {}
  PROVE  CompileInv'
<1>1. IsJob(job) /\ SeenInv(job) /\ TablesInv(job) /\ StepInv(job)
  BY DEF CompileInv, JobInv
<1> DEFINE tables == [e \in DOMAIN job.tables \cup {f} |-> IF e = f THEN table ELSE job.tables[e]]
<1>2. /\ job'.step = job.step /\ job'.kind = job.kind /\ job'.files = job.files
      /\ job'.pins = job.pins /\ job'.reseed = job.reseed /\ job'.seen = job.seen
      /\ job'.deltas = job.deltas /\ job'.todo = job.todo
      /\ job'.begun = job.begun \cup {f} /\ job'.tables = tables
      /\ job'.failed = (job.failed \/ failed)
      /\ IsJob(job')
  BY <1>1 DEF Settled, IsJob
<1> HIDE DEF tables
<1>3. /\ DOMAIN tables = DOMAIN job.tables \cup {f} /\ tables[f] = table
      /\ \A e \in DOMAIN job.tables : tables[e] = job.tables[e]
  BY DEF tables
<1>4. UNCHANGED <<disk, config, nodes, pins, chosen>>
  BY DEF Settled
<1>5. SeenInv(job)' /\ StepInv(job)'
  BY <1>1, <1>2, <1>4 DEF SeenInv, StepInv
<1>6. ASSUME ~job'.failed, NEW e \in DOMAIN job'.tables PROVE Right(job, e)'
  BY <1>1, <1>2, <1>3, <1>6 DEF Right, TablesInv
<1>7. TablesInv(job)'
  BY <1>1, <1>2, <1>3, <1>6 DEF TablesInv
<1> QED
  BY <1>2, <1>4, <1>5, <1>7, JobMoves DEF SameJob

LEMMA ReadingKeeps ==
  ASSUME CompileInv, NEW f \in File, Begin(f) \/ Read(f) \/ FailFile(f)
  PROVE  CompileInv'
<1>1. job.step = "read" /\ job # Idle
  <2>1. job.step = "read"
    BY DEF Begin, Read, FailFile, Reading
  <2> QED
    BY <2>1 DEF Idle
<1>2. IsJob(job) /\ SeenInv(job) /\ TablesInv(job) /\ StepInv(job)
  BY <1>1 DEF CompileInv, JobInv
<1>3. CASE Begin(f)
  <2>1. f \in job.files \ job.begun /\ f \in job.files \ DOMAIN job.tables
    BY <1>2, <1>3 DEF Begin, TablesInv
  <2>2. CASE job.failed \/ disk[f] = Absent
    <3>1. Settled(f, EmptyGraph, TRUE)
      BY <1>3, <2>2 DEF Begin
    <3> QED
      BY <1>1, <2>1, <3>1, Settles
  <2>3. CASE disk[f] # Absent /\ disk[f] \in Oversize /\ ~job.failed
    <3>1. Settled(f, EmptyGraph, FALSE)
      BY <1>3, <2>3 DEF Begin
    <3>2. (job.seen[f] \ {Absent}) \cap ({Malformed} \cup Oversize) # {}
      BY <1>2, <2>3 DEF SeenInv
    <3> QED
      BY <1>1, <2>1, <3>1, <3>2, Settles
  <2>4. CASE disk[f] \notin Oversize /\ disk[f] # Absent /\ ~job.failed
    <3>1. job' = [job EXCEPT !.begun = @ \cup {f}] /\ UNCHANGED <<disk, config, nodes, pins, chosen>>
      BY <1>3, <2>4 DEF Begin
    <3>2. /\ job'.step = job.step /\ job'.kind = job.kind /\ job'.files = job.files
          /\ job'.pins = job.pins /\ job'.reseed = job.reseed /\ job'.seen = job.seen
          /\ job'.deltas = job.deltas /\ job'.todo = job.todo /\ job'.failed = job.failed
          /\ job'.begun = job.begun \cup {f} /\ job'.tables = job.tables
          /\ IsJob(job')
      BY <1>2, <3>1 DEF IsJob
    <3>3. SeenInv(job)' /\ StepInv(job)'
      BY <1>1, <1>2, <3>1, <3>2 DEF SeenInv, StepInv
    <3>4. job.seen[f] \ Oversize # {}
      BY <1>2, <2>4 DEF SeenInv
    <3>5. TablesInv(job)'
      BY <1>2, <2>1, <3>2, <3>4 DEF TablesInv, Right
    <3> QED
      BY <1>1, <3>1, <3>2, <3>3, <3>5, JobMoves DEF SameJob
  <2> QED
    BY <2>2, <2>3, <2>4
<1>4. CASE Read(f)
  <2>1. f \in job.files \ DOMAIN job.tables /\ job.seen[f] \ Oversize # {} /\ disk[f] \in job.seen[f]
    BY <1>2, <1>4 DEF Read, Reading, TablesInv, SeenInv
  <2>2. CASE disk[f] = Absent
    BY <1>1, <1>4, <2>1, <2>2, Settles DEF Read
  <2>3. CASE disk[f] # Absent /\ disk[f] = Malformed
    BY <1>1, <1>4, <2>1, <2>3, Settles DEF Read
  <2>4. CASE disk[f] \notin {Absent, Malformed}
    BY <1>1, <1>4, <2>1, <2>4, Settles DEF Read
  <2> QED
    BY <2>2, <2>3, <2>4
<1>5. CASE FailFile(f)
  BY <1>1, <1>2, <1>5, Settles DEF FailFile, Reading, TablesInv
<1> QED
  BY <1>3, <1>4, <1>5

LEMMA JoinKeeps ==
  ASSUME CompileInv, Join
  PROVE  CompileInv'
<1>1. job.step = "read" /\ job # Idle /\ DOMAIN job.tables = job.files
  BY DEF Join, Idle
<1>2. IsJob(job) /\ SeenInv(job) /\ TablesInv(job) /\ StepInv(job)
  BY <1>1 DEF CompileInv, JobInv
<1>3. CASE job.failed
  BY <1>3, JobMoves DEF Join, Ends
<1>4. CASE ~job.failed
  <2>1. PICK ds : ds = DiffFlat(Union(job.tables), ContentsOf(nodes, KnownNodes))
    OBVIOUS
  <2>2. job' = [job EXCEPT !.step = "commit", !.deltas = ds] /\ UNCHANGED <<disk, config, nodes, pins, chosen>>
    BY <1>4, <2>1 DEF Join
  <2>3. /\ job'.step = "commit" /\ job'.kind = job.kind /\ job'.files = job.files
        /\ job'.pins = job.pins /\ job'.reseed = job.reseed /\ job'.seen = job.seen
        /\ job'.deltas = ds /\ job'.failed = job.failed
        /\ job'.begun = job.begun /\ job'.tables = job.tables
        /\ IsJob(job')
    BY <1>2, <2>2 DEF IsJob
  <2>4. SeenInv(job)' /\ TablesInv(job)'
    BY <1>2, <2>2, <2>3 DEF SeenInv, TablesInv, Right
  <2>5. (Union(job.tables))' = Union(job.tables) /\ (ContentsOf(nodes, KnownNodes))' = ContentsOf(nodes, KnownNodes)
    BY <2>2, <2>3 DEF KnownNodes, Union, ContentsOf
  <2>6. StepInv(job)'
    BY <1>1, <1>4, <2>1, <2>3, <2>5 DEF StepInv
  <2> QED
    BY <1>1, <2>2, <2>3, <2>4, <2>6, JobMoves DEF SameJob
<1> QED
  BY <1>3, <1>4

\* A file that has had a node all along still has it in what was parsed.
LEMMA SteadyParsed ==
  ASSUME CompileInv, job # Idle, job.step # "read",
         NEW n, Steady(n, disk, config, job), HomeFile[n] \in job.files
  PROVE  n \in DOMAIN Union(job.tables)
<1>1. PICK f : f = HomeFile[n]
  OBVIOUS
<1>2. SeenInv(job) /\ TablesInv(job) /\ StepInv(job) /\ job.step # "idle"
  BY DEF CompileInv, JobInv, StepInv
<1>3. f \in DOMAIN job.tables /\ Right(job, f) /\ ~job.failed
  BY <1>1, <1>2 DEF TablesInv, StepInv
<1>4. \A v \in job.seen[f] : HasNode(v, n)
  BY <1>1, <1>2 DEF Steady
<1>5. job.tables[f] \in job.seen[f]
  BY <1>3, <1>4 DEF Right, HasNode
<1>6. n \in DOMAIN job.tables[f]
  BY <1>4, <1>5 DEF HasNode
<1> QED
  BY <1>2, <1>3, <1>6, RightByFile, UnionIs

LEMMA CommitKeeps ==
  ASSUME CompileInv, Commit
  PROVE  CompileInv'
<1>1. job # Idle
  BY DEF Commit, Idle
<1>2. IsJob(job) /\ SeenInv(job) /\ TablesInv(job) /\ StepInv(job) /\ StoreInv
  BY <1>1 DEF CompileInv, JobInv
<1>3. PICK u, K : u = Union(job.tables) /\ K = KnownNodes
  OBVIOUS
<1>4. /\ Stored(u, K) /\ AtHome(u) /\ \A n \in DOMAIN u : HomeFile[n] \in job.files
      /\ K = {n \in DOMAIN nodes : job.kind = "rescan" => HomeFile[n] \in job.files}
      /\ \A n \in DOMAIN nodes : HomeParent[n] \in K => n \in K
  BY <1>2, <1>3, CommitStores, UnionIs
<1>5. /\ DOMAIN nodes' = (DOMAIN nodes \ K) \cup DOMAIN u
      /\ \A n \in DOMAIN nodes' : nodes'[n] = IF n \in DOMAIN u THEN u[n] ELSE nodes[n]
  BY <1>4 DEF Stored
<1>6. AtHome(nodes')
  BY <1>2, <1>4, <1>5 DEF AtHome, StoreInv
<1>7. /\ DOMAIN pins' = DOMAIN nodes'
      /\ \A n \in DOMAIN nodes' : pins'[n] \in BOOLEAN /\ (n \in DOMAIN nodes => pins'[n] = pins[n])
  <2>1. /\ DOMAIN pins' = DOMAIN nodes'
        /\ \A n \in DOMAIN nodes' : pins'[n] = PinAfter(n)
    BY DEF Commit
  <2>2. \A n \in DOMAIN nodes : pins[n] \in BOOLEAN
    BY <1>2 DEF StoreInv
  <2>3. \A n : PinAfter(n) = IF n \in DOMAIN nodes THEN pins[n] ELSE HomeFile[n] \in job.pins
    BY DEF PinAfter
  <2>4. \A n : (HomeFile[n] \in job.pins) \in BOOLEAN
    OBVIOUS
  <2> QED
    BY <2>1, <2>2, <2>3, <2>4, Zenon
<1>8. pins' = [n \in DOMAIN pins' |-> pins'[n]]
  BY DEF Commit
<1>9. StoreInv'
  BY <1>2, <1>4, <1>5, <1>6, <1>7, <1>8 DEF StoreInv, TablesInv
<1>10. UNCHANGED <<disk, config, chosen>> /\ DiskInv'
  BY DEF Commit, CompileInv, DiskInv
<1>11. JobInv' /\ (job' = Idle \/ (SameJob(job, job') /\ job'.step = "reseed"))
  <2>1. CASE job' = Idle
    BY <2>1 DEF JobInv
  <2>2. CASE job' # Idle
    <3>1. PICK todo : todo = ReseedTransactions
      OBVIOUS
    <3>2. job' = [job EXCEPT !.step = "reseed", !.todo = todo]
      BY <2>2, <3>1 DEF Commit, Goes
    <3>3. /\ job'.step = "reseed" /\ job'.kind = job.kind /\ job'.files = job.files
          /\ job'.pins = job.pins /\ job'.reseed = job.reseed /\ job'.seen = job.seen
          /\ job'.todo = todo /\ job'.failed = job.failed
          /\ job'.begun = job.begun /\ job'.tables = job.tables
          /\ IsJob(job')
      BY <1>2, <3>2 DEF IsJob
    <3>4. \A t \in todo : t.pins \subseteq (IF "pins" \in job.reseed THEN job.pins ELSE {})
      BY <3>1 DEF ReseedTransactions
    <3>5. SeenInv(job)' /\ TablesInv(job)'
      BY <1>2, <1>10, <3>3 DEF SeenInv, TablesInv, Right
    <3>6. job.step = "commit"
      BY DEF Commit
    <3>7. StepInv(job)'
      BY <1>2, <3>3, <3>4, <3>6 DEF StepInv
    <3> QED
      BY <3>3, <3>5, <3>7 DEF JobInv, SameJob
  <2> QED
    BY <2>1, <2>2
<1>12. ASSUME NEW n \in DOMAIN chosen'
       PROVE  n \in DOMAIN nodes' /\ pins'[n] = chosen'[n] /\ Steady(n, disk', config', job')
  <2>1. n \in DOMAIN nodes /\ pins[n] = chosen'[n] /\ Steady(n, disk, config, job)
    BY <1>10, <1>12 DEF CompileInv, ChosenInv
  <2>2. job.step = "commit"
    BY DEF Commit
  <2>3. n \in DOMAIN nodes'
    <3>1. CASE HomeFile[n] \in job.files
      BY <1>1, <1>3, <1>5, <2>1, <2>2, <3>1, SteadyParsed
    <3>2. CASE HomeFile[n] \notin job.files
      BY <1>4, <1>5, <2>1, <2>2, <3>2 DEF Steady
    <3> QED
      BY <3>1, <3>2
  <2>4. Steady(n, disk', config', job')
    <3>1. CASE job' = Idle
      BY <1>10, <2>1, <3>1 DEF Steady, Idle
    <3>2. CASE SameJob(job, job')
      BY <1>10, <2>1, <2>2, <3>2 DEF Steady, SameJob
    <3> QED
      BY <1>11, <3>1, <3>2
  <2> QED
    BY <1>7, <2>1, <2>3, <2>4
<1> QED
  BY <1>9, <1>10, <1>11, <1>12 DEF CompileInv, ChosenInv

LEMMA ReseedKeeps ==
  ASSUME CompileInv, NEW t \in job.todo, Reseed(t)
  PROVE  CompileInv'
<1>1. job.step = "reseed" /\ job # Idle
  <2>1. job.step = "reseed"
    BY DEF Reseed
  <2> QED
    BY <2>1 DEF Idle
<1>2. IsJob(job) /\ SeenInv(job) /\ TablesInv(job) /\ StepInv(job) /\ StoreInv
  BY <1>1 DEF CompileInv, JobInv
<1>3. UNCHANGED <<disk, config, nodes, chosen>> /\ DiskInv'
  BY DEF Reseed, CompileInv, DiskInv
<1>4. /\ DOMAIN pins' = DOMAIN pins
      /\ \A n \in DOMAIN pins : pins'[n] = (pins[n] \/ HomeFile[n] \in t.pins)
  BY <1>2 DEF Reseed, StoreInv, AtHome
<1>5. StoreInv'
  <2>1. pins' = [n \in DOMAIN pins' |-> pins'[n]]
    BY DEF Reseed
  <2> QED
    BY <1>2, <1>3, <1>4, <2>1 DEF StoreInv
<1>6. JobInv' /\ (job' = Idle \/ SameJob(job, job'))
  <2>1. CASE job' = Idle
    BY <2>1 DEF JobInv
  <2>2. CASE job' # Idle
    <3>1. job' = [job EXCEPT !.todo = @ \ {t}]
      BY <2>2 DEF Reseed
    <3>2. /\ job'.step = job.step /\ job'.kind = job.kind /\ job'.files = job.files
          /\ job'.pins = job.pins /\ job'.reseed = job.reseed /\ job'.seen = job.seen
          /\ job'.todo = job.todo \ {t} /\ job'.failed = job.failed
          /\ job'.begun = job.begun /\ job'.tables = job.tables
          /\ IsJob(job')
      BY <1>2, <3>1 DEF IsJob
    <3>3. SeenInv(job)' /\ TablesInv(job)' /\ StepInv(job)'
      BY <1>1, <1>2, <1>3, <3>2 DEF SeenInv, TablesInv, Right, StepInv
    <3> QED
      BY <3>2, <3>3 DEF JobInv, SameJob
  <2> QED
    BY <2>1, <2>2
<1>7. ASSUME NEW n \in DOMAIN chosen'
      PROVE  n \in DOMAIN nodes' /\ pins'[n] = chosen'[n] /\ Steady(n, disk', config', job')
  <2>1. n \in DOMAIN nodes /\ pins[n] = chosen'[n] /\ Steady(n, disk, config, job)
    BY <1>3, <1>7 DEF CompileInv, ChosenInv
  <2>2. HomeFile[n] \notin t.pins
    BY <1>1, <1>2, <2>1 DEF Steady, StepInv
  <2>3. pins[n] \in BOOLEAN /\ pins'[n] = (pins[n] \/ HomeFile[n] \in t.pins)
    BY <1>2, <1>4, <2>1 DEF StoreInv
  <2>4. pins'[n] = pins[n]
    BY <2>2, <2>3
  <2>5. Steady(n, disk', config', job')
    <3>1. CASE job' = Idle
      BY <1>3, <2>1, <3>1 DEF Steady, Idle
    <3>2. CASE SameJob(job, job')
      BY <1>1, <1>3, <2>1, <3>2 DEF Steady, SameJob
    <3> QED
      BY <1>6, <3>1, <3>2
  <2> QED
    BY <1>3, <2>1, <2>4, <2>5
<1> QED
  BY <1>3, <1>5, <1>6, <1>7 DEF CompileInv, ChosenInv

-----------------------------------------------------------------------------
(* The steps of everybody else.                                            *)

\* Choices that are not steady any more are dropped: the others are kept.
LEMMA KeptChoices ==
  ASSUME CompileInv, UNCHANGED <<nodes, pins>>, DiskInv', JobInv', KeepChoices(disk', config', job')
  PROVE  CompileInv'
<1>1. StoreInv'
  BY DEF CompileInv, StoreInv
<1>2. /\ DOMAIN chosen' = {n \in DOMAIN chosen : Steady(n, disk', config', job')}
      /\ \A n \in DOMAIN chosen' : chosen'[n] = chosen[n]
  BY DEF KeepChoices, Restrict
<1> QED
  BY <1>1, <1>2 DEF CompileInv, ChosenInv

LEMMA BeginsKeeps ==
  ASSUME CompileInv, NEW kind, NEW files \in SUBSET File, NEW seeds, NEW reseed,
         Begins(kind, files, seeds, reseed)
  PROVE  CompileInv'
<1> DEFINE seen == [f \in File |-> {disk[f]}]
<1>1. /\ job'.step = "read" /\ job'.files = files /\ job'.begun = {} /\ job'.tables = EmptyGraph
      /\ job'.seen = seen /\ IsJob(job')
      /\ UNCHANGED <<disk, config, nodes, temps, pins>> /\ KeepChoices(disk, config, job')
  BY DEF Begins, IsJob
<1>2. DiskInv'
  BY <1>1 DEF CompileInv, DiskInv
<1>3. SeenInv(job)'
  <2>1. DOMAIN seen = File /\ \A f \in File : seen[f] = {disk[f]}
    OBVIOUS
  <2>2. \A f \in File : IsFiniteSet(seen[f])
    BY <2>1, FS_Singleton
  <2> HIDE DEF seen
  <2> QED
    BY <1>1, <2>1, <2>2 DEF SeenInv, CompileInv, DiskInv
<1>4. TablesInv(job)'
  BY <1>1 DEF TablesInv, EmptyGraph
<1>5. StepInv(job)'
  BY <1>1 DEF StepInv
<1>6. KeepChoices(disk', config', job')
  BY <1>1
<1> QED
  BY <1>1, <1>2, <1>3, <1>4, <1>5, <1>6, KeptChoices DEF JobInv

LEMMA EditKeeps ==
  ASSUME CompileInv, NEW f \in File, NEW version \in Versions[f] \cup {Absent, Malformed}, Edit(f, version)
  PROVE  CompileInv'
<1>1. /\ disk' = [disk EXCEPT ![f] = version]
      /\ UNCHANGED <<config, nodes, temps, pins>> /\ KeepChoices(disk', config, job')
  BY DEF Edit
<1>2. DiskInv'
  BY <1>1 DEF CompileInv, DiskInv
<1>3. CASE job = Idle
  BY <1>1, <1>2, <1>3, KeptChoices DEF Edit, JobInv
<1>4. CASE job # Idle
  <2>1. IsJob(job) /\ SeenInv(job) /\ TablesInv(job) /\ StepInv(job)
    BY <1>4 DEF CompileInv, JobInv
  <2>2. job' = [job EXCEPT !.seen[f] = @ \cup {version}]
    BY <1>4 DEF Edit
  <2> DEFINE seen == [job.seen EXCEPT ![f] = @ \cup {version}]
  <2>3. /\ job'.step = job.step /\ job'.kind = job.kind /\ job'.files = job.files
        /\ job'.pins = job.pins /\ job'.reseed = job.reseed /\ job'.seen = seen
        /\ job'.deltas = job.deltas /\ job'.todo = job.todo /\ job'.failed = job.failed
        /\ job'.begun = job.begun /\ job'.tables = job.tables
        /\ IsJob(job')
    BY <2>1, <2>2 DEF IsJob
  <2>4. /\ DOMAIN seen = File
        /\ \A e \in File : seen[e] = IF e = f THEN job.seen[e] \cup {version} ELSE job.seen[e]
    BY <2>1 DEF SeenInv
  <2> HIDE DEF seen
  <2>5. SeenInv(job)'
    <3>1. \A e \in File : IsFiniteSet(seen[e])
      BY <2>1, <2>4, FS_AddElement DEF SeenInv
    <3>2. \A e \in File : disk'[e] = IF e = f THEN version ELSE disk[e]
      BY <1>1 DEF CompileInv, DiskInv
    <3> QED
      BY <2>1, <2>3, <2>4, <3>1, <3>2 DEF SeenInv
  <2>6. \A e \in job.begun : job.seen[e] \subseteq seen[e]
    BY <2>1, <2>4 DEF TablesInv
  <2>7. \A e \in DOMAIN job.tables : Right(job, e) => Right(job, e)'
    BY <2>1, <2>3, <2>6 DEF Right, TablesInv
  <2>8. TablesInv(job)'
    BY <2>1, <2>3, <2>6, <2>7 DEF TablesInv
  <2>9. (Union(job.tables))' = Union(job.tables) /\ (ContentsOf(nodes, KnownNodes))' = ContentsOf(nodes, KnownNodes)
    BY <1>1, <2>3 DEF KnownNodes, Union, ContentsOf
  <2>10. StepInv(job)'
    BY <2>1, <2>3, <2>9 DEF StepInv
  <2> QED
    BY <1>1, <1>2, <2>3, <2>5, <2>8, <2>10, KeptChoices DEF JobInv
<1> QED
  BY <1>3, <1>4

LEMMA SameJobInv ==
  ASSUME JobInv, UNCHANGED <<disk, nodes, job>>
  PROVE  JobInv'
  BY DEF JobInv, SeenInv, TablesInv, Right, StepInv, KnownNodes

LEMMA EditConfigKeeps ==
  ASSUME CompileInv, NEW c, EditConfig(c)
  PROVE  CompileInv'
  BY SameJobInv, KeptChoices DEF EditConfig, CompileInv, DiskInv

\* An agent's choice takes effect at once.
LEMMA SetPinnedKeeps ==
  ASSUME CompileInv, NEW n \in NodeId, NEW pinned \in BOOLEAN, NEW temp, SetPinned(n, pinned, temp)
  PROVE  CompileInv'
<1>1. /\ UNCHANGED <<disk, config, nodes, job>> /\ n \in DOMAIN nodes
      /\ pins' = [pins EXCEPT ![n] = pinned]
      /\ DOMAIN chosen' = DOMAIN chosen \cup (IF Steady(n, disk, config, job) THEN {n} ELSE {})
      /\ \A m \in DOMAIN chosen' : chosen'[m] = IF m = n THEN pinned ELSE chosen[m]
  BY DEF SetPinned
<1>2. DiskInv' /\ StoreInv' /\ JobInv'
  BY <1>1, SameJobInv DEF CompileInv, DiskInv, StoreInv
<1>3. \A m \in DOMAIN nodes : pins'[m] = IF m = n THEN pinned ELSE pins[m]
  BY <1>1 DEF CompileInv, StoreInv
<1>4. \A m \in DOMAIN chosen' : m = n \/ m \in DOMAIN chosen
  BY <1>1
<1>5. \A m \in DOMAIN chosen' : m \in DOMAIN nodes /\ Steady(m, disk, config, job)
  BY <1>1, <1>4 DEF CompileInv, ChosenInv
<1>6. \A m \in DOMAIN chosen' : pins'[m] = chosen'[m]
  BY <1>1, <1>3, <1>4, <1>5 DEF CompileInv, ChosenInv
<1>7. ChosenInv'
  BY <1>1, <1>5, <1>6 DEF ChosenInv, Steady
<1> QED
  BY <1>2, <1>7 DEF CompileInv

\* Whoever only reads changes temperatures at most.
LEMMA StoreSame ==
  ASSUME CompileInv, UNCHANGED <<disk, config, nodes, pins, job, chosen>>
  PROVE  CompileInv'
  BY SameJobInv DEF CompileInv, DiskInv, StoreInv, ChosenInv, Steady

-----------------------------------------------------------------------------
(* The theorems.                                                           *)

LEMMA CompileInvInit == CompileInit => CompileInv
<1> SUFFICES ASSUME CompileInit PROVE CompileInv
  OBVIOUS
<1>1. DiskInv
  BY StartsAssumption DEF CompileInit, DiskInv
<1> DEFINE tables == [f \in {f \in File : Kept(config.ignore, Path[f])} |->
             IF disk[f] \in {Absent, Malformed} \cup Oversize THEN EmptyGraph ELSE disk[f]]
<1>2. ByFile(tables)
  <2> SUFFICES ASSUME NEW f \in DOMAIN tables
               PROVE  AtHome(tables[f]) /\ \A n \in DOMAIN tables[f] : HomeFile[n] = f
    BY DEF ByFile
  <2>1. f \in File
    OBVIOUS
  <2>2. CASE disk[f] \in {Absent, Malformed} \cup Oversize
    BY <2>2 DEF EmptyGraph, AtHome
  <2>3. CASE disk[f] \notin {Absent, Malformed} \cup Oversize
    <3>1. disk[f] \in Parses({f})
      BY <1>1, <2>1, <2>3, VersionsAssumption DEF DiskInv
    <3> QED
      BY <2>1, <2>3, <3>1, ParsedAtHome
  <2> QED
    BY <2>2, <2>3
<1>3. nodes = Union(tables)
  BY DEF CompileInit, Fresh
<1>4. \A f \in DOMAIN tables : f \in File
  OBVIOUS
<1> HIDE DEF tables
<1>5. AtHome(nodes) /\ \A n \in DOMAIN nodes : HomeFile[n] \in File
  BY <1>2, <1>3, <1>4, UnionIs
<1>6. pins \in [DOMAIN nodes -> BOOLEAN]
  BY DEF CompileInit, Pinned, Match
<1>7. JobInv /\ ChosenInv
  BY DEF CompileInit, JobInv, ChosenInv, EmptyGraph
<1> QED
  BY <1>1, <1>5, <1>6, <1>7 DEF CompileInv, StoreInv

LEMMA CompileInvNext == CompileInv /\ [Next]_workspaceVars => CompileInv'
<1> SUFFICES ASSUME CompileInv, [Next]_workspaceVars PROVE CompileInv'
  OBVIOUS
<1>1. CASE UNCHANGED workspaceVars
  BY <1>1, StoreSame DEF workspaceVars, compileVars
<1>2. CASE Environment
  <2>1. ASSUME NEW f \in File, NEW v \in Versions[f] \cup {Absent, Malformed}, Edit(f, v) PROVE CompileInv'
    BY <2>1, EditKeeps
  <2>2. ASSUME NEW c, EditConfig(c) PROVE CompileInv'
    BY <2>2, EditConfigKeeps
  <2>3. ASSUME NEW n \in NodeId, NEW p \in BOOLEAN, NEW t, SetPinned(n, p, t) PROVE CompileInv'
    BY <2>3, SetPinnedKeeps
  <2>4. ASSUME NEW kind, NEW reseed, StartDir(kind, reseed) PROVE CompileInv'
    <3>1. PICK seeds : Begins(kind, Found, seeds, reseed)
      BY <2>4 DEF StartDir
    <3> QED
      BY <3>1, BeginsKeeps DEF Found
  <2>5. ASSUME NEW fs, StartRescan(fs) PROVE CompileInv'
    <3>1. fs \in SUBSET File
      BY <2>5 DEF StartRescan, Found
    <3> QED
      BY <2>5, <3>1, BeginsKeeps DEF StartRescan
  <2> QED
    BY <1>2, <2>1, <2>2, <2>3, <2>4, <2>5 DEF Environment, InitialCompile
<1>3. CASE Compiling
  <2>1. ASSUME Fail PROVE CompileInv'
    BY <2>1, JobMoves DEF Fail, Ends
  <2> QED
    BY <1>3, <2>1, ReadingKeeps, JoinKeeps, CommitKeeps, ReseedKeeps DEF Compiling
<1>4. CASE CallReader
  BY <1>4, StoreSame DEF CallReader, Reader!StartRead, Reader!Fetch, Reader!Tree, Reader!FetchBatch,
    Reader!Search, Reader!Answers
<1>5. CASE ReaderStep
  BY <1>5, StoreSame DEF ReaderStep, Reader!Reads, Reader!Collect, Reader!AnswerFetch, Reader!FailFetch,
    Reader!Boost, Reader!EndTree, Reader!Answers
<1> QED
  BY <1>1, <1>2, <1>3, <1>4, <1>5 DEF Next

LEMMA CompileInvHolds == Spec => []CompileInv
<1>1. Init => CompileInv
  BY CompileInvInit DEF Init
<1> QED
  BY <1>1, CompileInvNext, PTL DEF Spec

\* What an agent chose with MemoryPin or MemoryUnpin survives every compile, also one of files
\* that are edited while it reads them, as long as every version has the node and no reseed of
\* pins was asked for.
THEOREM ChoicesSurvive == Spec => []ChoiceKept
<1>1. CompileInv => ChoiceKept
  BY DEF CompileInv, ChosenInv, StoreInv, ChoiceKept
<1> QED
  BY <1>1, CompileInvHolds, PTL

LEMMA RightIsStored ==
  ASSUME NEW f \in File, SeenInv(job), Right(job, f)
  PROVE  job.tables[f] \in MayStore(job.seen[f])
<1> DEFINE seen == job.seen[f]  table == job.tables[f]
<1>1. CASE table = EmptyGraph /\ (seen \ {Absent}) \cap ({Malformed} \cup Oversize) # {}
  BY <1>1 DEF MayStore, CompiledTo
<1>2. CASE table \in seen \ {Absent, Malformed} /\ table \notin Oversize
  BY <1>2 DEF MayStore, CompiledTo
<1>3. CASE table \in seen /\ table \in Oversize /\ seen \ Oversize # {}
  <2>1. PICK other \in seen : other \notin Oversize
    BY <1>3
  <2>2. IsFiniteSet(seen)
    BY DEF SeenInv
  <2>3. Cardinality({table}) = 1 /\ {table} \in SUBSET seen /\ {table} # seen
    BY <1>3, <2>1, FS_Singleton
  <2>4. Cardinality({table}) <= Cardinality(seen) /\ Cardinality(seen) # Cardinality({table})
    <3>1. PICK one : one = {table}
      OBVIOUS
    <3>2. Cardinality(one) <= Cardinality(seen) /\ (Cardinality(one) = Cardinality(seen) => one = seen)
      BY <2>2, <2>3, <3>1, FS_Subset
    <3> QED
      BY <2>3, <3>1, <3>2
  <2>5. Cardinality(seen) \in Nat
    BY <2>2, FS_CardinalityType
  <2>6. Cardinality(seen) > 1
    BY <2>3, <2>4, <2>5
  <2>7. table \in seen \cap Oversize
    BY <1>3
  <2>8. seen \cap Oversize \subseteq MayStore(seen)
    <3> DEFINE plain == UNION {CompiledTo(v) : v \in seen \ {Absent}}
               grown == IF Cardinality(seen) > 1 THEN seen \cap Oversize ELSE {}
    <3>1. MayStore(seen) = plain \cup grown
      BY DEF MayStore
    <3>2. grown = seen \cap Oversize
      BY <2>6
    <3> HIDE DEF plain, grown
    <3> QED
      BY <3>1, <3>2
  <2> QED
    BY <2>7, <2>8
<1> QED
  BY <1>1, <1>2, <1>3 DEF Right

\* Whatever is written to the files while they are read, a commit stores of each file it was
\* given a version the file had while the compile ran, or nothing for one that was skipped; a
\* full compile leaves nothing of other files, a rescan leaves them as they are.
LEMMA CommitIsExact == CompileInv => CommitExact
<1> SUFFICES ASSUME CompileInv, Commit, NEW f \in File
             PROVE  IF f \in job.files THEN OfFile(nodes', f) \in MayStore(job.seen[f])
                    ELSE OfFile(nodes', f) = IF job.kind = "rescan" THEN OfFile(nodes, f) ELSE EmptyGraph
  BY DEF CommitExact
<1>1. job.step = "commit"
  BY DEF Commit
<1>2. SeenInv(job) /\ TablesInv(job) /\ StepInv(job) /\ StoreInv
  BY <1>1 DEF CompileInv, JobInv, Idle
<1>3. PICK u, K : u = Union(job.tables) /\ K = KnownNodes
  OBVIOUS
<1>4. /\ Stored(u, K) /\ AtHome(u) /\ ByFile(job.tables) /\ DOMAIN job.tables = job.files
      /\ K = {n \in DOMAIN nodes : job.kind = "rescan" => HomeFile[n] \in job.files}
      /\ \A n \in DOMAIN u : HomeFile[n] \in job.files
      /\ \A e \in job.files : \A n :
           /\ n \in DOMAIN u /\ HomeFile[n] = e <=> n \in DOMAIN job.tables[e]
           /\ n \in DOMAIN job.tables[e] => u[n] = job.tables[e][n]
  BY <1>2, <1>3, CommitStores, UnionIs
<1>5. /\ DOMAIN nodes' = (DOMAIN nodes \ K) \cup DOMAIN u
      /\ \A n \in DOMAIN nodes' : /\ nodes'[n] = IF n \in DOMAIN u THEN u[n] ELSE nodes[n]
                                  /\ nodes'[n].file = HomeFile[n]
  BY <1>2, <1>4 DEF Stored, StoreInv, AtHome
<1>6. OfFile(nodes', f) = [n \in {n \in DOMAIN nodes' : HomeFile[n] = f} |-> nodes'[n]]
  BY <1>5 DEF OfFile, Restrict
<1>7. CASE f \in job.files
  <2>1. {n \in DOMAIN nodes' : HomeFile[n] = f} = DOMAIN job.tables[f]
    BY <1>4, <1>5, <1>7
  <2>2. \A n \in DOMAIN job.tables[f] : nodes'[n] = job.tables[f][n]
    BY <1>4, <1>5, <1>7, <2>1
  <2>3. job.tables[f] = [n \in DOMAIN job.tables[f] |-> job.tables[f][n]]
    <3>1. Right(job, f)
      BY <1>1, <1>2, <1>4, <1>7 DEF TablesInv, StepInv
    <3>2. CASE job.tables[f] = EmptyGraph
      BY <3>2 DEF EmptyGraph
    <3>3. CASE job.tables[f] # EmptyGraph
      <4>1. job.tables[f] \in Parses({f})
        BY <1>2, <3>1, <3>3, VersionsAssumption DEF Right, SeenInv
      <4>2. PICK table : table = job.tables[f]
        OBVIOUS
      <4>3. \E S : table \in
               {[n \in S |-> [parent |-> HomeParent[n], file |-> HomeFile[n], content |-> c[n]]] :
                  c \in [S -> Content]}
        BY <4>1, <4>2 DEF Parses
      <4>4. table = [n \in DOMAIN table |-> table[n]]
        BY <4>3
      <4> QED
        BY <4>2, <4>4
    <3> QED
      BY <3>2, <3>3
  <2>4. OfFile(nodes', f) = job.tables[f]
    BY <1>6, <2>1, <2>2, <2>3
  <2>5. Right(job, f)
    BY <1>1, <1>2, <1>4, <1>7 DEF TablesInv, StepInv
  <2> QED
    BY <1>2, <1>7, <2>4, <2>5, RightIsStored
<1>8. CASE f \notin job.files /\ job.kind = "rescan"
  <2>1. {n \in DOMAIN nodes' : HomeFile[n] = f} = {n \in DOMAIN nodes : nodes[n].file = f}
    BY <1>2, <1>4, <1>5, <1>8 DEF StoreInv, AtHome
  <2>2. \A n \in DOMAIN nodes' : HomeFile[n] = f => nodes'[n] = nodes[n]
    BY <1>4, <1>5, <1>8
  <2> QED
    BY <1>6, <1>8, <2>1, <2>2 DEF OfFile, Restrict
<1>9. CASE f \notin job.files /\ job.kind # "rescan"
  <2>1. {n \in DOMAIN nodes' : HomeFile[n] = f} = {}
    BY <1>4, <1>5, <1>9
  <2> QED
    BY <1>6, <1>9, <2>1 DEF EmptyGraph
<1> QED
  BY <1>7, <1>8, <1>9

-----------------------------------------------------------------------------
(* Sums and sequences.                                                     *)

\* A non-empty set of natural numbers has a least element.
LEMMA LeastNat ==
  ASSUME NEW S \in SUBSET Nat, S # {}
  PROVE  \E m \in S : \A k \in S : m <= k
<1>1. PICK m \in S : \A k \in S : ~(<<k, m>> \in OpToRel(<, Nat))
  BY NatLessThanWellFounded, WFMin
<1>2. \A k \in S : ~(k < m)
  BY <1>1 DEF OpToRel
<1> QED
  BY <1>2

\* A set with 0, and with k when it has k - 1, has all numbers up to n.
LEMMA UpTo ==
  ASSUME NEW n \in Nat, NEW S, 0 \in S, \A k \in 1..n : k - 1 \in S => k \in S
  PROVE  \A k \in 0..n : k \in S
<1> SUFFICES ASSUME (0..n) \ S # {} PROVE FALSE
  OBVIOUS
<1>1. (0..n) \ S \in SUBSET Nat
  OBVIOUS
<1>2. PICK m \in (0..n) \ S : \A k \in (0..n) \ S : m <= k
  BY <1>1, LeastNat
<1>3. m # 0 /\ m \in 1..n /\ m - 1 \in 0..n /\ ~(m <= m - 1)
  BY <1>2
<1> QED
  BY <1>2, <1>3

\* A function may be defined from one number to the next.
IsSteps(f, V, v0, n, G) == f \in [0..n -> V] /\ f[0] = v0 /\ \A k \in 1..n : f[k] = G[k][f[k - 1]]

LEMMA StepByStep ==
  ASSUME NEW V, NEW v0 \in V, NEW n \in Nat, NEW G \in [1..n -> [V -> V]]
  PROVE  \E f : IsSteps(f, V, v0, n, G)
<1> DEFINE IsPart(f, m) == f[0] = v0 /\ \A k \in 1..m : f[k] = G[k][f[k - 1]]
           S == {m \in 0..n : \E f \in [0..m -> V] : IsPart(f, m)}
<1>1. 0 \in S
  <2> DEFINE f == [k \in 0..0 |-> v0]
  <2>1. f \in [0..0 -> V] /\ f[0] = v0 /\ 1..0 = {}
    OBVIOUS
  <2> HIDE DEF f
  <2>2. IsPart(f, 0)
    BY <2>1
  <2>3. 0 \in 0..n
    OBVIOUS
  <2> QED
    BY <2>1, <2>2, <2>3
<1>2. ASSUME NEW m \in 1..n, m - 1 \in S PROVE m \in S
  <2>1. PICK f \in [0..(m - 1) -> V] : IsPart(f, m - 1)
    BY <1>2
  <2>2. m - 1 \in 0..(m - 1) /\ f[m - 1] \in V
    OBVIOUS
  <2> DEFINE last == G[m][f[m - 1]]
             g == [k \in 0..m |-> IF k = m THEN last ELSE f[k]]
  <2>3. last \in V
    BY <2>2
  <2>4. \A k \in 0..m : k # m => k \in 0..(m - 1) /\ g[k] = f[k]
    OBVIOUS
  <2>5. g[m] = last /\ m \in 0..m
    OBVIOUS
  <2>6. g \in [0..m -> V]
    BY <2>3
  <2> HIDE DEF g
  <2>7. g[0] = v0
    BY <2>1, <2>4
  <2>8. \A k \in 1..m : g[k] = G[k][g[k - 1]]
    <3> SUFFICES ASSUME NEW k \in 1..m PROVE g[k] = G[k][g[k - 1]]
      OBVIOUS
    <3>1. k - 1 \in 0..m /\ k - 1 # m /\ g[k - 1] = f[k - 1] /\ k \in 0..m
      BY <2>4
    <3>2. CASE k = m
      BY <2>5, <3>1, <3>2
    <3>3. CASE k # m
      <4>1. k \in 1..(m - 1) /\ k # m
        BY <3>3
      <4>2. g[k] = f[k]
        BY <2>4, <3>1, <4>1
      <4> QED
        BY <2>1, <3>1, <4>1, <4>2
    <3> QED
      BY <3>2, <3>3
  <2>9. IsPart(g, m) /\ m \in 0..n
    BY <2>7, <2>8
  <2> HIDE DEF IsPart
  <2> QED
    BY <2>6, <2>9
<1> HIDE DEF S
<1>3. n \in S
  <2>1. \A m \in 1..n : m - 1 \in S => m \in S
    BY <1>2
  <2>2. n \in 0..n
    OBVIOUS
  <2> QED
    BY <1>1, <2>1, <2>2, UpTo
<1>4. PICK f \in [0..n -> V] : IsPart(f, n)
  BY <1>3 DEF S
<1> QED
  BY <1>4 DEF IsSteps

\* The reader counts as everybody does.
LEMMA SameCount == ASSUME NEW S PROVE Reader!Cardinality(S) = Cardinality(S)
BY DEF Cardinality, Reader!Cardinality

\* The sequences a set can be put in.
LEMMA OrderIs ==
  ASSUME NEW S, IsFiniteSet(S), NEW s \in Reader!SetToSeqs(S)
  PROVE  /\ s \in Seq(S) /\ Len(s) = Cardinality(S)
         /\ \A i, j \in 1..Len(s) : s[i] = s[j] => i = j
         /\ \A x \in S : \E i \in 1..Len(s) : s[i] = x
<1>1. PICK n \in Nat : n = Cardinality(S)
  BY FS_CardinalityType
<1>2. s \in [1..n -> S] /\ \A i, j \in 1..n : i # j => s[i] # s[j]
  BY <1>1, SameCount DEF Reader!SetToSeqs
<1>3. s \in Seq(S) /\ Len(s) = n
  BY <1>2
<1>4. s \in Injection(1..n, S)
  BY <1>2 DEF Injection, IsInjective
<1>5. Cardinality(1..n) = n
  <2>1. 1 \in Int /\ n \in Int
    OBVIOUS
  <2>2. Cardinality(1..n) = IF 1 > n THEN 0 ELSE n - 1 + 1
    BY <2>1, FS_Interval
  <2> QED
    BY <2>2
<1>6. s \in Surjection(1..n, S)
  BY <1>1, <1>4, <1>5, FS_Injection
<1> QED
  BY <1>1, <1>2, <1>3, <1>6 DEF Surjection

-----------------------------------------------------------------------------
(* The budget.                                                             *)

\* A node of a ranked list with the row it was read with.
Ranking == [node : NodeId, row : NodeRow]

Cost(s) == TokenCount[s.row.content]

LEMMA CostIs == ASSUME NEW s \in Ranking PROVE Cost(s) \in Nat /\ Reader!Tokens(s.row) = Cost(s)
BY ReaderAssumption DEF Cost, Ranking, NodeRow, Reader!Tokens

\* used[k] is what the first k nodes of the list take.
AddsUp(used, list) ==
  used[0] = 0 /\ \A k \in 1..Len(list) : used[k] = used[k - 1] + Cost(list[k])

LEMMA UsedIs ==
  ASSUME NEW list \in Seq(Ranking)
  PROVE  \E used \in [0..Len(list) -> Nat] : AddsUp(used, list) /\ Reader!UsedBy(list) = used[Len(list)]
<1> DEFINE n == Len(list)
           G == [k \in 1..n |-> [x \in Nat |-> x + Cost(list[k])]]
           Eq(f) == f = [k \in 0..n |-> IF k = 0 THEN 0 ELSE f[k - 1] + Reader!Tokens(list[k].row)]
<1>1. n \in Nat /\ \A k \in 1..n : list[k] \in Ranking
  OBVIOUS
<1>2. \A k \in 1..n : Cost(list[k]) \in Nat /\ Reader!Tokens(list[k].row) = Cost(list[k])
  BY <1>1, CostIs
<1> HIDE DEF n
<1>3. G \in [1..n -> [Nat -> Nat]]
  BY <1>2
<1> HIDE DEF G
<1>4. PICK f \in [0..n -> Nat] : f[0] = 0 /\ \A k \in 1..n : f[k] = G[k][f[k - 1]]
  <2>1. 0 \in Nat
    OBVIOUS
  <2>2. \E f : IsSteps(f, Nat, 0, n, G)
    BY <1>1, <1>3, <2>1, StepByStep
  <2> QED
    BY <2>2 DEF IsSteps
<1> USE DEF G
<1>5. \A k \in 1..n : f[k] = f[k - 1] + Cost(list[k])
  <2> SUFFICES ASSUME NEW k \in 1..n PROVE f[k] = f[k - 1] + Cost(list[k])
    OBVIOUS
  <2>1. k - 1 \in 0..n /\ f[k - 1] \in Nat
    BY <1>1
  <2> QED
    BY <1>4, <2>1
<1> HIDE DEF G
<1>6. Eq(f)
  <2>1. \A k \in 0..n : f[k] = IF k = 0 THEN 0 ELSE f[k - 1] + Reader!Tokens(list[k].row)
    BY <1>1, <1>2, <1>4, <1>5
  <2>2. f = [k \in 0..n |-> f[k]]
    BY <1>4
  <2> QED
    BY <2>1, <2>2
<1> DEFINE g == CHOOSE e : Eq(e)
<1> HIDE DEF Eq
<1>7. Eq(g)
  BY <1>6, Zenon
<1> USE DEF Eq
<1>8. Reader!UsedBy(list) = g[n]
  BY DEF Reader!UsedBy, n
<1> HIDE DEF g
<1>9. g[0] = 0 /\ \A k \in 1..n : g[k] = g[k - 1] + Cost(list[k])
  BY <1>1, <1>2, <1>7
<1>10. \A k \in 0..n : g[k] \in Nat
  <2> DEFINE S == {k \in 0..n : g[k] \in Nat}
  <2>1. 0 \in S
    BY <1>1, <1>9
  <2>2. \A k \in 1..n : k - 1 \in S => k \in S
    BY <1>2, <1>9
  <2> HIDE DEF S
  <2>3. \A k \in 0..n : k \in S
    BY <1>1, <2>1, <2>2, UpTo
  <2> QED
    BY <2>3 DEF S
<1>11. g \in [0..n -> Nat]
  BY <1>7, <1>10
<1> QED
  BY <1>8, <1>9, <1>11 DEF AddsUp, n

\* There is one such sum.
LEMMA UsedUnique ==
  ASSUME NEW list \in Seq(Ranking), NEW used, AddsUp(used, list)
  PROVE  Reader!UsedBy(list) = used[Len(list)] /\ Reader!UsedBy(list) \in Nat
<1>1. PICK f \in [0..Len(list) -> Nat] : AddsUp(f, list) /\ Reader!UsedBy(list) = f[Len(list)]
  BY UsedIs
<1> DEFINE S == {k \in 0..Len(list) : used[k] = f[k]}
<1>2. 0 \in S
  BY <1>1 DEF AddsUp
<1>3. \A k \in 1..Len(list) : k - 1 \in S => k \in S
  BY <1>1 DEF AddsUp
<1>4. Len(list) \in Nat /\ Len(list) \in 0..Len(list)
  OBVIOUS
<1> HIDE DEF S
<1>5. Len(list) \in S
  BY <1>2, <1>3, <1>4, UpTo
<1> QED
  BY <1>1, <1>4, <1>5 DEF S

LEMMA UsedByNone == Reader!UsedBy(<<>>) = 0
<1>1. <<>> \in Seq(Ranking) /\ Len(<<>>) = 0
  OBVIOUS
<1>2. AddsUp([k \in 0..0 |-> 0], <<>>)
  BY DEF AddsUp
<1> QED
  BY <1>1, <1>2, UsedUnique

LEMMA UsedByMore ==
  ASSUME NEW list \in Seq(Ranking), NEW s \in Ranking
  PROVE  /\ Reader!UsedBy(Append(list, s)) = Reader!UsedBy(list) + Cost(s)
         /\ Reader!UsedBy(list) \in Nat
<1>1. PICK f \in [0..Len(list) -> Nat] : AddsUp(f, list) /\ Reader!UsedBy(list) = f[Len(list)]
  BY UsedIs
<1> DEFINE more == Append(list, s)
           g == [k \in 0..Len(more) |-> IF k = Len(more) THEN f[Len(list)] + Cost(s) ELSE f[k]]
<1>2. more \in Seq(Ranking) /\ Len(more) = Len(list) + 1 /\ Len(list) \in Nat
      /\ more[Len(more)] = s /\ \A k \in 1..Len(list) : more[k] = list[k]
  OBVIOUS
<1> HIDE DEF more
<1>3. \A k \in 0..Len(more) : k # Len(more) => k \in 0..Len(list) /\ g[k] = f[k]
  BY <1>2
<1>4. g[Len(more)] = f[Len(list)] + Cost(s) /\ Len(more) \in 0..Len(more)
  BY <1>2
<1> HIDE DEF g
<1>5. \A k \in 1..Len(more) : g[k] = g[k - 1] + Cost(more[k])
  <2> SUFFICES ASSUME NEW k \in 1..Len(more) PROVE g[k] = g[k - 1] + Cost(more[k])
    OBVIOUS
  <2>1. k - 1 \in 0..Len(more) /\ k - 1 # Len(more) /\ k \in 0..Len(more)
    BY <1>2
  <2>2. g[k - 1] = f[k - 1]
    BY <1>3, <2>1
  <2>3. CASE k = Len(more)
    BY <1>2, <1>4, <2>2, <2>3
  <2>4. CASE k # Len(more)
    <3>1. k \in 1..Len(list) /\ g[k] = f[k]
      BY <1>2, <1>3, <2>1, <2>4
    <3> QED
      BY <1>1, <1>2, <2>2, <3>1 DEF AddsUp
  <2> QED
    BY <2>3, <2>4
<1>6. AddsUp(g, more)
  <2>1. 0 # Len(more) /\ 0 \in 0..Len(more)
    BY <1>2
  <2> QED
    BY <1>1, <1>3, <1>5, <2>1 DEF AddsUp
<1>7. Reader!UsedBy(more) = g[Len(more)]
  BY <1>2, <1>6, UsedUnique
<1>8. Len(list) \in 0..Len(list)
  BY <1>2
<1> QED
  BY <1>1, <1>4, <1>7, <1>8 DEF more

\* The order does not matter to the sum: the last k nodes and the others make all.
LEMMA UsedByReverse ==
  ASSUME NEW list \in Seq(Ranking)
  PROVE  Reader!UsedBy(Reader!Reverse(list)) = Reader!UsedBy(list)
<1> DEFINE n == Len(list)
           back == Reader!Reverse(list)
<1>1. PICK f \in [0..n -> Nat] : AddsUp(f, list) /\ Reader!UsedBy(list) = f[n]
  BY UsedIs
<1>2. /\ n \in Nat /\ back \in Seq(Ranking) /\ Len(back) = n
      /\ \A k \in 1..n : back[k] = list[n - k + 1] /\ list[k] \in Ranking
  BY DEF Reader!Reverse
<1>3. PICK g \in [0..n -> Nat] : AddsUp(g, back) /\ Reader!UsedBy(back) = g[n]
  BY <1>2, UsedIs
<1> HIDE DEF n, back
<1> DEFINE S == {k \in 0..n : g[k] + f[n - k] = f[n]}
<1>4. 0 \in S
  <2>1. n - 0 = n /\ f[n] \in Nat /\ g[0] = 0
    BY <1>2, <1>3 DEF AddsUp
  <2> QED
    BY <1>2, <2>1
<1>5. ASSUME NEW k \in 1..n, k - 1 \in S PROVE k \in S
  <2>1. n - k + 1 \in 1..n /\ n - (k - 1) = n - k + 1 /\ (n - k + 1) - 1 = n - k
        /\ k - 1 \in 0..n /\ n - k \in 0..n /\ n - k + 1 \in 0..n
    BY <1>2
  <2>2. g[k] = g[k - 1] + Cost(list[n - k + 1])
    BY <1>2, <1>3 DEF AddsUp
  <2>3. f[n - k + 1] = f[n - k] + Cost(list[n - k + 1])
    BY <1>1, <2>1 DEF AddsUp, n
  <2>4. g[k - 1] + f[n - k + 1] = f[n]
    BY <1>5, <2>1
  <2>5. g[k - 1] \in Nat /\ f[n - k] \in Nat /\ f[n] \in Nat /\ Cost(list[n - k + 1]) \in Nat
    <3>1. list[n - k + 1] \in Ranking
      BY <1>2, <2>1
    <3>2. n \in 0..n
      BY <1>2
    <3> QED
      BY <2>1, <3>1, <3>2, CostIs
  <2>6. g[k] + f[n - k] = f[n]
    BY <2>2, <2>3, <2>4, <2>5
  <2> QED
    BY <2>6
<1> HIDE DEF S
<1>6. n \in S
  <2>1. n \in 0..n
    BY <1>2
  <2>2. \A k \in 1..n : k - 1 \in S => k \in S
    BY <1>5
  <2> QED
    BY <1>2, <1>4, <2>1, <2>2, UpTo
<1>7. g[n] + f[0] = f[n] /\ f[0] = 0 /\ g[n] \in Nat
  <2>1. n - n = 0 /\ n \in 0..n
    BY <1>2
  <2>2. g[n] + f[n - n] = f[n]
    BY <1>6 DEF S
  <2>3. f[0] = 0
    BY <1>1 DEF AddsUp
  <2> QED
    BY <1>3, <2>1, <2>2, <2>3
<1>8. g[n] = f[n]
  BY <1>7
<1> QED
  BY <1>1, <1>3, <1>8 DEF back

\* kept[k] is what is kept of the first k nodes of the list.
FillStep(x, s, budget) == IF Reader!UsedBy(x) + Cost(s) > budget THEN x ELSE Append(x, s)

Fills(kept, list, budget) ==
  kept[0] = <<>> /\ \A k \in 1..Len(list) : kept[k] = FillStep(kept[k - 1], list[k], budget)

LEMMA FillIs ==
  ASSUME NEW list \in Seq(Ranking), NEW budget \in Nat
  PROVE  \E kept \in [0..Len(list) -> Seq(Ranking)] :
            Fills(kept, list, budget) /\ Reader!FillBudget(list, budget) = kept[Len(list)]
<1> DEFINE n == Len(list)
           G == [k \in 1..n |-> [x \in Seq(Ranking) |-> FillStep(x, list[k], budget)]]
           Eq(f) == f = [k \in 0..n |-> IF k = 0 THEN <<>>
                           ELSE IF Reader!UsedBy(f[k - 1]) + Reader!Tokens(list[k].row) > budget THEN f[k - 1]
                           ELSE Append(f[k - 1], list[k])]
<1>1. n \in Nat /\ \A k \in 1..n : list[k] \in Ranking
  OBVIOUS
<1>2. \A k \in 1..n : Reader!Tokens(list[k].row) = Cost(list[k])
  BY <1>1, CostIs
<1> HIDE DEF n
<1> DEFINE Unfolded(x, k) == IF Reader!UsedBy(x) + Reader!Tokens(list[k].row) > budget THEN x
                             ELSE Append(x, list[k])
<1>11. \A k \in 1..n : \A x : FillStep(x, list[k], budget) = Unfolded(x, k)
  BY <1>2 DEF FillStep
<1>12. \A k \in 0..n : k # 0 => k \in 1..n /\ k - 1 \in 0..n
  BY <1>1
<1> HIDE DEF Unfolded
<1>3. G \in [1..n -> [Seq(Ranking) -> Seq(Ranking)]]
  <2>1. \A k \in 1..n : \A x \in Seq(Ranking) : FillStep(x, list[k], budget) \in Seq(Ranking)
    BY <1>1 DEF FillStep
  <2> QED
    BY <2>1
<1>4. PICK f \in [0..n -> Seq(Ranking)] : f[0] = <<>> /\ \A k \in 1..n : f[k] = FillStep(f[k - 1], list[k], budget)
  <2> HIDE DEF G
  <2>1. <<>> \in Seq(Ranking)
    OBVIOUS
  <2>2. PICK f : IsSteps(f, Seq(Ranking), <<>>, n, G)
    BY <1>1, <1>3, <2>1, StepByStep
  <2>3. f \in [0..n -> Seq(Ranking)] /\ f[0] = <<>> /\ \A k \in 1..n : f[k] = G[k][f[k - 1]]
    BY <2>2 DEF IsSteps
  <2>4. \A k \in 1..n : f[k] = FillStep(f[k - 1], list[k], budget)
    <3> SUFFICES ASSUME NEW k \in 1..n PROVE f[k] = FillStep(f[k - 1], list[k], budget)
      OBVIOUS
    <3>1. f[k - 1] \in Seq(Ranking)
      BY <1>1, <2>3
    <3>2. G[k] = [x \in Seq(Ranking) |-> FillStep(x, list[k], budget)]
      BY DEF G
    <3>3. G[k][f[k - 1]] = FillStep(f[k - 1], list[k], budget)
      BY <3>1, <3>2
    <3> QED
      BY <2>3, <3>3
  <2> QED
    BY <2>3, <2>4
<1> HIDE DEF G
<1>5. Eq(f)
  <2>1. \A k \in 0..n : f[k] = IF k = 0 THEN <<>> ELSE Unfolded(f[k - 1], k)
    BY <1>4, <1>11, <1>12
  <2>2. f = [k \in 0..n |-> f[k]]
    BY <1>4
  <2>3. f = [k \in 0..n |-> IF k = 0 THEN <<>> ELSE Unfolded(f[k - 1], k)]
    BY <2>1, <2>2
  <2> QED
    BY <2>3 DEF Unfolded
<1> DEFINE g == CHOOSE e : Eq(e)
<1> HIDE DEF Eq
<1>6. Eq(g)
  BY <1>5, Zenon
<1> USE DEF Eq
<1>7. Reader!FillBudget(list, budget) = g[n]
  BY DEF Reader!FillBudget, n
<1> HIDE DEF g
<1>8. g[0] = <<>> /\ \A k \in 1..n : g[k] = FillStep(g[k - 1], list[k], budget)
  <2>1. g = [k \in 0..n |-> IF k = 0 THEN <<>> ELSE Unfolded(g[k - 1], k)]
    BY <1>6 DEF Unfolded
  <2>2. 0 \in 0..n /\ \A k \in 1..n : k \in 0..n /\ k # 0
    BY <1>1
  <2>3. g[0] = <<>> /\ \A k \in 1..n : g[k] = Unfolded(g[k - 1], k)
    BY <2>1, <2>2
  <2> QED
    BY <1>11, <2>3
<1>9. \A k \in 0..n : g[k] \in Seq(Ranking)
  <2> DEFINE S == {k \in 0..n : g[k] \in Seq(Ranking)}
  <2>1. 0 \in S
    <3>1. <<>> \in Seq(Ranking) /\ 0 \in 0..n
      BY <1>1
    <3> QED
      BY <1>8, <3>1
  <2>2. ASSUME NEW k \in 1..n, k - 1 \in S PROVE k \in S
    <3>1. g[k - 1] \in Seq(Ranking) /\ k \in 0..n /\ list[k] \in Ranking
      BY <1>1, <2>2
    <3>2. FillStep(g[k - 1], list[k], budget) \in Seq(Ranking)
      BY <3>1 DEF FillStep
    <3> QED
      BY <1>8, <3>1, <3>2
  <2> HIDE DEF S
  <2>3. \A k \in 0..n : k \in S
    BY <1>1, <2>1, <2>2, UpTo
  <2> QED
    BY <2>3 DEF S
<1>10. g \in [0..n -> Seq(Ranking)]
  BY <1>6, <1>9
<1> QED
  BY <1>7, <1>8, <1>10 DEF Fills, n

\* No node twice.
NodesApart(list) == \A i, j \in 1..Len(list) : list[i].node = list[j].node => i = j

\* What is kept of the first k nodes of a list fits, and nothing that was passed over would.
KeptOf(s, list, k, budget) ==
  /\ s \in Seq(Ranking) /\ Reader!UsedBy(s) <= budget
  /\ \A i \in 1..Len(s) : \E j \in 1..k : s[i] = list[j]
  /\ NodesApart(s)
  /\ \A j \in 1..k : \/ \E i \in 1..Len(s) : s[i] = list[j]
                     \/ Reader!UsedBy(s) + Cost(list[j]) > budget

LEMMA KeptMore ==
  ASSUME NEW list \in Seq(Ranking), NodesApart(list), NEW budget \in Nat, NEW k \in 1..Len(list),
         NEW s, KeptOf(s, list, k - 1, budget)
  PROVE  KeptOf(FillStep(s, list[k], budget), list, k, budget)
<1>1. /\ Len(list) \in Nat /\ k \in Nat /\ list[k] \in Ranking
      /\ \A j \in 1..k : j \in 1..Len(list) /\ list[j] \in Ranking /\ (j = k \/ j \in 1..(k - 1))
      /\ \A j \in 1..(k - 1) : j \in 1..k /\ j # k
  <2>1. Len(list) \in Nat /\ k \in Nat
    OBVIOUS
  <2>2. \A j \in 1..Len(list) : list[j] \in Ranking
    OBVIOUS
  <2>3. \A j \in 1..k : j \in 1..Len(list) /\ (j = k \/ j \in 1..(k - 1))
    BY <2>1
  <2>4. \A j \in 1..(k - 1) : j \in 1..k /\ j # k
    BY <2>1
  <2> QED
    BY <2>1, <2>2, <2>3, <2>4
<1>2. s \in Seq(Ranking) /\ Len(s) \in Nat /\ Reader!UsedBy(s) \in Nat /\ Cost(list[k]) \in Nat
      /\ \A j \in 1..k : Cost(list[j]) \in Nat
  <2>1. s \in Seq(Ranking)
    BY DEF KeptOf
  <2>2. Len(s) \in Nat
    BY <2>1
  <2>3. Reader!UsedBy(s) \in Nat
    BY <1>1, <2>1, UsedByMore
  <2>4. \A j \in 1..k : Cost(list[j]) \in Nat
    BY <1>1, CostIs
  <2>5. k \in 1..k
    BY <1>1
  <2> QED
    BY <2>1, <2>2, <2>3, <2>4, <2>5
<1>3. CASE Reader!UsedBy(s) + Cost(list[k]) > budget
  <2>1. FillStep(s, list[k], budget) = s
    BY <1>3 DEF FillStep
  <2>2. \A i \in 1..Len(s) : \E j \in 1..k : s[i] = list[j]
    BY <1>1 DEF KeptOf
  <2>3. \A j \in 1..k : (\E i \in 1..Len(s) : s[i] = list[j]) \/ Reader!UsedBy(s) + Cost(list[j]) > budget
    BY <1>1, <1>3 DEF KeptOf
  <2> QED
    BY <2>1, <2>2, <2>3 DEF KeptOf
<1>4. CASE ~(Reader!UsedBy(s) + Cost(list[k]) > budget)
  <2> DEFINE m == Append(s, list[k])
  <2>1. FillStep(s, list[k], budget) = m
    BY <1>4 DEF FillStep
  <2>2. /\ m \in Seq(Ranking) /\ Len(m) = Len(s) + 1 /\ m[Len(s) + 1] = list[k]
        /\ \A i \in 1..Len(s) : m[i] = s[i] /\ i \in 1..Len(m)
        /\ \A i \in 1..Len(m) : i = Len(s) + 1 \/ i \in 1..Len(s)
        /\ Len(s) + 1 \in 1..Len(m)
    BY <1>1, <1>2
  <2>3. Reader!UsedBy(m) = Reader!UsedBy(s) + Cost(list[k])
    BY <1>1, <1>2, UsedByMore
  <2> HIDE DEF m
  <2>4. Reader!UsedBy(m) <= budget /\ Reader!UsedBy(m) \in Nat /\ Reader!UsedBy(s) <= Reader!UsedBy(m)
    BY <1>2, <1>4, <2>3
  <2>5. \A i \in 1..Len(m) : \E j \in 1..k : m[i] = list[j]
    <3> SUFFICES ASSUME NEW i \in 1..Len(m) PROVE \E j \in 1..k : m[i] = list[j]
      OBVIOUS
    <3>1. CASE i = Len(s) + 1
      <4>1. k \in 1..k
        BY <1>1
      <4> QED
        BY <2>2, <3>1, <4>1
    <3>2. CASE i \in 1..Len(s)
      BY <1>1, <2>2, <3>2 DEF KeptOf
    <3> QED
      BY <2>2, <3>1, <3>2
  <2>6. \A i \in 1..Len(s) : s[i].node # list[k].node
    <3> SUFFICES ASSUME NEW i \in 1..Len(s) PROVE s[i].node # list[k].node
      OBVIOUS
    <3>1. PICK j \in 1..(k - 1) : s[i] = list[j]
      BY DEF KeptOf
    <3>2. j \in 1..Len(list) /\ j # k
      BY <1>1
    <3> QED
      BY <3>1, <3>2 DEF NodesApart
  <2>7. NodesApart(m)
    <3> SUFFICES ASSUME NEW i \in 1..Len(m), NEW j \in 1..Len(m), m[i].node = m[j].node PROVE i = j
      BY DEF NodesApart
    <3>1. CASE i \in 1..Len(s) /\ j \in 1..Len(s)
      BY <2>2, <3>1 DEF KeptOf, NodesApart
    <3>2. CASE i \in 1..Len(s) /\ j = Len(s) + 1
      BY <2>2, <2>6, <3>2
    <3>3. CASE i = Len(s) + 1 /\ j \in 1..Len(s)
      BY <2>2, <2>6, <3>3
    <3> QED
      BY <2>2, <3>1, <3>2, <3>3
  <2>8. \A j \in 1..k : (\E i \in 1..Len(m) : m[i] = list[j]) \/ Reader!UsedBy(m) + Cost(list[j]) > budget
    <3> SUFFICES ASSUME NEW j \in 1..k
                 PROVE  (\E i \in 1..Len(m) : m[i] = list[j]) \/ Reader!UsedBy(m) + Cost(list[j]) > budget
      OBVIOUS
    <3>1. CASE j = k
      BY <2>2, <3>1
    <3>2. CASE \E i \in 1..Len(s) : s[i] = list[j]
      BY <2>2, <3>2
    <3>3. CASE Reader!UsedBy(s) + Cost(list[j]) > budget
      <4>1. Cost(list[j]) \in Nat
        BY <1>2
      <4> QED
        BY <1>2, <2>4, <3>3, <4>1
    <3> QED
      BY <1>1, <3>1, <3>2, <3>3 DEF KeptOf
  <2> QED
    BY <2>1, <2>2, <2>4, <2>5, <2>7, <2>8 DEF KeptOf
<1> QED
  BY <1>3, <1>4

LEMMA FillFits ==
  ASSUME NEW list \in Seq(Ranking), NodesApart(list), NEW budget \in Nat
  PROVE  KeptOf(Reader!FillBudget(list, budget), list, Len(list), budget)
<1>1. PICK kept \in [0..Len(list) -> Seq(Ranking)] :
         Fills(kept, list, budget) /\ Reader!FillBudget(list, budget) = kept[Len(list)]
  BY FillIs
<1> DEFINE S == {k \in 0..Len(list) : KeptOf(kept[k], list, k, budget)}
<1>2. 0 \in S
  <2>1. kept[0] = <<>> /\ <<>> \in Seq(Ranking) /\ Len(<<>>) = 0 /\ 1..0 = {}
    BY <1>1 DEF Fills
  <2>2. KeptOf(<<>>, list, 0, budget)
    BY <2>1, UsedByNone DEF KeptOf, NodesApart
  <2>3. 0 \in 0..Len(list)
    OBVIOUS
  <2> QED
    BY <2>1, <2>2, <2>3
<1>3. ASSUME NEW k \in 1..Len(list), k - 1 \in S PROVE k \in S
  <2>1. KeptOf(kept[k - 1], list, k - 1, budget) /\ k \in 0..Len(list)
    BY <1>3
  <2>2. kept[k] = FillStep(kept[k - 1], list[k], budget)
    BY <1>1 DEF Fills
  <2>3. KeptOf(FillStep(kept[k - 1], list[k], budget), list, k, budget)
    BY <2>1, KeptMore
  <2> QED
    BY <2>1, <2>2, <2>3
<1> HIDE DEF S
<1>4. Len(list) \in Nat /\ Len(list) \in 0..Len(list)
  OBVIOUS
<1>5. \A k \in 1..Len(list) : k - 1 \in S => k \in S
  BY <1>3
<1>6. Len(list) \in S
  BY <1>2, <1>4, <1>5, UpTo
<1> QED
  BY <1>1, <1>6 DEF S

-----------------------------------------------------------------------------
(* Answers.                                                                *)

\* Rows of stored nodes.
AreRows(rows) == DOMAIN rows \subseteq NodeId /\ \A n \in DOMAIN rows : rows[n] \in NodeRow

\* A list of the nodes of a table, each once: all of them, or as many as a budget has room for.
Chosen(s, rows, whole, budget) ==
  /\ s \in Seq(Ranking) /\ NodesApart(s)
  /\ \A i \in 1..Len(s) : s[i].node \in DOMAIN rows
  /\ ~whole => Reader!UsedBy(s) <= budget
  /\ \A n \in DOMAIN rows :
       \/ \E i \in 1..Len(s) : s[i].node = n
       \/ ~whole /\ Reader!UsedBy(s) + Reader!Tokens(rows[n]) > budget

LEMMA NodesFinite == ASSUME NEW S \in SUBSET NodeId PROVE IsFiniteSet(S)
<1>1. 1 \in Int /\ NodeCount \in Int
  BY NodeCountAssumption
<1>2. IsFiniteSet(1..NodeCount)
  BY <1>1, FS_Interval
<1> QED
  BY <1>2, FS_Subset DEF NodeId

LEMMA RankedIs ==
  ASSUME NEW rows, AreRows(rows), NEW list \in Reader!Ranked(rows)
  PROVE  /\ Chosen(list, rows, TRUE, 0)
         /\ \A i \in 1..Len(list) : list[i].row = rows[list[i].node]
<1> DEFINE Listed(order) == [i \in DOMAIN order |-> [node |-> order[i], row |-> rows[order[i]]]]
<1>1. PICK order \in Reader!SetToSeqs(DOMAIN rows) : list = Listed(order)
  <2>1. list \in {Listed(order) : order \in Reader!SetToSeqs(DOMAIN rows)}
    BY DEF Reader!Ranked
  <2> HIDE DEF Listed
  <2> QED
    BY <2>1
<1>2. IsFiniteSet(DOMAIN rows)
  BY NodesFinite DEF AreRows
<1>3. /\ order \in Seq(DOMAIN rows)
      /\ \A i, j \in 1..Len(order) : order[i] = order[j] => i = j
      /\ \A x \in DOMAIN rows : \E i \in 1..Len(order) : order[i] = x
  BY <1>2, OrderIs
<1>4. PICK n \in Nat : n = Len(order) /\ DOMAIN order = 1..n
  BY <1>3
<1>5. \A i \in 1..n : order[i] \in DOMAIN rows
  BY <1>3, <1>4
<1>6. list = [i \in 1..n |-> [node |-> order[i], row |-> rows[order[i]]]]
  BY <1>1, <1>4
<1>7. \A i \in 1..n : [node |-> order[i], row |-> rows[order[i]]] \in Ranking
  BY <1>5 DEF AreRows, Ranking
<1>8. list \in Seq(Ranking) /\ Len(list) = n
  BY <1>6, <1>7
<1>9. \A i \in 1..n : list[i].node = order[i] /\ list[i].row = rows[order[i]]
  BY <1>6
<1>10. NodesApart(list)
  BY <1>3, <1>4, <1>8, <1>9 DEF NodesApart
<1> QED
  BY <1>3, <1>4, <1>5, <1>8, <1>9, <1>10 DEF Chosen

LEMMA CutIs ==
  ASSUME NEW rows, AreRows(rows), NEW list \in Reader!Ranked(rows), NEW budget \in Nat
  PROVE  Chosen(Reader!FillBudget(list, budget), rows, FALSE, budget)
<1> DEFINE s == Reader!FillBudget(list, budget)
<1>1. Chosen(list, rows, TRUE, 0) /\ \A i \in 1..Len(list) : list[i].row = rows[list[i].node]
  BY RankedIs
<1>2. KeptOf(s, list, Len(list), budget)
  BY <1>1, FillFits DEF Chosen
<1> HIDE DEF s
<1>3. s \in Seq(Ranking) /\ Reader!UsedBy(s) <= budget /\ NodesApart(s)
  BY <1>2 DEF KeptOf
<1>4. \A i \in 1..Len(s) : s[i].node \in DOMAIN rows
  BY <1>1, <1>2 DEF KeptOf, Chosen
<1>5. ASSUME NEW n \in DOMAIN rows
      PROVE  (\E i \in 1..Len(s) : s[i].node = n) \/ Reader!UsedBy(s) + Reader!Tokens(rows[n]) > budget
  <2>1. PICK j \in 1..Len(list) : list[j].node = n /\ list[j].row = rows[n]
    BY <1>1 DEF Chosen
  <2>2. list[j] \in Ranking
    BY <1>1 DEF Chosen
  <2>3. Cost(list[j]) = Reader!Tokens(rows[n])
    BY <2>1, <2>2, CostIs
  <2> QED
    BY <1>2, <2>1, <2>3 DEF KeptOf
<1> QED
  BY <1>3, <1>4, <1>5 DEF Chosen, s

LEMMA ReverseChosen ==
  ASSUME NEW s, NEW rows, NEW whole, NEW budget, Chosen(s, rows, whole, budget)
  PROVE  Chosen(Reader!Reverse(s), rows, whole, budget)
<1> DEFINE back == Reader!Reverse(s)
           n == Len(s)
<1>1. s \in Seq(Ranking)
  BY DEF Chosen
<1>2. n \in Nat /\ back \in Seq(Ranking) /\ Len(back) = n /\ \A i \in 1..n : back[i] = s[n - i + 1]
  BY <1>1 DEF Reader!Reverse
<1>3. Reader!UsedBy(back) = Reader!UsedBy(s)
  BY <1>1, UsedByReverse
<1> HIDE DEF back
<1>4. /\ NodesApart(s)
      /\ \A i \in 1..n : s[i].node \in DOMAIN rows
      /\ ~whole => Reader!UsedBy(s) <= budget
      /\ \A x \in DOMAIN rows : \/ \E i \in 1..n : s[i].node = x
                                \/ ~whole /\ Reader!UsedBy(s) + Reader!Tokens(rows[x]) > budget
  BY DEF Chosen
<1> HIDE DEF n
<1>5. \A i \in 1..n : n - i + 1 \in 1..n /\ n - (n - i + 1) + 1 = i
  BY <1>2
<1>6. NodesApart(back)
  <2> SUFFICES ASSUME NEW i \in 1..n, NEW j \in 1..n, back[i].node = back[j].node PROVE i = j
    BY <1>2 DEF NodesApart
  <2>1. n - i + 1 = n - j + 1
    BY <1>2, <1>4, <1>5 DEF NodesApart, n
  <2> QED
    BY <1>2, <2>1
<1>7. \A i \in 1..n : back[i].node \in DOMAIN rows
  BY <1>2, <1>4, <1>5
<1>8. ASSUME NEW x, NEW i \in 1..n, s[i].node = x PROVE \E j \in 1..n : back[j].node = x
  <2>1. n - i + 1 \in 1..n /\ back[n - i + 1] = s[n - (n - i + 1) + 1]
    BY <1>2, <1>5
  <2> QED
    BY <1>5, <1>8, <2>1
<1> QED
  BY <1>2, <1>3, <1>4, <1>6, <1>7, <1>8 DEF Chosen, back

\* As many nodes as the list is long.
LEMMA ReturnedCount ==
  ASSUME NEW s \in Seq(Ranking), NodesApart(s)
  PROVE  Cardinality({e.node : e \in Reader!ToSet(s)}) = Len(s)
<1> DEFINE n == Len(s)
           T == {e.node : e \in Reader!ToSet(s)}
           f == [i \in 1..n |-> s[i].node]
<1>1. n \in Nat /\ DOMAIN s = 1..n
  OBVIOUS
<1>2. \A x : x \in T <=> \E i \in 1..n : s[i].node = x
  BY <1>1 DEF Reader!ToSet
<1>3. \A i, j \in 1..n : s[i].node = s[j].node => i = j
  BY DEF NodesApart
<1> HIDE DEF n, T
<1>4. f \in Injection(1..n, T)
  BY <1>2, <1>3 DEF Injection, IsInjective
<1>5. f \in Surjection(1..n, T)
  BY <1>2, <1>4 DEF Surjection, Injection
<1>6. ExistsBijection(1..n, T)
  BY <1>4, <1>5 DEF ExistsBijection, Bijection
<1>7. Cardinality(T) = n
  BY <1>1, <1>6, FS_CountingElements
<1> QED
  BY <1>7 DEF n, T

\* FetchFits of one answer.
Names(list) == {e.node : e \in Reader!ToSet(list)}

FitsIn(kind, asked, found, list) ==
  LET used    == Reader!UsedBy(list)
      anchor  == IF kind = "fetch" THEN Reader!Tokens(asked.row) ELSE 0
      limit   == IF anchor > asked.budget THEN anchor ELSE asked.budget
      leftOut == DOMAIN found \ Names(list)
  IN  /\ Cardinality(Names(list)) = Len(list)
      /\ Names(list) \subseteq DOMAIN found \cup (IF kind = "fetch" THEN {asked.anchor} ELSE {})
      /\ kind = "fetch" => list[Len(list)].node = asked.anchor
      /\ IF asked.budget = 0 THEN leftOut = {}
         ELSE used <= limit /\ \A n \in leftOut : used + Reader!Tokens(found[n]) > limit

LEMMA FitsIs ==
  /\ Reader!FetchFits <=> (read.step = "answered" => FitsIn(read.kind, read.asked, read.found, read.list))
  /\ Reader!FetchFits' <=> (read'.step = "answered" => FitsIn(read'.kind, read'.asked, read'.found, read'.list))
<1>1. Reader!FetchFits <=> (read.step = "answered" => FitsIn(read.kind, read.asked, read.found, read.list))
  <2>1. Reader!Cardinality(Reader!Returned) = Cardinality(Reader!Returned)
    BY SameCount
  <2> QED
    BY <2>1 DEF Reader!FetchFits, Reader!Returned, Reader!LeftOut, Reader!Last, FitsIn, Names
<1>2. Reader!FetchFits' <=> (read'.step = "answered" => FitsIn(read'.kind, read'.asked, read'.found, read'.list))
  <2>1. Reader!Cardinality(Reader!Returned') = Cardinality(Reader!Returned')
    BY SameCount
  <2> QED
    BY <2>1 DEF Reader!FetchFits, Reader!Returned, Reader!LeftOut, Reader!Last, FitsIn, Names
<1> QED
  BY <1>1, <1>2

LEMMA NamesAre ==
  ASSUME NEW list \in Seq(Ranking)
  PROVE  \A n : n \in Names(list) <=> \E i \in 1..Len(list) : list[i].node = n
<1>1. DOMAIN list = 1..Len(list)
  OBVIOUS
<1> QED
  BY <1>1 DEF Names, Reader!ToSet

\* A batch and a search.
LEMMA ListFits ==
  ASSUME NEW kind, kind # "fetch", NEW asked, asked.budget \in Nat, NEW rows, AreRows(rows), NEW list,
         Chosen(list, rows, asked.budget = 0, asked.budget)
  PROVE  FitsIn(kind, asked, rows, list)
<1>1. list \in Seq(Ranking) /\ NodesApart(list)
  BY DEF Chosen
<1>2. Cardinality(Names(list)) = Len(list)
  BY <1>1, ReturnedCount DEF Names
<1>3. \A n : n \in Names(list) <=> \E i \in 1..Len(list) : list[i].node = n
  BY <1>1, NamesAre
<1>4. Names(list) \subseteq DOMAIN rows
  BY <1>3 DEF Chosen
<1>5. CASE asked.budget = 0
  <2>1. DOMAIN rows \ Names(list) = {}
    BY <1>3, <1>5 DEF Chosen
  <2> QED
    BY <1>2, <1>4, <1>5, <2>1 DEF FitsIn
<1>6. CASE asked.budget # 0
  <2>1. Reader!UsedBy(list) <= asked.budget
    BY <1>6 DEF Chosen
  <2>2. \A n \in DOMAIN rows \ Names(list) : Reader!UsedBy(list) + Reader!Tokens(rows[n]) > asked.budget
    BY <1>3, <1>6 DEF Chosen
  <2>3. ~(0 > asked.budget)
    OBVIOUS
  <2> QED
    BY <1>2, <1>4, <1>6, <2>1, <2>2, <2>3 DEF FitsIn
<1> QED
  BY <1>5, <1>6

\* A fetch, whose anchor comes last and leaves the others what is left of the budget.
Room(budget, row) ==
  IF Reader!Tokens(row) > budget THEN 0 ELSE budget - Reader!Tokens(row)

LEMMA ContextFits ==
  ASSUME NEW asked, asked.anchor \in NodeId, asked.row \in NodeRow, asked.budget \in Nat,
         NEW rows, AreRows(rows), asked.anchor \notin DOMAIN rows, NEW s,
         Chosen(s, rows, asked.budget = 0, Room(asked.budget, asked.row))
  PROVE  FitsIn("fetch", asked, rows, Append(s, [node |-> asked.anchor, row |-> asked.row]))
<1> DEFINE last == [node |-> asked.anchor, row |-> asked.row]
           list == Append(s, last)
           anchor == Reader!Tokens(asked.row)
           limit == IF anchor > asked.budget THEN anchor ELSE asked.budget
<1>1. s \in Seq(Ranking) /\ NodesApart(s) /\ Len(s) \in Nat /\ \A i \in 1..Len(s) : s[i].node \in DOMAIN rows
  BY DEF Chosen
<1>2. last \in Ranking /\ last.node = asked.anchor /\ last.row = asked.row
  BY DEF Ranking
<1>3. Cost(last) = anchor /\ anchor \in Nat
  BY <1>2, CostIs
<1> HIDE DEF last
<1>4. /\ list \in Seq(Ranking) /\ Len(list) = Len(s) + 1 /\ list[Len(list)] = last
      /\ \A i \in 1..Len(s) : list[i] = s[i] /\ i \in 1..Len(list)
      /\ \A i \in 1..Len(list) : i = Len(list) \/ i \in 1..Len(s)
      /\ Len(list) \in 1..Len(list)
  BY <1>1, <1>2
<1>5. Reader!UsedBy(list) = Reader!UsedBy(s) + anchor /\ Reader!UsedBy(s) \in Nat
  BY <1>1, <1>2, <1>3, UsedByMore
<1> HIDE DEF list, anchor
<1>6. \A i \in 1..Len(s) : s[i].node # asked.anchor
  BY <1>1
<1>7. NodesApart(list)
  <2> SUFFICES ASSUME NEW i \in 1..Len(list), NEW j \in 1..Len(list), list[i].node = list[j].node PROVE i = j
    BY DEF NodesApart
  <2>1. CASE i \in 1..Len(s) /\ j \in 1..Len(s)
    BY <1>1, <1>4, <2>1 DEF NodesApart
  <2>2. CASE i \in 1..Len(s) /\ j = Len(list)
    BY <1>2, <1>4, <1>6, <2>2
  <2>3. CASE i = Len(list) /\ j \in 1..Len(s)
    BY <1>2, <1>4, <1>6, <2>3
  <2> QED
    BY <1>4, <2>1, <2>2, <2>3
<1>8. Cardinality(Names(list)) = Len(list)
  BY <1>4, <1>7, ReturnedCount DEF Names
<1>9. \A n : n \in Names(list) <=> n = asked.anchor \/ \E i \in 1..Len(s) : s[i].node = n
  <2>1. \A n : n \in Names(list) <=> \E i \in 1..Len(list) : list[i].node = n
    BY <1>4, NamesAre
  <2> QED
    BY <1>2, <1>4, <2>1
<1>10. Names(list) \subseteq DOMAIN rows \cup {asked.anchor} /\ list[Len(list)].node = asked.anchor
  BY <1>1, <1>2, <1>4, <1>9
<1>11. CASE asked.budget = 0
  <2>1. DOMAIN rows \ Names(list) = {}
    BY <1>9, <1>11 DEF Chosen
  <2> QED
    BY <1>8, <1>10, <1>11, <2>1 DEF FitsIn, list, last
<1>12. CASE asked.budget # 0
  <2>1. Room(asked.budget, asked.row) + anchor = limit /\ Room(asked.budget, asked.row) \in Nat
    BY <1>3 DEF Room, anchor
  <2>2. Reader!UsedBy(list) <= limit
    BY <1>3, <1>5, <1>12, <2>1 DEF Chosen
  <2>3. ASSUME NEW n \in DOMAIN rows \ Names(list)
        PROVE  Reader!UsedBy(list) + Reader!Tokens(rows[n]) > limit
    <3>1. Reader!UsedBy(s) + Reader!Tokens(rows[n]) > Room(asked.budget, asked.row)
      BY <1>9, <1>12 DEF Chosen
    <3>2. Reader!Tokens(rows[n]) \in Nat
      BY ReaderAssumption DEF AreRows, NodeRow, Reader!Tokens
    <3> QED
      BY <1>3, <1>5, <2>1, <3>1, <3>2
  <2> QED
    BY <1>8, <1>10, <1>12, <2>2, <2>3 DEF FitsIn, list, last, anchor
<1> QED
  BY <1>11, <1>12

-----------------------------------------------------------------------------
(* Trees: what is above and below a node.                                  *)

\* The parents of nodes at home lead up.
IsRank(rank) ==
  /\ rank \in [NodeId -> NodeId]
  /\ \A n \in NodeId : HomeParent[n] # NoNode => rank[HomeParent[n]] < rank[n]

LEMMA RankExists == \E rank : IsRank(rank)
BY HomeTreeAssumption DEF IsRank

LEMMA ParentIs ==
  ASSUME NEW g, AtHome(g), NEW m \in DOMAIN g
  PROVE  /\ m \in NodeId /\ g[m].parent \in DOMAIN g \cup {NoNode} /\ g[m].parent = HomeParent[m]
         /\ NoNode \notin DOMAIN g
         /\ \A rank : IsRank(rank) => /\ rank[m] \in 1..NodeCount
                                      /\ g[m].parent \in DOMAIN g => rank[g[m].parent] < rank[m]
<1>1. m \in NodeId /\ g[m].parent = HomeParent[m] /\ HomeParent[m] \in DOMAIN g \cup {NoNode}
  BY DEF AtHome
<1>2. NoNode \notin DOMAIN g
  BY DEF AtHome, NodeId, NoNode
<1> QED
  BY <1>1, <1>2 DEF IsRank, NodeId

\* A set that a node is in whenever its parent is has every node.
LEMMA ByRank ==
  ASSUME NEW g, AtHome(g), NEW S,
         \A m \in DOMAIN g : (g[m].parent \in DOMAIN g => g[m].parent \in S) => m \in S
  PROVE  DOMAIN g \subseteq S
<1>1. PICK rank : IsRank(rank)
  BY RankExists
<1> DEFINE T == {k \in 0..NodeCount : \A m \in DOMAIN g : rank[m] <= k => m \in S}
<1>2. NodeCount \in Nat
  BY NodeCountAssumption
<1>3. \A m \in DOMAIN g : rank[m] \in 1..NodeCount /\ (g[m].parent \in DOMAIN g => rank[g[m].parent] < rank[m])
  BY <1>1, ParentIs
<1>4. 0 \in T
  BY <1>2, <1>3
<1>5. ASSUME NEW k \in 1..NodeCount, k - 1 \in T PROVE k \in T
  <2>1. ASSUME NEW m \in DOMAIN g, rank[m] <= k PROVE m \in S
    <3>1. ASSUME g[m].parent \in DOMAIN g PROVE g[m].parent \in S
      <4>1. PICK p : p = g[m].parent
        OBVIOUS
      <4>2. rank[p] \in 1..NodeCount /\ rank[p] < rank[m] /\ rank[m] \in 1..NodeCount
        BY <1>3, <3>1, <4>1
      <4>3. rank[p] <= k - 1
        BY <1>2, <2>1, <4>2
      <4> QED
        BY <1>5, <3>1, <4>1, <4>3
    <3> QED
      BY <3>1
  <2>2. k \in 0..NodeCount
    BY <1>2
  <2> QED
    BY <2>1, <2>2
<1> HIDE DEF T
<1>6. \A k \in 1..NodeCount : k - 1 \in T => k \in T
  BY <1>5
<1>7. NodeCount \in T
  <2>1. NodeCount \in 0..NodeCount
    BY <1>2
  <2> QED
    BY <1>2, <1>4, <1>6, <2>1, UpTo
<1> QED
  BY <1>2, <1>3, <1>7 DEF T

\* The nodes k steps up.
Up(g, S) == S \cup ({g[m].parent : m \in S} \cap DOMAIN g)

IsUp(f, g, n) ==
  /\ f \in [0..NodeCount -> SUBSET DOMAIN g]
  /\ f[0] = {n} \cap DOMAIN g
  /\ \A k \in 1..NodeCount : f[k] = Up(g, f[k - 1])

LEMMA UpIs ==
  ASSUME NEW g, NEW n
  PROVE  \E f : IsUp(f, g, n) /\ Reader!Ancestors(g, n) = f[NodeCount]
<1> DEFINE c == NodeCount
           V == SUBSET DOMAIN g
           v0 == {n} \cap DOMAIN g
           G == [k \in 1..c |-> [S \in V |-> Up(g, S)]]
           Eq(f) == f = [k \in 0..c |-> IF k = 0 THEN {n} \cap DOMAIN g
                           ELSE LET below == f[k - 1]
                                IN  below \cup ({g[m].parent : m \in below} \cap DOMAIN g)]
<1>1. c \in Nat
  BY NodeCountAssumption
<1>2. v0 \in V /\ \A S \in V : Up(g, S) \in V
  BY DEF Up
<1>3. G \in [1..c -> [V -> V]]
  BY <1>2
<1> HIDE DEF c, V, v0, G
<1>4. PICK f : IsSteps(f, V, v0, c, G)
  BY <1>1, <1>2, <1>3, StepByStep
<1>5. f \in [0..c -> V] /\ f[0] = v0
  BY <1>4 DEF IsSteps
<1>6. \A k \in 1..c : f[k] = Up(g, f[k - 1])
  <2> SUFFICES ASSUME NEW k \in 1..c PROVE f[k] = Up(g, f[k - 1])
    OBVIOUS
  <2>1. f[k - 1] \in V
    BY <1>1, <1>5
  <2>2. f[k] = G[k][f[k - 1]]
    BY <1>4 DEF IsSteps
  <2>3. G[k] = [S \in V |-> Up(g, S)]
    BY DEF G
  <2> QED
    BY <2>1, <2>2, <2>3
<1>7. Eq(f)
  <2>1. \A k \in 0..c : f[k] = IF k = 0 THEN v0 ELSE Up(g, f[k - 1])
    BY <1>1, <1>5, <1>6
  <2>2. f = [k \in 0..c |-> f[k]]
    BY <1>5
  <2>3. f = [k \in 0..c |-> IF k = 0 THEN v0 ELSE Up(g, f[k - 1])]
    BY <2>1, <2>2
  <2> QED
    BY <2>3 DEF Up, v0
<1> DEFINE u == CHOOSE e : Eq(e)
<1> HIDE DEF Eq
<1>8. Eq(u)
  BY <1>7, Zenon
<1>9. Reader!Ancestors(g, n) = u[c]
  BY DEF Reader!Ancestors, Eq, c
<1> HIDE DEF u
<1>10. u = [k \in 0..c |-> IF k = 0 THEN v0 ELSE Up(g, u[k - 1])]
  BY <1>8 DEF Eq, Up, v0
<1>11. u[0] = v0 /\ \A k \in 1..c : u[k] = Up(g, u[k - 1])
  <2>1. 0 \in 0..c /\ \A k \in 1..c : k \in 0..c /\ k # 0
    BY <1>1
  <2> QED
    BY <1>10, <2>1
<1>12. \A k \in 0..c : u[k] \in V
  <2> DEFINE S == {k \in 0..c : u[k] \in V}
  <2>1. 0 \in S
    BY <1>1, <1>2, <1>11
  <2>2. \A k \in 1..c : k - 1 \in S => k \in S
    BY <1>1, <1>2, <1>11
  <2> HIDE DEF S
  <2>3. \A k \in 0..c : k \in S
    BY <1>1, <2>1, <2>2, UpTo
  <2> QED
    BY <2>3 DEF S
<1>13. u \in [0..c -> V]
  BY <1>10, <1>12
<1> QED
  BY <1>9, <1>11, <1>13 DEF IsUp, c, V, v0

LEMMA UpHas ==
  ASSUME NEW g, NEW n \in DOMAIN g, NEW f, IsUp(f, g, n)
  PROVE  \A k \in 0..NodeCount : n \in f[k]
<1> DEFINE S == {k \in 0..NodeCount : n \in f[k]}
<1>1. 0 \in S
  BY NodeCountAssumption DEF IsUp
<1>2. \A k \in 1..NodeCount : k - 1 \in S => k \in S
  BY NodeCountAssumption DEF IsUp, Up
<1> HIDE DEF S
<1>3. \A k \in 0..NodeCount : k \in S
  BY <1>1, <1>2, NodeCountAssumption, UpTo
<1> QED
  BY <1>3 DEF S

LEMMA UpFromParent ==
  ASSUME NEW g, NEW m \in DOMAIN g, NEW p \in DOMAIN g, p = g[m].parent,
         NEW f, IsUp(f, g, m), NEW h, IsUp(h, g, p)
  PROVE  \A k \in 1..NodeCount : f[k] = {m} \cup h[k - 1]
<1> DEFINE S == {k \in 0..NodeCount : k > 0 => f[k] = {m} \cup h[k - 1]}
<1>1. 0 \in S
  BY NodeCountAssumption
<1>2. ASSUME NEW k \in 1..NodeCount, k - 1 \in S PROVE k \in S
  <2>1. k \in 0..NodeCount /\ k - 1 \in 0..NodeCount
    BY NodeCountAssumption
  <2>2. f[k] = Up(g, f[k - 1])
    BY DEF IsUp
  <2>3. CASE k = 1
    <3>1. f[0] = {m} /\ h[0] = {p}
      BY DEF IsUp
    <3>2. Up(g, {m}) = {m} \cup {p}
      BY DEF Up
    <3>3. f[k] = {m} \cup h[k - 1]
      BY <2>2, <2>3, <3>1, <3>2
    <3> QED
      BY <2>1, <3>3
  <2>4. CASE k # 1
    <3>1. k - 1 > 0 /\ k - 1 \in 1..NodeCount /\ (k - 1) - 1 \in 0..NodeCount
      BY <2>1, <2>4, NodeCountAssumption
    <3>2. f[k - 1] = {m} \cup h[(k - 1) - 1]
      BY <1>2, <3>1
    <3>3. h[k - 1] = Up(g, h[(k - 1) - 1]) /\ p \in h[(k - 1) - 1]
      <4>1. \A j \in 0..NodeCount : p \in h[j]
        BY UpHas
      <4>2. \A j \in 1..NodeCount : h[j] = Up(g, h[j - 1])
        BY DEF IsUp
      <4> QED
        BY <3>1, <4>1, <4>2
    <3>4. PICK B : B = h[(k - 1) - 1]
      OBVIOUS
    <3>5. Up(g, {m} \cup B) = {m} \cup Up(g, B)
      BY <3>3, <3>4 DEF Up
    <3>6. f[k] = {m} \cup h[k - 1]
      BY <2>2, <3>2, <3>3, <3>4, <3>5
    <3> QED
      BY <2>1, <3>6
  <2> QED
    BY <2>3, <2>4
<1> HIDE DEF S
<1>3. \A k \in 1..NodeCount : k - 1 \in S => k \in S
  BY <1>2
<1>4. \A k \in 0..NodeCount : k \in S
  BY <1>1, <1>3, NodeCountAssumption, UpTo
<1>5. \A k \in 1..NodeCount : k \in 0..NodeCount /\ k > 0
  BY NodeCountAssumption
<1> QED
  BY <1>4, <1>5 DEF S

\* Nothing is above a node without a parent, or above one that is not stored.
LEMMA UpAlone ==
  ASSUME NEW g, NoNode \notin DOMAIN g, NEW m, m \in DOMAIN g => g[m].parent = NoNode, NEW f, IsUp(f, g, m)
  PROVE  \A k \in 0..NodeCount : f[k] = {m} \cap DOMAIN g
<1> DEFINE S == {k \in 0..NodeCount : f[k] = {m} \cap DOMAIN g}
<1>1. 0 \in S
  BY NodeCountAssumption DEF IsUp
<1>2. ASSUME NEW k \in 1..NodeCount, k - 1 \in S PROVE k \in S
  <2>0. f[k] = Up(g, f[k - 1]) /\ f[k - 1] = {m} \cap DOMAIN g /\ k \in 0..NodeCount
    BY <1>2, NodeCountAssumption DEF IsUp
  <2>1. f[k] = Up(g, {m} \cap DOMAIN g) /\ k \in 0..NodeCount
    BY <2>0
  <2>2. Up(g, {m} \cap DOMAIN g) = {m} \cap DOMAIN g
    BY DEF Up
  <2> QED
    BY <2>1, <2>2
<1> HIDE DEF S
<1>3. \A k \in 1..NodeCount : k - 1 \in S => k \in S
  BY <1>2
<1>4. \A k \in 0..NodeCount : k \in S
  BY <1>1, <1>3, NodeCountAssumption, UpTo
<1> QED
  BY <1>4 DEF S

\* A node's parents end, after as many steps as its rank at most.
LEMMA UpStops ==
  ASSUME NEW g, AtHome(g), NEW rank, IsRank(rank), NodeCount > 0
  PROVE  \A k \in 0..(NodeCount - 1) : \A p \in DOMAIN g : \A f :
            IsUp(f, g, p) /\ rank[p] <= k + 1 => f[k + 1] = f[k]
<1> DEFINE Still(k) == \A p \in DOMAIN g : \A f : IsUp(f, g, p) /\ rank[p] <= k + 1 => f[k + 1] = f[k]
           S == {k \in 0..(NodeCount - 1) : Still(k)}
<1>0. NodeCount \in Nat /\ NodeCount - 1 \in Nat
  BY NodeCountAssumption
<1>1. ASSUME NEW k \in 0..(NodeCount - 1), NEW p \in DOMAIN g, NEW f, IsUp(f, g, p), g[p].parent = NoNode
      PROVE  f[k + 1] = f[k]
  <2>1. k \in 0..NodeCount /\ k + 1 \in 0..NodeCount
    BY <1>0
  <2>2. NoNode \notin DOMAIN g
    BY <1>1, ParentIs
  <2>3. \A j \in 0..NodeCount : f[j] = {p} \cap DOMAIN g
    BY <1>1, <2>2, UpAlone
  <2> QED
    BY <2>1, <2>3
<1>2. 0 \in S
  <2> SUFFICES ASSUME NEW p \in DOMAIN g, NEW f, IsUp(f, g, p), rank[p] <= 0 + 1 PROVE f[0 + 1] = f[0]
    BY <1>0
  <2>1. g[p].parent = NoNode
    <3> SUFFICES ASSUME g[p].parent \in DOMAIN g PROVE FALSE
      BY ParentIs
    <3>1. PICK q \in DOMAIN g : q = g[p].parent
      OBVIOUS
    <3>2. rank[q] \in 1..NodeCount /\ rank[q] < rank[p] /\ rank[p] \in 1..NodeCount
      BY <3>1, ParentIs
    <3> QED
      BY <1>0, <3>2
  <2>2. 0 \in 0..(NodeCount - 1)
    BY <1>0
  <2> QED
    BY <1>1, <2>1, <2>2
<1>3. ASSUME NEW k \in 1..(NodeCount - 1), k - 1 \in S PROVE k \in S
  <2>1. k \in 0..(NodeCount - 1) /\ k \in 1..NodeCount /\ k + 1 \in 1..NodeCount /\ (k + 1) - 1 = k
        /\ (k - 1) + 1 = k /\ k - 1 \in 0..NodeCount
    BY <1>0
  <2>2. ASSUME NEW p \in DOMAIN g, NEW f, IsUp(f, g, p), rank[p] <= k + 1 PROVE f[k + 1] = f[k]
    <3>1. CASE g[p].parent = NoNode
      BY <1>1, <2>1, <2>2, <3>1
    <3>2. CASE g[p].parent # NoNode
      <4>1. PICK q \in DOMAIN g : q = g[p].parent
        BY <3>2, ParentIs
      <4>2. PICK h : IsUp(h, g, q)
        BY UpIs
      <4>3. rank[q] \in 1..NodeCount /\ rank[q] < rank[p] /\ rank[p] \in 1..NodeCount
        BY <4>1, ParentIs
      <4>4. rank[q] <= (k - 1) + 1
        BY <1>0, <2>1, <2>2, <4>3
      <4>5. h[k] = h[k - 1]
        BY <1>3, <2>1, <4>2, <4>4
      <4>6. \A j \in 1..NodeCount : f[j] = {p} \cup h[j - 1]
        BY <2>2, <4>1, <4>2, UpFromParent
      <4>7. f[k + 1] = {p} \cup h[(k + 1) - 1] /\ f[k] = {p} \cup h[k - 1]
        BY <2>1, <4>6
      <4> QED
        BY <2>1, <4>5, <4>7
    <3> QED
      BY <3>1, <3>2
  <2> QED
    BY <2>1, <2>2
<1> HIDE DEF S
<1>4. \A k \in 1..(NodeCount - 1) : k - 1 \in S => k \in S
  BY <1>3
<1>5. \A k \in 0..(NodeCount - 1) : k \in S
  BY <1>0, <1>2, <1>4, UpTo
<1> QED
  BY <1>5 DEF S

\* GetAncestors returns a node, and its parent's ancestors.
LEMMA AncestorsAre ==
  ASSUME NEW g, AtHome(g), NEW m
  PROVE  /\ m \notin DOMAIN g => Reader!Ancestors(g, m) = {}
         /\ m \in DOMAIN g /\ g[m].parent \notin DOMAIN g => Reader!Ancestors(g, m) = {m}
         /\ m \in DOMAIN g /\ g[m].parent \in DOMAIN g =>
              Reader!Ancestors(g, m) = {m} \cup Reader!Ancestors(g, g[m].parent)
         /\ Reader!Ancestors(g, m) \subseteq DOMAIN g
<1>1. PICK f : IsUp(f, g, m) /\ Reader!Ancestors(g, m) = f[NodeCount]
  BY UpIs
<1>2. NodeCount \in Nat /\ NodeCount \in 0..NodeCount
  BY NodeCountAssumption
<1>3. NoNode \notin DOMAIN g
  BY DEF AtHome, NodeId, NoNode
<1>4. m \notin DOMAIN g => Reader!Ancestors(g, m) = {}
  BY <1>1, <1>2, <1>3, UpAlone
<1>5. m \in DOMAIN g /\ g[m].parent \notin DOMAIN g => Reader!Ancestors(g, m) = {m}
  BY <1>1, <1>2, <1>3, UpAlone, ParentIs
<1>6. ASSUME m \in DOMAIN g, g[m].parent \in DOMAIN g
      PROVE  Reader!Ancestors(g, m) = {m} \cup Reader!Ancestors(g, g[m].parent)
  <2>1. PICK p \in DOMAIN g : p = g[m].parent
    BY <1>6
  <2>2. PICK h : IsUp(h, g, p) /\ Reader!Ancestors(g, p) = h[NodeCount]
    BY UpIs
  <2>3. PICK rank : IsRank(rank)
    BY RankExists
  <2>4. rank[p] < rank[m] /\ rank[p] \in 1..NodeCount /\ rank[m] \in 1..NodeCount
    BY <1>6, <2>1, <2>3, ParentIs
  <2>5. NodeCount > 0 /\ NodeCount - 1 \in 0..(NodeCount - 1) /\ (NodeCount - 1) + 1 = NodeCount
        /\ NodeCount \in 1..NodeCount /\ rank[p] <= (NodeCount - 1) + 1
    BY <1>2, <2>4
  <2>6. h[(NodeCount - 1) + 1] = h[NodeCount - 1]
    BY <2>2, <2>3, <2>5, UpStops
  <2>7. \A k \in 1..NodeCount : f[k] = {m} \cup h[k - 1]
    BY <1>1, <1>6, <2>1, <2>2, UpFromParent
  <2>8. f[NodeCount] = {m} \cup h[NodeCount - 1]
    BY <2>5, <2>7
  <2> QED
    BY <1>1, <2>1, <2>2, <2>5, <2>6, <2>8
<1>7. Reader!Ancestors(g, m) \subseteq DOMAIN g
  BY <1>1, <1>2 DEF IsUp
<1> QED
  BY <1>4, <1>5, <1>6, <1>7

\* How many nodes are above one.
Depth(g, m) == Cardinality(Reader!Above(g, m))

LEMMA AncestorsAbove ==
  ASSUME NEW g, AtHome(g), NEW rank, IsRank(rank)
  PROVE  \A m \in DOMAIN g : m \in Reader!Ancestors(g, m)
            /\ \A x \in Reader!Ancestors(g, m) : x = m \/ rank[x] < rank[m]
<1> DEFINE S == {m \in DOMAIN g : m \in Reader!Ancestors(g, m)
                   /\ \A x \in Reader!Ancestors(g, m) : x = m \/ rank[x] < rank[m]}
<1>1. ASSUME NEW m \in DOMAIN g, g[m].parent \in DOMAIN g => g[m].parent \in S PROVE m \in S
  <2>1. CASE g[m].parent \notin DOMAIN g
    <3>1. Reader!Ancestors(g, m) = {m}
      BY <2>1, AncestorsAre
    <3> QED
      BY <3>1
  <2>2. CASE g[m].parent \in DOMAIN g
    <3>1. PICK p \in DOMAIN g : p = g[m].parent
      BY <2>2
    <3>2. Reader!Ancestors(g, m) = {m} \cup Reader!Ancestors(g, p)
      BY <3>1, AncestorsAre
    <3>3. \A x \in Reader!Ancestors(g, p) : x = p \/ rank[x] < rank[p]
      BY <1>1, <3>1
    <3>4. rank[p] < rank[m] /\ \A x \in DOMAIN g : rank[x] \in 1..NodeCount
      BY <3>1, ParentIs
    <3>5. Reader!Ancestors(g, p) \subseteq DOMAIN g
      BY AncestorsAre
    <3>6. \A x \in Reader!Ancestors(g, p) : rank[x] < rank[m]
      <4> SUFFICES ASSUME NEW x \in Reader!Ancestors(g, p) PROVE rank[x] < rank[m]
        OBVIOUS
      <4>1. rank[x] \in 1..NodeCount /\ rank[p] \in 1..NodeCount /\ rank[m] \in 1..NodeCount
        BY <3>4, <3>5
      <4> QED
        BY <3>3, <3>4, <4>1, NodeCountAssumption
    <3> QED
      BY <3>2, <3>6
  <2> QED
    BY <2>1, <2>2
<1> HIDE DEF S
<1>2. DOMAIN g \subseteq S
  BY <1>1, ByRank
<1> QED
  BY <1>2 DEF S

\* Above a node are its parent and what is above that.
LEMMA AboveIs ==
  ASSUME NEW g, AtHome(g), NEW m \in DOMAIN g
  PROVE  /\ Reader!Above(g, m) \in SUBSET NodeId /\ Depth(g, m) \in Nat
         /\ g[m].parent = NoNode => Reader!Above(g, m) = {} /\ Depth(g, m) = 0
         /\ g[m].parent # NoNode =>
              /\ g[m].parent \in DOMAIN g
              /\ Reader!Above(g, m) = Reader!Ancestors(g, g[m].parent)
              /\ Reader!Above(g, m) = Reader!Above(g, g[m].parent) \cup {g[m].parent}
              /\ Depth(g, m) = Depth(g, g[m].parent) + 1
         /\ Reader!Ancestors(g, m) = Reader!Above(g, m) \cup {m} /\ m \notin Reader!Above(g, m)
<1>1. PICK rank : IsRank(rank)
  BY RankExists
<1>2. /\ m \in Reader!Ancestors(g, m)
      /\ \A p \in DOMAIN g : p \in Reader!Ancestors(g, p)
                             /\ \A x \in Reader!Ancestors(g, p) : x = p \/ rank[x] < rank[p]
  BY <1>1, AncestorsAbove
<1>3. \A p : Reader!Above(g, p) \in SUBSET NodeId /\ IsFiniteSet(Reader!Above(g, p))
  <2>1. \A p : Reader!Above(g, p) \in SUBSET NodeId
    BY AncestorsAre DEF AtHome, Reader!Above
  <2> QED
    BY <2>1, NodesFinite
<1>4. \A p : Depth(g, p) \in Nat
  BY <1>3, FS_CardinalityType DEF Depth
<1>5. ASSUME g[m].parent = NoNode PROVE Reader!Above(g, m) = {} /\ Depth(g, m) = 0
  <2>1. g[m].parent \notin DOMAIN g
    BY <1>5, ParentIs
  <2>2. Reader!Above(g, m) = {}
    BY <2>1, AncestorsAre DEF Reader!Above
  <2> QED
    BY <2>2, FS_EmptySet DEF Depth
<1>6. ASSUME g[m].parent # NoNode
      PROVE  /\ g[m].parent \in DOMAIN g
             /\ Reader!Above(g, m) = Reader!Ancestors(g, g[m].parent)
             /\ Reader!Above(g, m) = Reader!Above(g, g[m].parent) \cup {g[m].parent}
             /\ Depth(g, m) = Depth(g, g[m].parent) + 1
  <2>1. PICK p \in DOMAIN g : p = g[m].parent
    BY <1>6, ParentIs
  <2>2. Reader!Ancestors(g, m) = {m} \cup Reader!Ancestors(g, p)
    BY <2>1, AncestorsAre
  <2>3. m \notin Reader!Ancestors(g, p)
    <3>1. rank[p] < rank[m] /\ rank[m] \in 1..NodeCount /\ rank[p] \in 1..NodeCount
      BY <1>1, <2>1, ParentIs
    <3>2. m # p /\ ~(rank[m] < rank[p])
      BY <3>1, NodeCountAssumption
    <3> QED
      BY <1>2, <3>2
  <2>4. Reader!Above(g, m) = Reader!Ancestors(g, p)
    BY <2>2, <2>3 DEF Reader!Above
  <2>5. Reader!Above(g, m) = Reader!Above(g, p) \cup {p} /\ p \notin Reader!Above(g, p)
    BY <1>2, <2>4 DEF Reader!Above
  <2>6. PICK A : A = Reader!Above(g, p)
    OBVIOUS
  <2>7. Cardinality(A \cup {p}) = Cardinality(A) + 1
    BY <1>3, <2>5, <2>6, FS_AddElement
  <2> QED
    BY <2>1, <2>4, <2>5, <2>6, <2>7 DEF Depth
<1>7. Reader!Ancestors(g, m) = Reader!Above(g, m) \cup {m} /\ m \notin Reader!Above(g, m)
  BY <1>2 DEF Reader!Above
<1> QED
  BY <1>3, <1>4, <1>5, <1>6, <1>7

\* Below a node is more.
LEMMA BelowIsDeeper ==
  ASSUME NEW g, AtHome(g), NEW a \in DOMAIN g
  PROVE  \A m \in DOMAIN g : a \in Reader!Above(g, m) => Depth(g, m) >= Depth(g, a) + 1
<1> DEFINE S == {m \in DOMAIN g : a \in Reader!Above(g, m) => Depth(g, m) >= Depth(g, a) + 1}
<1>1. ASSUME NEW m \in DOMAIN g, g[m].parent \in DOMAIN g => g[m].parent \in S PROVE m \in S
  <2> SUFFICES ASSUME a \in Reader!Above(g, m) PROVE Depth(g, m) >= Depth(g, a) + 1
    OBVIOUS
  <2>1. g[m].parent # NoNode
    BY AboveIs
  <2>2. PICK p \in DOMAIN g : p = g[m].parent
    BY <2>1, AboveIs
  <2>3. Reader!Above(g, m) = Reader!Above(g, p) \cup {p} /\ Depth(g, m) = Depth(g, p) + 1
    BY <2>1, <2>2, AboveIs
  <2>4. Depth(g, p) \in Nat /\ Depth(g, a) \in Nat
    BY AboveIs
  <2>5. CASE a = p
    BY <2>3, <2>4, <2>5
  <2>6. CASE a \in Reader!Above(g, p)
    <3>1. Depth(g, p) >= Depth(g, a) + 1
      BY <1>1, <2>2, <2>6
    <3> QED
      BY <2>3, <2>4, <3>1
  <2> QED
    BY <2>3, <2>5, <2>6
<1> HIDE DEF S
<1>2. DOMAIN g \subseteq S
  BY <1>1, ByRank
<1> QED
  BY <1>2 DEF S

\* The levels of a walk down.
Offspring(g, S) == UNION {Reader!ChildrenOf(g, n) : n \in S}

IsLevels(f, g, top, n) ==
  f \in [0..n -> SUBSET DOMAIN g] /\ f[0] = top /\ \A k \in 1..n : f[k] = Offspring(g, f[k - 1])

LEMMA LevelsExist ==
  ASSUME NEW g, NEW top \in SUBSET DOMAIN g, NEW n \in Nat
  PROVE  \E f : IsLevels(f, g, top, n)
<1> DEFINE V == SUBSET DOMAIN g
           G == [k \in 1..n |-> [S \in V |-> Offspring(g, S)]]
<1>1. \A S \in V : Offspring(g, S) \in V
  BY DEF Offspring, Reader!ChildrenOf
<1>2. G \in [1..n -> [V -> V]] /\ top \in V
  BY <1>1
<1> HIDE DEF V, G
<1>3. PICK f : IsSteps(f, V, top, n, G)
  BY <1>2, StepByStep
<1>4. f \in [0..n -> V] /\ f[0] = top
  BY <1>3 DEF IsSteps
<1>5. \A k \in 1..n : f[k] = Offspring(g, f[k - 1])
  <2> SUFFICES ASSUME NEW k \in 1..n PROVE f[k] = Offspring(g, f[k - 1])
    OBVIOUS
  <2>1. f[k - 1] \in V
    BY <1>4
  <2>2. f[k] = G[k][f[k - 1]]
    BY <1>3 DEF IsSteps
  <2>3. G[k] = [S \in V |-> Offspring(g, S)]
    BY DEF G
  <2> QED
    BY <2>1, <2>2, <2>3
<1> QED
  BY <1>4, <1>5 DEF IsLevels, V

\* A part of the table that walks down from its nodes of one depth exhaust.
IsPart(g, T, base) ==
  /\ T \subseteq DOMAIN g /\ base \in Nat
  /\ \A m \in T : Depth(g, m) >= base
  /\ \A m \in DOMAIN g : g[m].parent # NoNode =>
       /\ g[m].parent \in T => m \in T
       /\ m \in T /\ Depth(g, m) > base => g[m].parent \in T

AtDepth(g, T, d) == {m \in T : Depth(g, m) = d}

LEMMA LevelsAre ==
  ASSUME NEW g, AtHome(g), NEW T, NEW base, IsPart(g, T, base), NEW n \in Nat, NEW f,
         IsLevels(f, g, AtDepth(g, T, base), n)
  PROVE  \A k \in 0..n : f[k] = AtDepth(g, T, base + k)
<1> DEFINE S == {k \in 0..n : f[k] = AtDepth(g, T, base + k)}
<1>1. 0 \in S
  <2>1. base + 0 = base /\ 0 \in 0..n
    BY DEF IsPart
  <2> QED
    BY <2>1 DEF IsLevels
<1>2. ASSUME NEW k \in 1..n, k - 1 \in S PROVE k \in S
  <2>1. f[k] = Offspring(g, AtDepth(g, T, base + (k - 1))) /\ k \in 0..n
    BY <1>2 DEF IsLevels
  <2>2. base + (k - 1) = base + k - 1 /\ base + k \in Nat /\ base + k > base /\ base + k # 0 /\ base \in Nat
    BY DEF IsPart
  <2>3. ASSUME NEW m PROVE m \in f[k] <=> m \in AtDepth(g, T, base + k)
    <3>1. m \in f[k] <=> m \in DOMAIN g /\ g[m].parent \in AtDepth(g, T, base + (k - 1))
      BY <2>1 DEF Offspring, Reader!ChildrenOf
    <3>2. ASSUME m \in DOMAIN g, g[m].parent \in AtDepth(g, T, base + (k - 1))
          PROVE  m \in AtDepth(g, T, base + k)
      <4>1. PICK p \in DOMAIN g : p = g[m].parent
        BY <3>2 DEF AtDepth, IsPart
      <4>2. p # NoNode /\ p \in T /\ Depth(g, p) = base + (k - 1)
        BY <3>2, <4>1, ParentIs DEF AtDepth
      <4>3. m \in T /\ Depth(g, m) = Depth(g, p) + 1
        BY <3>2, <4>1, <4>2, AboveIs DEF IsPart
      <4> QED
        BY <2>2, <4>2, <4>3 DEF AtDepth
    <3>3. ASSUME m \in AtDepth(g, T, base + k)
          PROVE  m \in DOMAIN g /\ g[m].parent \in AtDepth(g, T, base + (k - 1))
      <4>1. m \in DOMAIN g /\ m \in T /\ Depth(g, m) = base + k
        BY <3>3 DEF AtDepth, IsPart
      <4>2. g[m].parent # NoNode
        BY <2>2, <4>1, AboveIs
      <4>3. PICK p \in DOMAIN g : p = g[m].parent
        BY <4>1, <4>2, AboveIs
      <4>4. p \in T
        BY <2>2, <4>1, <4>2, <4>3 DEF IsPart
      <4>5. Depth(g, m) = Depth(g, p) + 1 /\ Depth(g, p) \in Nat
        BY <4>1, <4>2, <4>3, AboveIs
      <4>6. Depth(g, p) = base + (k - 1)
        BY <2>2, <4>1, <4>5
      <4> QED
        BY <4>1, <4>3, <4>4, <4>6 DEF AtDepth
    <3> QED
      BY <3>1, <3>2, <3>3
  <2>4. f[k] = AtDepth(g, T, base + k)
    BY <2>3
  <2> QED
    BY <2>1, <2>4
<1> HIDE DEF S
<1>3. \A k \in 1..n : k - 1 \in S => k \in S
  BY <1>2
<1>4. \A k \in 0..n : k \in S
  BY <1>1, <1>3, UpTo
<1> QED
  BY <1>4 DEF S

\* GetDescendants goes down level by level.
LEMMA DescendantsUnroll ==
  ASSUME NEW g, NEW a, NEW d \in Nat \ {0}
  PROVE  \E f : /\ IsLevels(f, g, Reader!ChildrenOf(g, a), d - 1)
                /\ Reader!Descendants(g, a, d) = UNION {f[k] : k \in 0..(d - 1)}
<1> DEFINE top == Reader!ChildrenOf(g, a)
           Eq(l) == l = [k \in 1..d |-> IF k = 1 THEN Reader!ChildrenOf(g, a)
                                        ELSE UNION {Reader!ChildrenOf(g, c) : c \in l[k - 1]}]
<1>1. top \in SUBSET DOMAIN g /\ d - 1 \in Nat /\ \A S : Offspring(g, S) \in SUBSET DOMAIN g
  BY DEF Offspring, Reader!ChildrenOf
<1> HIDE DEF top
<1>2. PICK e : IsLevels(e, g, top, d - 1)
  BY <1>1, LevelsExist
<1> DEFINE l == [k \in 1..d |-> e[k - 1]]
<1>3. Eq(l)
  <2>1. \A k \in 1..d : l[k] = IF k = 1 THEN top ELSE Offspring(g, l[k - 1])
    <3> SUFFICES ASSUME NEW k \in 1..d PROVE l[k] = IF k = 1 THEN top ELSE Offspring(g, l[k - 1])
      OBVIOUS
    <3>1. CASE k = 1
      BY <1>2, <3>1 DEF IsLevels
    <3>2. CASE k # 1
      <4>1. k - 1 \in 1..(d - 1) /\ k - 1 \in 1..d
        BY <3>2
      <4>2. e[k - 1] = Offspring(g, e[(k - 1) - 1])
        BY <1>2, <4>1 DEF IsLevels
      <4> QED
        BY <3>2, <4>1, <4>2
    <3> QED
      BY <3>1, <3>2
  <2>2. l = [k \in 1..d |-> l[k]]
    OBVIOUS
  <2> HIDE DEF l
  <2>3. l = [k \in 1..d |-> IF k = 1 THEN top ELSE Offspring(g, l[k - 1])]
    BY <2>1, <2>2
  <2> QED
    BY <2>3 DEF Offspring, top
<1> DEFINE u == CHOOSE c : Eq(c)
<1> HIDE DEF Eq, l
<1>4. Eq(u)
  BY <1>3, Zenon
<1>5. Reader!Descendants(g, a, d) = UNION {u[k] : k \in 1..d}
  BY DEF Reader!Descendants, Eq
<1> HIDE DEF u
<1>6. u = [k \in 1..d |-> IF k = 1 THEN top ELSE Offspring(g, u[k - 1])]
  BY <1>4 DEF Eq, Offspring, top
<1> DEFINE f == [k \in 0..(d - 1) |-> u[k + 1]]
<1>7. \A k \in 0..(d - 1) : k + 1 \in 1..d /\ f[k] = u[k + 1]
  OBVIOUS
<1>8. \A k \in 0..(d - 1) : f[k] \in SUBSET DOMAIN g
  BY <1>1, <1>6, <1>7
<1>9. f \in [0..(d - 1) -> SUBSET DOMAIN g]
  BY <1>8
<1> HIDE DEF f
<1>10. f[0] = top
  BY <1>6, <1>7
<1>11. \A k \in 1..(d - 1) : f[k] = Offspring(g, f[k - 1])
  <2> SUFFICES ASSUME NEW k \in 1..(d - 1) PROVE f[k] = Offspring(g, f[k - 1])
    OBVIOUS
  <2>1. k \in 0..(d - 1) /\ k - 1 \in 0..(d - 1) /\ k + 1 # 1 /\ (k + 1) - 1 = k /\ (k - 1) + 1 = k /\ k + 1 \in 1..d
    OBVIOUS
  <2>2. f[k] = u[k + 1] /\ f[k - 1] = u[k]
    BY <1>7, <2>1
  <2>3. u[k + 1] = Offspring(g, u[k])
    BY <1>6, <2>1
  <2> QED
    BY <2>2, <2>3
<1>12. UNION {u[k] : k \in 1..d} = UNION {f[k] : k \in 0..(d - 1)}
  <2>1. \A k \in 1..d : k - 1 \in 0..(d - 1) /\ u[k] = f[k - 1]
    <3> SUFFICES ASSUME NEW k \in 1..d PROVE k - 1 \in 0..(d - 1) /\ u[k] = f[k - 1]
      OBVIOUS
    <3>1. k - 1 \in 0..(d - 1) /\ (k - 1) + 1 = k
      OBVIOUS
    <3> QED
      BY <1>7, <3>1
  <2> QED
    BY <1>7, <2>1
<1> QED
  BY <1>5, <1>9, <1>10, <1>11, <1>12 DEF IsLevels, top

\* What GetDescendants returns: the nodes below, no deeper than asked for.
LEMMA DescendantsAre ==
  ASSUME NEW g, AtHome(g), NEW a \in NodeId, NEW d \in Nat \ {0}
  PROVE  Reader!Descendants(g, a, d) =
           IF a \notin DOMAIN g THEN {}
           ELSE {m \in DOMAIN g : a \in Reader!Above(g, m) /\ Depth(g, m) <= Depth(g, a) + d}
<1>1. PICK f : /\ IsLevels(f, g, Reader!ChildrenOf(g, a), d - 1)
               /\ Reader!Descendants(g, a, d) = UNION {f[k] : k \in 0..(d - 1)}
  BY DescendantsUnroll
<1>2. d - 1 \in Nat /\ a # NoNode
  BY DEF NodeId, NoNode
<1>3. CASE a \notin DOMAIN g
  <2>1. Reader!ChildrenOf(g, a) = {}
    BY <1>2, <1>3, ParentIs DEF Reader!ChildrenOf
  <2>2. IsPart(g, {}, 0) /\ AtDepth(g, {}, 0) = {} /\ \A k : AtDepth(g, {}, 0 + k) = {}
    BY DEF IsPart, AtDepth
  <2>3. \A k \in 0..(d - 1) : f[k] = AtDepth(g, {}, 0 + k)
    <3>1. PICK none, c : none = {} /\ c = d - 1
      OBVIOUS
    <3>2. IsPart(g, none, 0) /\ IsLevels(f, g, AtDepth(g, none, 0), c) /\ c \in Nat
      BY <1>1, <1>2, <2>1, <2>2, <3>1
    <3>3. \A k \in 0..c : f[k] = AtDepth(g, none, 0 + k)
      BY <3>2, LevelsAre
    <3> QED
      BY <3>1, <3>3
  <2>4. \A k \in 0..(d - 1) : f[k] = {}
    BY <2>2, <2>3
  <2> QED
    BY <1>1, <1>3, <2>4
<1>4. CASE a \in DOMAIN g
  <2> DEFINE T == {m \in DOMAIN g : a \in Reader!Above(g, m)}
             base == Depth(g, a) + 1
  <2>1. Depth(g, a) \in Nat /\ \A m \in DOMAIN g : Depth(g, m) \in Nat
    BY <1>4, AboveIs
  <2>2. \A m \in T : Depth(g, m) >= base
    BY <1>4, BelowIsDeeper
  <2>3. ASSUME NEW m \in DOMAIN g, g[m].parent # NoNode
        PROVE  /\ g[m].parent \in T => m \in T
               /\ m \in T /\ Depth(g, m) > base => g[m].parent \in T
               /\ g[m].parent = a <=> m \in T /\ Depth(g, m) = base
    <3>1. PICK p \in DOMAIN g : p = g[m].parent
      BY <2>3, AboveIs
    <3>2. Reader!Above(g, m) = Reader!Above(g, p) \cup {p} /\ Depth(g, m) = Depth(g, p) + 1
      BY <2>3, <3>1, AboveIs
    <3>3. m \in T <=> p \in T \/ p = a
      BY <3>2
    <3>4. p = a => Depth(g, m) = base
      BY <3>2
    <3>5. p \in T => Depth(g, m) > base
      BY <2>1, <2>2, <3>2
    <3>6. ~(base > base)
      BY <2>1
    <3> HIDE DEF T, base
    <3> QED
      BY <3>1, <3>3, <3>4, <3>5, <3>6
  <2>4. IsPart(g, T, base)
    BY <2>1, <2>2, <2>3 DEF IsPart
  <2>5. Reader!ChildrenOf(g, a) = AtDepth(g, T, base)
    <3>1. ASSUME NEW m \in DOMAIN g PROVE g[m].parent = a <=> m \in T /\ Depth(g, m) = base
      <4>1. g[m].parent = NoNode => m \notin T
        BY AboveIs
      <4> QED
        BY <1>2, <2>3, <4>1
    <3> QED
      BY <3>1 DEF Reader!ChildrenOf, AtDepth
  <2> HIDE DEF T, base
  <2>6. \A k \in 0..(d - 1) : f[k] = AtDepth(g, T, base + k)
    BY <1>1, <1>2, <2>4, <2>5, LevelsAre
  <2>7. ASSUME NEW m
        PROVE  m \in UNION {f[k] : k \in 0..(d - 1)} <=> m \in T /\ Depth(g, m) <= Depth(g, a) + d
    <3>1. ASSUME NEW k \in 0..(d - 1), m \in f[k] PROVE m \in T /\ Depth(g, m) <= Depth(g, a) + d
      <4>1. m \in T /\ Depth(g, m) = base + k
        BY <2>6, <3>1 DEF AtDepth
      <4> QED
        BY <2>1, <4>1 DEF base
    <3>2. ASSUME m \in T, Depth(g, m) <= Depth(g, a) + d PROVE \E k \in 0..(d - 1) : m \in f[k]
      <4>1. Depth(g, m) \in Nat /\ Depth(g, m) >= base
        BY <2>1, <2>4, <3>2 DEF IsPart, T
      <4>2. PICK k : k = Depth(g, m) - base
        OBVIOUS
      <4>3. k \in 0..(d - 1) /\ base + k = Depth(g, m)
        BY <2>1, <3>2, <4>1, <4>2 DEF base
      <4> QED
        BY <2>6, <3>2, <4>3 DEF AtDepth
    <3> QED
      BY <3>1, <3>2
  <2>8. \A m : m \in T <=> m \in DOMAIN g /\ a \in Reader!Above(g, m)
    BY DEF T
  <2> QED
    BY <1>1, <1>4, <2>7, <2>8
<1> QED
  BY <1>3, <1>4

\* MemoryTree goes down the same way, from its roots.
WalkFrom(f, d) == [n \in UNION {f[k] : k \in 0..d} |-> CHOOSE k \in 0..d : n \in f[k]]

LEMMA WalkUnroll ==
  ASSUME NEW g, NEW top \in SUBSET DOMAIN g, NEW d \in Nat
  PROVE  \E f : /\ IsLevels(f, g, top, d)
                /\ Reader!Walk(g, top, d) = WalkFrom(f, d)
<1> DEFINE Eq(l) == l = [k \in 0..d |-> IF k = 0 THEN top
                                        ELSE UNION {Reader!ChildrenOf(g, n) : n \in l[k - 1]}]
<1>1. \A S : Offspring(g, S) \in SUBSET DOMAIN g
  BY DEF Offspring, Reader!ChildrenOf
<1>2. PICK e : IsLevels(e, g, top, d)
  BY LevelsExist
<1>3. Eq(e)
  <2>1. \A k \in 0..d : e[k] = IF k = 0 THEN top ELSE Offspring(g, e[k - 1])
    BY <1>2 DEF IsLevels
  <2>2. e = [k \in 0..d |-> e[k]]
    BY <1>2 DEF IsLevels
  <2>3. e = [k \in 0..d |-> IF k = 0 THEN top ELSE Offspring(g, e[k - 1])]
    BY <2>1, <2>2
  <2> QED
    BY <2>3 DEF Offspring
<1> DEFINE u == CHOOSE c : Eq(c)
<1> HIDE DEF Eq
<1>4. Eq(u)
  BY <1>3, Zenon
<1>5. Reader!Walk(g, top, d) = WalkFrom(u, d)
  BY DEF Reader!Walk, Eq, WalkFrom
<1> HIDE DEF u
<1>6. u = [k \in 0..d |-> IF k = 0 THEN top ELSE Offspring(g, u[k - 1])]
  BY <1>4 DEF Eq, Offspring
<1>7. \A k \in 0..d : u[k] \in SUBSET DOMAIN g
  BY <1>1, <1>6
<1>8. u \in [0..d -> SUBSET DOMAIN g] /\ u[0] = top /\ \A k \in 1..d : u[k] = Offspring(g, u[k - 1])
  BY <1>6, <1>7
<1> QED
  BY <1>5, <1>8 DEF IsLevels

\* The roots a tree starts at.
Roots(g, root) == IF root = NoNode THEN Reader!ChildrenOf(g, NoNode) ELSE {root}

TreeOf(g, root) == {m \in DOMAIN g : root = NoNode \/ root \in Reader!Ancestors(g, m)}

TreeBase(g, root) == IF root = NoNode THEN 0 ELSE Depth(g, root)

LEMMA TreePart ==
  ASSUME NEW g, AtHome(g), NEW root \in DOMAIN g \cup {NoNode}
  PROVE  /\ IsPart(g, TreeOf(g, root), TreeBase(g, root))
         /\ Roots(g, root) = AtDepth(g, TreeOf(g, root), TreeBase(g, root))
         /\ Roots(g, root) \in SUBSET DOMAIN g
<1>1. \A m \in DOMAIN g : Depth(g, m) \in Nat
  BY AboveIs
<1>2. CASE root = NoNode
  <2>1. TreeOf(g, root) = DOMAIN g /\ TreeBase(g, root) = 0 /\ Roots(g, root) = Reader!ChildrenOf(g, NoNode)
    BY <1>2 DEF TreeOf, TreeBase, Roots
  <2>2. \A m \in DOMAIN g : g[m].parent # NoNode => g[m].parent \in DOMAIN g
    BY AboveIs
  <2>3. IsPart(g, DOMAIN g, 0)
    BY <1>1, <2>2 DEF IsPart
  <2>4. \A m \in DOMAIN g : g[m].parent = NoNode <=> Depth(g, m) = 0
    <3> SUFFICES ASSUME NEW m \in DOMAIN g, g[m].parent # NoNode PROVE Depth(g, m) # 0
      BY AboveIs
    <3>1. PICK p \in DOMAIN g : p = g[m].parent
      BY AboveIs
    <3>2. Depth(g, m) = Depth(g, p) + 1 /\ Depth(g, p) \in Nat
      BY <1>1, <3>1, AboveIs
    <3> QED
      BY <3>2
  <2>5. Reader!ChildrenOf(g, NoNode) = AtDepth(g, DOMAIN g, 0)
    BY <2>4 DEF Reader!ChildrenOf, AtDepth
  <2>6. Reader!ChildrenOf(g, NoNode) \in SUBSET DOMAIN g
    BY DEF Reader!ChildrenOf
  <2> QED
    BY <2>1, <2>3, <2>5, <2>6
<1>3. CASE root # NoNode
  <2> DEFINE T == TreeOf(g, root)
             base == TreeBase(g, root)
  <2>1. root \in DOMAIN g /\ base = Depth(g, root) /\ Roots(g, root) = {root}
    BY <1>3 DEF TreeBase, Roots
  <2>2. \A m : m \in T <=> m \in DOMAIN g /\ root \in Reader!Ancestors(g, m)
    BY <1>3 DEF TreeOf
  <2> HIDE DEF T, base
  <2>3. ASSUME NEW m \in T PROVE Depth(g, m) >= base /\ (m # root => Depth(g, m) > base)
    <3>1. m \in DOMAIN g /\ (m = root \/ root \in Reader!Above(g, m))
      BY <2>2, AboveIs
    <3>2. root \in Reader!Above(g, m) => Depth(g, m) >= Depth(g, root) + 1
      BY <2>1, <3>1, BelowIsDeeper
    <3> QED
      BY <1>1, <2>1, <3>1, <3>2
  <2>4. ASSUME NEW m \in DOMAIN g, g[m].parent # NoNode
        PROVE  /\ g[m].parent \in T => m \in T
               /\ m \in T /\ Depth(g, m) > base => g[m].parent \in T
    <3>1. PICK p \in DOMAIN g : p = g[m].parent
      BY <2>4, AboveIs
    <3>2. Reader!Ancestors(g, m) = Reader!Ancestors(g, p) \cup {m}
      BY <3>1, AncestorsAre
    <3>3. ~(base > base)
      BY <1>1, <2>1
    <3>4. Depth(g, m) > base => m # root
      BY <2>1, <3>3
    <3> QED
      BY <2>2, <3>1, <3>2, <3>4
  <2>5. T \subseteq DOMAIN g /\ base \in Nat
    BY <1>1, <2>1, <2>2
  <2>6. IsPart(g, T, base)
    BY <2>3, <2>4, <2>5 DEF IsPart
  <2>7. root \in T
    BY <2>1, <2>2, AboveIs
  <2>8. \A m \in T : Depth(g, m) = base <=> m = root
    <3> SUFFICES ASSUME NEW m \in T PROVE Depth(g, m) = base <=> m = root
      OBVIOUS
    <3>1. ~(base > base)
      BY <2>5
    <3> QED
      BY <2>1, <2>3, <3>1
  <2>9. {root} = AtDepth(g, T, base)
    BY <2>7, <2>8 DEF AtDepth
  <2> QED
    BY <2>1, <2>6, <2>9 DEF T, base
<1> QED
  BY <1>2, <1>3

\* What a tree shows: every node of it, no deeper than asked for, at its depth.
LEMMA WalkIs ==
  ASSUME NEW g, AtHome(g), NEW root \in DOMAIN g \cup {NoNode}, NEW d \in Nat
  PROVE  Reader!Walk(g, Roots(g, root), d) =
           [n \in {m \in TreeOf(g, root) : Depth(g, m) - TreeBase(g, root) <= d} |->
              Depth(g, n) - TreeBase(g, root)]
<1> DEFINE T == TreeOf(g, root)
           base == TreeBase(g, root)
           U == {m \in T : Depth(g, m) - base <= d}
<1>1. IsPart(g, T, base) /\ Roots(g, root) = AtDepth(g, T, base) /\ Roots(g, root) \in SUBSET DOMAIN g
  BY TreePart
<1> HIDE DEF T, base
<1>2. PICK f : /\ IsLevels(f, g, Roots(g, root), d)
               /\ Reader!Walk(g, Roots(g, root), d) = WalkFrom(f, d)
  <2>1. PICK top : top = Roots(g, root)
    OBVIOUS
  <2>2. \E f : IsLevels(f, g, top, d) /\ Reader!Walk(g, top, d) = WalkFrom(f, d)
    BY <1>1, <2>1, WalkUnroll
  <2> QED
    BY <2>1, <2>2
<1>3. \A k \in 0..d : f[k] = AtDepth(g, T, base + k)
  BY <1>1, <1>2, LevelsAre
<1>4. base \in Nat /\ \A m \in T : Depth(g, m) \in Nat /\ Depth(g, m) >= base
  BY <1>1, AboveIs DEF IsPart
<1>5. \A k \in 0..d : \A n : n \in f[k] <=> n \in T /\ k = Depth(g, n) - base
  <2> SUFFICES ASSUME NEW k \in 0..d, NEW n PROVE n \in f[k] <=> n \in T /\ k = Depth(g, n) - base
    OBVIOUS
  <2>1. n \in T => (Depth(g, n) = base + k <=> k = Depth(g, n) - base)
    BY <1>4
  <2> QED
    BY <1>3, <2>1 DEF AtDepth
<1>6. \A n \in U : Depth(g, n) - base \in 0..d
  BY <1>4
<1>7. UNION {f[k] : k \in 0..d} = U
  <2>1. \A n : n \in U => \E k \in 0..d : n \in f[k]
    BY <1>5, <1>6
  <2>2. ASSUME NEW k \in 0..d, NEW n \in f[k] PROVE n \in U
    <3>1. n \in T /\ k = Depth(g, n) - base
      BY <1>5
    <3>2. Depth(g, n) - base <= d
      BY <3>1
    <3> QED
      BY <3>1, <3>2
  <2> QED
    BY <2>1, <2>2
<1>8. ASSUME NEW n \in U PROVE (CHOOSE k \in 0..d : n \in f[k]) = Depth(g, n) - base
  <2>1. \A k \in 0..d : n \in f[k] <=> k = Depth(g, n) - base
    BY <1>5
  <2>2. Depth(g, n) - base \in 0..d
    BY <1>6
  <2> QED
    BY <2>1, <2>2
<1> HIDE DEF U
<1>9. Reader!Walk(g, Roots(g, root), d) = [n \in U |-> Depth(g, n) - base]
  BY <1>2, <1>7, <1>8 DEF WalkFrom
<1> QED
  BY <1>9 DEF U, T, base

-----------------------------------------------------------------------------
(* The context of an anchor.                                               *)

BatchOf(b, g, a, d) ==
  CASE b = 1 -> Reader!Ancestors(g, a)
    [] b = 2 -> Reader!Descendants(g, a, d)
    [] b = 3 -> Reader!Siblings(g, a)

LEMMA BatchIs ==
  ASSUME NEW g, AtHome(g), NEW a \in NodeId, NEW d \in Nat \ {0}
  PROVE  /\ \A b \in 1..3 : BatchOf(b, g, a, d) \subseteq DOMAIN g
         /\ UNION {BatchOf(b, g, a, d) \ {a} : b \in 1..3} = Reader!ContextIn(g, a, d)
<1> DEFINE up == BatchOf(1, g, a, d)
           down == BatchOf(2, g, a, d)
           beside == BatchOf(3, g, a, d)
<1>1. up = Reader!Ancestors(g, a) /\ down = Reader!Descendants(g, a, d) /\ beside = Reader!Siblings(g, a)
  BY DEF BatchOf
<1>2. UNION {BatchOf(b, g, a, d) \ {a} : b \in 1..3} = (up \ {a}) \cup (down \ {a}) \cup (beside \ {a})
  <2>1. \A b : b \in 1..3 <=> b = 1 \/ b = 2 \/ b = 3
    OBVIOUS
  <2> HIDE DEF up, down, beside
  <2> QED
    BY <2>1 DEF up, down, beside
<1>3. \A b \in 1..3 : BatchOf(b, g, a, d) \in {up, down, beside}
  <2>1. \A b \in 1..3 : b = 1 \/ b = 2 \/ b = 3
    OBVIOUS
  <2> QED
    BY <2>1
<1> HIDE DEF up, down, beside
<1>4. beside = IF a \notin DOMAIN g \/ g[a].parent = NoNode THEN {}
               ELSE {m \in DOMAIN g : g[m].parent = g[a].parent} \ {a}
  BY <1>1 DEF Reader!Siblings, Reader!ChildrenOf, Reader!NoNode, NoNode
<1>5. down = IF a \notin DOMAIN g THEN {}
             ELSE {m \in DOMAIN g : a \in Reader!Above(g, m) /\ Depth(g, m) <= Depth(g, a) + d}
  BY <1>1, DescendantsAre
<1>6. up \subseteq DOMAIN g
  BY <1>1, AncestorsAre
<1>7. \A b \in 1..3 : BatchOf(b, g, a, d) \subseteq DOMAIN g
  BY <1>3, <1>4, <1>5, <1>6
<1>8. \A m : Reader!Cardinality(Reader!Above(g, m)) = Depth(g, m)
  BY SameCount DEF Depth
<1>9. Reader!ContextIn(g, a, d) =
        IF a \notin DOMAIN g THEN {}
        ELSE Reader!Above(g, a)
               \cup {m \in DOMAIN g : a \in Reader!Above(g, m) /\ Depth(g, m) <= Depth(g, a) + d}
               \cup {m \in DOMAIN g \ {a} : g[m].parent = g[a].parent /\ g[a].parent # NoNode}
  <2>1. {m \in DOMAIN g : a \in Reader!Above(g, m)
               /\ Reader!Cardinality(Reader!Above(g, m)) <= Reader!Cardinality(Reader!Above(g, a)) + d}
        = {m \in DOMAIN g : a \in Reader!Above(g, m) /\ Depth(g, m) <= Depth(g, a) + d}
    BY <1>8
  <2>2. {m \in DOMAIN g \ {a} : g[m].parent = g[a].parent /\ g[a].parent # Reader!NoNode}
        = {m \in DOMAIN g \ {a} : g[m].parent = g[a].parent /\ g[a].parent # NoNode}
    BY DEF Reader!NoNode, NoNode
  <2> QED
    BY <2>1, <2>2 DEF Reader!ContextIn
<1>10. CASE a \notin DOMAIN g
  <2>1. up = {} /\ down = {} /\ beside = {}
    BY <1>1, <1>4, <1>5, <1>10, AncestorsAre
  <2> QED
    BY <1>2, <1>7, <1>9, <1>10, <2>1
<1>11. CASE a \in DOMAIN g
  <2>1. up \ {a} = Reader!Above(g, a) /\ a \notin down
    BY <1>1, <1>5, <1>11, AboveIs DEF Reader!Above
  <2>2. beside \ {a} = {m \in DOMAIN g \ {a} : g[m].parent = g[a].parent /\ g[a].parent # NoNode}
    BY <1>4, <1>11
  <2>3. down \ {a} = {m \in DOMAIN g : a \in Reader!Above(g, m) /\ Depth(g, m) <= Depth(g, a) + d}
    BY <1>5, <1>11, <2>1
  <2> QED
    BY <1>2, <1>7, <1>9, <1>11, <2>1, <2>2, <2>3
<1> QED
  BY <1>10, <1>11

\* A fetch that is collecting: it has the anchor's row, and each batch is what the anchor had
\* around it in one of the states of the store it ran over.
CollectInv(r, now) ==
  /\ r = [step |-> "collect", anchor |-> r.anchor, row |-> r.row, budget |-> r.budget, depth |-> r.depth,
          batches |-> r.batches, during |-> r.during]
  /\ r.anchor \in NodeId /\ r.row \in NodeRow /\ r.budget \in Nat /\ r.depth \in Nat \ {0}
  /\ IsFiniteSet(r.during) /\ now \in r.during /\ \A g \in r.during : AtHome(g)
  /\ DOMAIN r.batches \subseteq 1..3
  /\ \A b \in DOMAIN r.batches : \E g \in r.during :
       r.batches[b] = [n \in BatchOf(b, g, r.anchor, r.depth) |-> g[n]]

LEMMA HomeRows ==
  ASSUME NEW g, AtHome(g), NEW S \in SUBSET DOMAIN g
  PROVE  AreRows([n \in S |-> g[n]])
<1>1. \A n \in DOMAIN g : g[n] \in NodeRow
  BY HomeAssumption DEF AtHome, NodeRow
<1> QED
  BY <1>1 DEF AreRows, AtHome

\* Of three batches the first that has a node decides, and nothing is lost.
LEMMA FirstRowsAre ==
  ASSUME NEW batches, DOMAIN batches = 1..3, NEW a
  PROVE  /\ \A n : n \in DOMAIN Reader!FirstRows(batches, a) <=>
                     n # a /\ \E b \in 1..3 : n \in DOMAIN batches[b]
         /\ \A n \in DOMAIN Reader!FirstRows(batches, a) :
              \E b \in 1..3 : n \in DOMAIN batches[b] /\ Reader!FirstRows(batches, a)[n] = batches[b][n]
<1> DEFINE among == (UNION {DOMAIN batches[i] : i \in DOMAIN batches}) \ {a}
           IsFirst(i, n) == n \in DOMAIN batches[i] /\ \A j \in 1..i - 1 : n \notin DOMAIN batches[j]
           first(n) == CHOOSE i \in DOMAIN batches : IsFirst(i, n)
<1>1. Reader!FirstRows(batches, a) = [n \in among |-> batches[first(n)][n]]
  BY DEF Reader!FirstRows
<1>2. \A n : n \in among <=> n # a /\ \E b \in 1..3 : n \in DOMAIN batches[b]
  OBVIOUS
<1>3. ASSUME NEW n \in among PROVE \E i \in DOMAIN batches : IsFirst(i, n)
  <2> DEFINE M == {i \in 1..3 : n \in DOMAIN batches[i]}
  <2>1. M \in SUBSET Nat /\ M # {}
    BY <1>2
  <2> HIDE DEF M
  <2>2. PICK i \in M : \A k \in M : i <= k
    BY <2>1, LeastNat
  <2>3. \A j \in 1..i - 1 : j \notin M
    BY <2>1, <2>2
  <2>4. i \in 1..3 /\ n \in DOMAIN batches[i] /\ \A j \in 1..i - 1 : j \in 1..3
    BY DEF M
  <2> QED
    BY <2>3, <2>4 DEF M
<1> HIDE DEF among
<1>4. \A n \in among : first(n) \in 1..3 /\ n \in DOMAIN batches[first(n)]
  <2> SUFFICES ASSUME NEW n \in among PROVE first(n) \in 1..3 /\ n \in DOMAIN batches[first(n)]
    OBVIOUS
  <2>1. first(n) \in DOMAIN batches /\ IsFirst(first(n), n)
    BY <1>3
  <2> QED
    BY <2>1
<1> HIDE DEF first
<1> QED
  BY <1>1, <1>2, <1>4

\* FetchSees of one answer, and of one tree.
SeesIn(asked, found, during) ==
  /\ \A n \in DOMAIN found : \E g \in during :
       n \in Reader!ContextIn(g, asked.anchor, asked.depth) /\ g[n] = found[n]
  /\ Cardinality(during) = 1 =>
       \A g \in during : DOMAIN found = Reader!ContextIn(g, asked.anchor, asked.depth)

ShowsIn(found, root, depth, g) ==
  found = [n \in {m \in TreeOf(g, root) : Depth(g, m) - TreeBase(g, root) <= depth} |->
             Depth(g, n) - TreeBase(g, root)]

ReadRight(r) ==
  /\ r.step = "answered" => FitsIn(r.kind, r.asked, r.found, r.list)
  /\ r.step = "answered" /\ r.kind = "fetch" => SeesIn(r.asked, r.found, r.during)
  /\ r.step = "shown" => \A g \in r.during : ShowsIn(r.found, r.root, r.depth, g)

LEMMA SeesTreeIs ==
  ASSUME NEW g
  PROVE  Reader!SeesTree(g) <=> ShowsIn(read.found, read.root, read.depth, g)
<1>1. \A m : Reader!Cardinality(Reader!Above(g, m)) = Depth(g, m)
  BY SameCount DEF Depth
<1> QED
  BY <1>1 DEF Reader!SeesTree, ShowsIn, TreeOf, TreeBase, Reader!NoNode, NoNode

LEMMA ReadRightIs == ReadRight(read) <=> Reader!FetchFits /\ Reader!FetchSees
<1>1. Reader!SeesContext <=> SeesIn(read.asked, read.found, read.during)
  <2>1. Reader!Cardinality(read.during) = Cardinality(read.during)
    BY SameCount
  <2> QED
    BY <2>1 DEF Reader!SeesContext, SeesIn
<1>2. (\A g \in read.during : Reader!SeesTree(g)) <=>
      (\A g \in read.during : ShowsIn(read.found, read.root, read.depth, g))
  BY SeesTreeIs
<1> QED
  BY <1>1, <1>2, FitsIs DEF ReadRight, Reader!FetchSees

LEMMA ContextRight ==
  ASSUME NEW r, NEW now, CollectInv(r, now), DOMAIN r.batches = 1..3,
         NEW rows, rows = Reader!FirstRows(r.batches, r.anchor)
  PROVE  AreRows(rows) /\ r.anchor \notin DOMAIN rows /\ SeesIn(r, rows, r.during)
<1> DEFINE Around(b, g) == BatchOf(b, g, r.anchor, r.depth)
           ReadFrom(b, g) == r.batches[b] = [n \in Around(b, g) |-> g[n]]
<1>1. /\ r.anchor \in NodeId /\ r.depth \in Nat \ {0} /\ IsFiniteSet(r.during)
      /\ \A g \in r.during : AtHome(g)
      /\ \A b \in 1..3 : \E g \in r.during : ReadFrom(b, g)
  BY DEF CollectInv
<1>2. /\ \A n : n \in DOMAIN rows <=> n # r.anchor /\ \E b \in 1..3 : n \in DOMAIN r.batches[b]
      /\ \A n \in DOMAIN rows : \E b \in 1..3 : n \in DOMAIN r.batches[b] /\ rows[n] = r.batches[b][n]
  BY FirstRowsAre
<1>3. ASSUME NEW b \in 1..3, NEW g \in r.during, ReadFrom(b, g)
      PROVE  DOMAIN r.batches[b] = Around(b, g) /\ \A n \in Around(b, g) : r.batches[b][n] = g[n]
  BY <1>3
<1>4. ASSUME NEW g \in r.during
      PROVE  /\ \A b \in 1..3 : Around(b, g) \subseteq DOMAIN g
             /\ \A n : n \in Reader!ContextIn(g, r.anchor, r.depth) <=>
                         n # r.anchor /\ \E b \in 1..3 : n \in Around(b, g)
  <2>1. /\ \A b \in 1..3 : Around(b, g) \subseteq DOMAIN g
        /\ UNION {Around(b, g) \ {r.anchor} : b \in 1..3} = Reader!ContextIn(g, r.anchor, r.depth)
    BY <1>1, BatchIs
  <2> HIDE DEF Around
  <2> QED
    BY <2>1
<1>5. ASSUME NEW n \in DOMAIN rows
      PROVE  \E g \in r.during : n \in DOMAIN g /\ n \in Reader!ContextIn(g, r.anchor, r.depth) /\ g[n] = rows[n]
  <2>1. PICK b \in 1..3 : n \in DOMAIN r.batches[b] /\ rows[n] = r.batches[b][n]
    BY <1>2
  <2>2. PICK g \in r.during : ReadFrom(b, g)
    BY <1>1
  <2>3. n \in Around(b, g) /\ rows[n] = g[n]
    BY <1>3, <2>1, <2>2
  <2>4. n # r.anchor
    BY <1>2
  <2> HIDE DEF Around
  <2> QED
    BY <1>4, <2>3, <2>4
<1>6. AreRows(rows)
  <2>1. ASSUME NEW n \in DOMAIN rows PROVE n \in NodeId /\ rows[n] \in NodeRow
    <3>1. PICK g \in r.during : n \in DOMAIN g /\ g[n] = rows[n]
      BY <1>5
    <3>2. AtHome(g)
      BY <1>1
    <3> QED
      BY <3>1, <3>2, HomeAssumption DEF AtHome, NodeRow
  <2> QED
    BY <2>1 DEF AreRows
<1>7. r.anchor \notin DOMAIN rows
  BY <1>2
<1>8. ASSUME Cardinality(r.during) = 1, NEW g \in r.during
      PROVE  DOMAIN rows = Reader!ContextIn(g, r.anchor, r.depth)
  <2>1. r.during = {g}
    BY <1>1, <1>8, FS_Singleton
  <2>2. \A b \in 1..3 : DOMAIN r.batches[b] = Around(b, g)
    BY <1>1, <1>3, <2>1
  <2> HIDE DEF Around
  <2>3. \A n : n \in DOMAIN rows <=> n \in Reader!ContextIn(g, r.anchor, r.depth)
    BY <1>2, <1>4, <2>2
  <2> QED
    BY <2>3
<1>9. SeesIn(r, rows, r.during)
  BY <1>5, <1>8 DEF SeesIn
<1> QED
  BY <1>6, <1>7, <1>9

-----------------------------------------------------------------------------
(* Every step of a reader, and of the store below it.                      *)

ReaderInv(r, now) == (r.step = "collect" => CollectInv(r, now)) /\ ReadRight(r)

LEMMA RestingRight == ASSUME NEW now PROVE ReaderInv(Reader!Resting, now)
BY DEF ReaderInv, Reader!Resting, ReadRight

LEMMA AnsweredRight ==
  ASSUME NEW kind, NEW asked, NEW found, NEW list, NEW during, NEW now,
         FitsIn(kind, asked, found, list), kind = "fetch" => SeesIn(asked, found, during)
  PROVE  ReaderInv([step |-> "answered", kind |-> kind, asked |-> asked, found |-> found,
                    list |-> list, during |-> during], now)
BY DEF ReaderInv, ReadRight

LEMMA FetchKeeps ==
  ASSUME AtHome(nodes), NEW n, NEW b \in Budgets, NEW d \in Depths, Reader!Fetch(n, b, d)
  PROVE  ReaderInv(read', nodes')
<1> DEFINE depth == Reader!Clamp(d, MaxDepth)
           r == [step |-> "collect", anchor |-> n, row |-> nodes[n], budget |-> b, depth |-> depth,
                 batches |-> [c \in {} |-> Reader!EmptyGraph], during |-> {nodes}]
<1>1. n \in DOMAIN nodes /\ read' = r /\ nodes' = nodes
  BY DEF Reader!Fetch
<1>2. depth \in Nat \ {0} /\ b \in Nat
  BY ReaderAssumption DEF Reader!Clamp
<1>3. n \in NodeId /\ nodes[n] \in NodeRow
  BY <1>1, HomeAssumption DEF AtHome, NodeRow
<1>4. IsFiniteSet({nodes})
  BY FS_Singleton
<1> HIDE DEF depth
<1>5. CollectInv(r, nodes)
  BY <1>2, <1>3, <1>4 DEF CollectInv
<1>6. r.step = "collect"
  OBVIOUS
<1> HIDE DEF r
<1> QED
  BY <1>1, <1>5, <1>6 DEF ReaderInv, ReadRight

LEMMA CollectKeeps ==
  ASSUME AtHome(nodes), ReaderInv(read, nodes), NEW b \in 1..3, Reader!Collect(b)
  PROVE  ReaderInv(read', nodes')
<1>1. CollectInv(read, nodes) /\ b \notin DOMAIN read.batches /\ nodes' = nodes
  BY DEF Reader!Collect, ReaderInv
<1> DEFINE batch == [n \in BatchOf(b, nodes, read.anchor, read.depth) |-> nodes[n]]
           batches == [c \in DOMAIN read.batches \cup {b} |-> IF c = b THEN batch ELSE read.batches[c]]
<1>2. Reader!Rows(nodes, Reader!Batch(b)) = batch
  BY DEF Reader!Batch, BatchOf, Reader!Rows, Reader!Restrict
<1> HIDE DEF batch
<1>3. read' = [read EXCEPT !.batches = batches]
  BY <1>2 DEF Reader!Collect
<1>4. /\ DOMAIN batches \subseteq 1..3 /\ nodes \in read.during
      /\ batches[b] = batch
      /\ \A c \in DOMAIN batches : c # b => c \in DOMAIN read.batches /\ batches[c] = read.batches[c]
  BY <1>1 DEF CollectInv
<1>5. \A c \in DOMAIN batches : \E g \in read.during :
         batches[c] = [n \in BatchOf(c, g, read.anchor, read.depth) |-> g[n]]
  <2> SUFFICES ASSUME NEW c \in DOMAIN batches
               PROVE  \E g \in read.during :
                        batches[c] = [n \in BatchOf(c, g, read.anchor, read.depth) |-> g[n]]
    OBVIOUS
  <2>1. CASE c = b
    BY <1>4, <2>1 DEF batch
  <2>2. CASE c # b
    <3> HIDE DEF batches
    <3>1. c \in DOMAIN read.batches /\ batches[c] = read.batches[c]
      BY <1>4, <2>2
    <3> QED
      BY <1>1, <3>1 DEF CollectInv
  <2> QED
    BY <2>1, <2>2
<1> HIDE DEF batches
<1>6. /\ read.step = "collect"
      /\ read = [step |-> "collect", anchor |-> read.anchor, row |-> read.row, budget |-> read.budget,
                 depth |-> read.depth, batches |-> read.batches, during |-> read.during]
  BY <1>1 DEF CollectInv, Reader!Collect
<1>7. read' = [step |-> "collect", anchor |-> read.anchor, row |-> read.row, budget |-> read.budget,
               depth |-> read.depth, batches |-> batches, during |-> read.during]
  BY <1>3, <1>6
<1>8. /\ read'.step = "collect" /\ read'.anchor = read.anchor /\ read'.row = read.row /\ read'.budget = read.budget
      /\ read'.depth = read.depth /\ read'.batches = batches /\ read'.during = read.during
  BY <1>7
<1>9. CollectInv(read', nodes)
  BY <1>1, <1>4, <1>5, <1>7, <1>8 DEF CollectInv
<1> QED
  BY <1>1, <1>8, <1>9 DEF ReaderInv, ReadRight

LEMMA AnswerFetchKeeps ==
  ASSUME ReaderInv(read, nodes), Reader!AnswerFetch
  PROVE  ReaderInv(read', nodes')
<1> DEFINE rows == Reader!FirstRows(read.batches, read.anchor)
           last == [node |-> read.anchor, row |-> read.row]
           Cut(list) == IF read.budget = 0 THEN list ELSE Reader!FillBudget(list, Reader!Remaining)
           Answer(list) == [step |-> "answered", kind |-> "fetch", asked |-> read, found |-> rows,
                            list |-> Append(Reader!Reverse(Cut(list)), last), during |-> read.during]
<1>1. CollectInv(read, nodes) /\ DOMAIN read.batches = 1..3
  BY DEF Reader!AnswerFetch, ReaderInv
<1>2. PICK list \in Reader!Ranked(rows) : read' = Answer(list)
  BY DEF Reader!AnswerFetch, Reader!Answers
<1>3. AreRows(rows) /\ read.anchor \notin DOMAIN rows /\ SeesIn(read, rows, read.during)
  BY <1>1, ContextRight
<1>4. read.anchor \in NodeId /\ read.row \in NodeRow /\ read.budget \in Nat
  BY <1>1 DEF CollectInv
<1>5. Reader!Remaining = Room(read.budget, read.row) /\ Reader!Remaining \in Nat
  <2>1. Reader!Tokens(read.row) \in Nat
    BY <1>4, ReaderAssumption DEF NodeRow, Reader!Tokens
  <2> QED
    BY <1>4, <2>1 DEF Reader!Remaining, Room
<1> HIDE DEF rows
<1>6. Chosen(Cut(list), rows, read.budget = 0, Room(read.budget, read.row))
  <2>1. CASE read.budget = 0
    <3>1. Chosen(list, rows, TRUE, 0)
      BY <1>2, <1>3, RankedIs
    <3>2. Cut(list) = list
      BY <2>1
    <3> QED
      BY <2>1, <3>1, <3>2 DEF Chosen
  <2>2. CASE read.budget # 0
    <3>1. Chosen(Reader!FillBudget(list, Reader!Remaining), rows, FALSE, Reader!Remaining)
      BY <1>2, <1>3, <1>5, CutIs
    <3>2. Cut(list) = Reader!FillBudget(list, Reader!Remaining)
      BY <2>2
    <3> QED
      BY <1>5, <2>2, <3>1, <3>2 DEF Chosen
  <2> QED
    BY <2>1, <2>2
<1>7. Chosen(Reader!Reverse(Cut(list)), rows, read.budget = 0, Room(read.budget, read.row))
  <2> HIDE DEF Cut
  <2> QED
    BY <1>6, ReverseChosen
<1>8. FitsIn("fetch", read, rows, Append(Reader!Reverse(Cut(list)), last))
  <2> HIDE DEF Cut
  <2> QED
    BY <1>3, <1>4, <1>7, ContextFits
<1> HIDE DEF Cut, last
<1>9. ReaderInv(Answer(list), nodes')
  BY <1>3, <1>8, AnsweredRight
<1> HIDE DEF Answer
<1> QED
  BY <1>2, <1>9

\* A list a batch or a search answers with.
LEMMA WithinIs ==
  ASSUME NEW rows, AreRows(rows), NEW list \in Reader!Ranked(rows), NEW budget \in Nat
  PROVE  Chosen(Reader!Within(list, budget), rows, budget = 0, budget)
<1>1. CASE budget = 0
  <2>1. Chosen(list, rows, TRUE, 0)
    BY RankedIs
  <2> QED
    BY <1>1, <2>1 DEF Chosen, Reader!Within
<1>2. CASE budget # 0
  <2>1. Chosen(Reader!FillBudget(list, budget), rows, FALSE, budget)
    BY CutIs
  <2> QED
    BY <1>2, <2>1 DEF Chosen, Reader!Within
<1> QED
  BY <1>1, <1>2

LEMMA FetchBatchKeeps ==
  ASSUME AtHome(nodes), NEW ids, NEW b \in Budgets, Reader!FetchBatch(ids, b)
  PROVE  ReaderInv(read', nodes')
<1> DEFINE found == [n \in ids \cap DOMAIN nodes |-> nodes[n]]
           asked == [ids |-> ids, budget |-> b]
           Answer(list) == [step |-> "answered", kind |-> "batch", asked |-> asked, found |-> found,
                            list |-> Reader!Within(list, b), during |-> {nodes}]
<1>1. PICK list \in Reader!Ranked(found) : read' = Answer(list)
  BY DEF Reader!FetchBatch, Reader!Answers
<1>2. AreRows(found)
  BY HomeRows
<1>3. b \in Nat /\ asked.budget = b
  BY ReaderAssumption
<1> HIDE DEF found, asked
<1>4. Chosen(Reader!Within(list, b), found, asked.budget = 0, asked.budget)
  BY <1>1, <1>2, <1>3, WithinIs
<1>5. FitsIn("batch", asked, found, Reader!Within(list, b))
  BY <1>2, <1>3, <1>4, ListFits
<1>6. ReaderInv(Answer(list), nodes')
  BY <1>5, AnsweredRight
<1> HIDE DEF Answer
<1> QED
  BY <1>1, <1>6

LEMMA SearchKeeps ==
  ASSUME AtHome(nodes), NEW matching, NEW b \in Budgets, NEW hits, Reader!Search(matching, hits, b)
  PROVE  ReaderInv(read', nodes')
<1> DEFINE found == [n \in hits |-> nodes[n]]
           asked == [ids |-> hits, budget |-> b]
           Answer(list) == [step |-> "answered", kind |-> "search", asked |-> asked, found |-> found,
                            list |-> Reader!Reverse(Reader!Within(list, b)), during |-> {nodes}]
<1>1. Reader!Rows(nodes, hits) = found /\ hits \subseteq DOMAIN nodes
  BY DEF Reader!Search, Reader!Rows, Reader!Restrict
<1>2. PICK list \in Reader!Ranked(found) : read' = Answer(list)
  <2> HIDE DEF found
  <2> QED
    BY <1>1 DEF Reader!Search, Reader!Answers
<1>3. AreRows(found)
  BY <1>1, HomeRows
<1>4. b \in Nat /\ asked.budget = b
  BY ReaderAssumption
<1> HIDE DEF found, asked
<1>5. Chosen(Reader!Within(list, b), found, asked.budget = 0, asked.budget)
  BY <1>2, <1>3, <1>4, WithinIs
<1>6. Chosen(Reader!Reverse(Reader!Within(list, b)), found, asked.budget = 0, asked.budget)
  BY <1>5, ReverseChosen
<1>7. FitsIn("search", asked, found, Reader!Reverse(Reader!Within(list, b)))
  BY <1>3, <1>4, <1>6, ListFits
<1>8. ReaderInv(Answer(list), nodes')
  BY <1>7, AnsweredRight
<1> HIDE DEF Answer
<1> QED
  BY <1>2, <1>8

LEMMA TreeKeeps ==
  ASSUME AtHome(nodes), NEW root, NEW d \in Depths, Reader!Tree(root, d)
  PROVE  ReaderInv(read', nodes')
<1> DEFINE depth == Reader!Clamp(d, TreeDepth)
           found == Reader!Walk(nodes, Roots(nodes, root), depth)
           r == [step |-> "shown", root |-> root, depth |-> depth, during |-> {nodes}, found |-> found]
<1>1. root \in DOMAIN nodes \cup {NoNode} /\ read' = r /\ nodes' = nodes
  BY DEF Reader!Tree, Roots, Reader!NoNode, NoNode
<1>2. depth \in Nat
  BY ReaderAssumption DEF Reader!Clamp
<1> HIDE DEF depth
<1>3. ShowsIn(found, root, depth, nodes)
  BY <1>1, <1>2, WalkIs DEF ShowsIn
<1> HIDE DEF found
<1>4. ReaderInv(r, nodes)
  BY <1>3 DEF ReaderInv, ReadRight
<1> HIDE DEF r
<1> QED
  BY <1>1, <1>4

\* What a commit changes is one more state the fetch ran over.
LEMMA WatchKeeps ==
  ASSUME AtHome(nodes'), ReaderInv(read, nodes), Reader!Watch
  PROVE  ReaderInv(read', nodes')
<1>1. CASE read.step # "collect"
  BY <1>1 DEF Reader!Watch, ReaderInv
<1>2. CASE read.step = "collect"
  <2>1. CollectInv(read, nodes) /\ read' = [read EXCEPT !.during = read.during \cup {nodes'}]
    BY <1>2 DEF Reader!Watch, ReaderInv
  <2> DEFINE during == read.during \cup {nodes'}
  <2>2. read = [step |-> "collect", anchor |-> read.anchor, row |-> read.row, budget |-> read.budget,
                depth |-> read.depth, batches |-> read.batches, during |-> read.during]
    BY <2>1 DEF CollectInv
  <2>3. read' = [step |-> "collect", anchor |-> read.anchor, row |-> read.row, budget |-> read.budget,
                 depth |-> read.depth, batches |-> read.batches, during |-> during]
    BY <2>1, <2>2
  <2>4. IsFiniteSet(during) /\ nodes' \in during /\ \A g \in during : AtHome(g)
    BY <2>1, FS_AddElement DEF CollectInv
  <2>5. \A b \in DOMAIN read.batches : \E g \in during :
          read.batches[b] = [n \in BatchOf(b, g, read.anchor, read.depth) |-> g[n]]
    BY <2>1 DEF CollectInv
  <2> HIDE DEF during
  <2>6. /\ read'.step = "collect" /\ read'.anchor = read.anchor /\ read'.row = read.row
        /\ read'.budget = read.budget /\ read'.depth = read.depth
        /\ read'.batches = read.batches /\ read'.during = during
    BY <2>3
  <2>7. CollectInv(read', nodes')
    <3>1. PICK r, now : r = read' /\ now = nodes'
      OBVIOUS
    <3>2. /\ r = [step |-> "collect", anchor |-> r.anchor, row |-> r.row, budget |-> r.budget,
                  depth |-> r.depth, batches |-> r.batches, during |-> r.during]
          /\ r.anchor \in NodeId /\ r.row \in NodeRow /\ r.budget \in Nat /\ r.depth \in Nat \ {0}
          /\ DOMAIN r.batches \subseteq 1..3
      BY <2>1, <2>3, <2>6, <3>1 DEF CollectInv
    <3>3. IsFiniteSet(r.during) /\ now \in r.during /\ \A g \in r.during : AtHome(g)
      BY <2>4, <2>6, <3>1
    <3>4. \A b \in DOMAIN r.batches : \E g \in r.during :
            r.batches[b] = [n \in BatchOf(b, g, r.anchor, r.depth) |-> g[n]]
      BY <2>5, <2>6, <3>1
    <3>5. CollectInv(r, now)
      BY <3>2, <3>3, <3>4 DEF CollectInv
    <3> QED
      BY <3>1, <3>5
  <2> QED
    BY <2>6, <2>7 DEF ReaderInv, ReadRight
<1> QED
  BY <1>1, <1>2

LEMMA ReaderInvNext ==
  ASSUME CompileInv, CompileInv', ReaderInv(read, nodes), [Next]_workspaceVars
  PROVE  ReaderInv(read', nodes')
<1>1. AtHome(nodes) /\ AtHome(nodes')
  BY DEF CompileInv, StoreInv
<1>2. ASSUME read' = read, nodes' = nodes PROVE ReaderInv(read', nodes')
  BY <1>2
<1>3. CASE UNCHANGED workspaceVars
  BY <1>2, <1>3 DEF workspaceVars, compileVars
<1>4. CASE Environment /\ UNCHANGED read
  <2>1. nodes' = nodes
    BY <1>4 DEF Environment, Edit, EditConfig, SetPinned, StartDir, InitialCompile, StartRescan, Begins
  <2> QED
    BY <1>2, <1>4, <2>1
<1>5. CASE Compiling /\ Reader!Watch
  BY <1>1, <1>5, WatchKeeps
<1>6. CASE CallReader
  <2>1. CASE \E n \in Anchors : \E b \in Budgets : \E d \in Depths : Reader!Fetch(n, b, d)
    BY <1>1, <2>1, FetchKeeps
  <2>2. CASE \E n \in Anchors \cup {Reader!NoNode} : \E d \in Depths : Reader!Tree(n, d)
    BY <1>1, <2>2, TreeKeeps
  <2>3. CASE \E ids \in Asks : \E b \in Budgets : Reader!FetchBatch(ids, b)
    BY <1>1, <2>3, FetchBatchKeeps
  <2>4. CASE \E ids \in Asks : \E b \in Budgets : \E hits \in SUBSET ids : Reader!Search(ids, hits, b)
    BY <1>1, <2>4, SearchKeeps
  <2> QED
    BY <1>6, <2>1, <2>2, <2>3, <2>4 DEF CallReader, Reader!StartRead
<1>7. CASE ReaderStep
  <2>1. CASE \E b \in 1..3 : Reader!Collect(b)
    BY <1>1, <2>1, CollectKeeps
  <2>2. CASE Reader!AnswerFetch
    BY <2>2, AnswerFetchKeeps
  <2>3. CASE Reader!FailFetch \/ Reader!Boost \/ Reader!EndTree
    <3>1. read' = Reader!Resting
      BY <2>3 DEF Reader!FailFetch, Reader!Boost, Reader!EndTree
    <3> QED
      BY <3>1, RestingRight
  <2> QED
    BY <1>7, <2>1, <2>2, <2>3 DEF ReaderStep, Reader!Reads
<1> QED
  BY <1>3, <1>4, <1>5, <1>6, <1>7 DEF Next

ReadInv == ReaderInv(read, nodes)

LEMMA ReadInvHolds == Spec => []ReadInv
<1>1. Init => ReadInv
  BY RestingRight DEF Init, Reader!ReadInit, ReadInv
<1>2. CompileInv /\ CompileInv' /\ ReadInv /\ [Next]_workspaceVars => ReadInv'
  BY ReaderInvNext DEF ReadInv
<1> QED
  BY <1>1, <1>2, CompileInvHolds, PTL DEF Spec

\* What a read under a budget answers, over however many nodes: no node twice, no more than the
\* budget unless the anchor alone is more, and nothing left out that would still have fitted.
THEOREM ReadsFit == Spec => []FetchFits
<1>1. ReadInv => FetchFits
  BY ReadRightIs DEF ReadInv, ReaderInv, FetchFits
<1> QED
  BY <1>1, ReadInvHolds, PTL

\* What a fetch returns was stored, as it was and around its anchor, at some time while it ran,
\* and is the whole context when nothing was committed meanwhile; a tree shows every node its
\* root leads to, at its depth.
THEOREM ReadsSee == Spec => []FetchSees
<1>1. ReadInv => FetchSees
  BY ReadRightIs DEF ReadInv, ReaderInv, FetchSees
<1> QED
  BY <1>1, ReadInvHolds, PTL

-----------------------------------------------------------------------------
(* Patterns.                                                               *)

\* Where a path may go on, after a piece that the segment glob matches.
StartsOf(glob, path, rest) ==
  LET end == Len(path) + 1 IN
  IF glob = DoubleStar THEN {j \in 1..end : \E k \in j..end : k \in rest}
  ELSE {j \in 1..Len(path) : path[j] \in glob /\ j + 1 \in rest}

IsStarts(M, segments, path) ==
  /\ M \in [1..Len(segments) + 1 -> SUBSET (1..Len(path) + 1)]
  /\ M[Len(segments) + 1] = {Len(path) + 1}
  /\ \A i \in 1..Len(segments) : M[i] = StartsOf(segments[i], path, M[i + 1])

LEMMA MatchUnroll ==
  ASSUME NEW segments, NEW path, Len(segments) \in Nat, Len(path) \in Nat
  PROVE  \E M : IsStarts(M, segments, path) /\ (MatchPath(segments, path) <=> 1 \in M[1])
<1> DEFINE m == Len(segments)
           end == Len(path) + 1
           V == SUBSET (1..end)
           G == [r \in 1..m |-> [rest \in V |-> StartsOf(segments[m + 1 - r], path, rest)]]
           Eq(starts) == starts = [i \in 1..m + 1 |->
             IF i > m THEN {end}
             ELSE IF segments[i] = DoubleStar THEN {j \in 1..end : \E k \in j..end : k \in starts[i + 1]}
             ELSE {j \in 1..Len(path) : path[j] \in segments[i] /\ j + 1 \in starts[i + 1]}]
<1>1. m \in Nat /\ end \in Nat /\ end \in 1..end
  OBVIOUS
<1>2. \A glob, rest : StartsOf(glob, path, rest) \in V
  BY DEF StartsOf
<1>3. G \in [1..m -> [V -> V]] /\ {end} \in V
  BY <1>1, <1>2
<1> HIDE DEF V, G, m
<1>4. PICK e : IsSteps(e, V, {end}, m, G)
  BY <1>1, <1>3, StepByStep
<1>5. e[0] = {end} /\ \A r \in 1..m : e[r] = G[r][e[r - 1]] /\ e[r - 1] \in V
  BY <1>1, <1>4 DEF IsSteps
<1>6. \A r \in 1..m : e[r] = StartsOf(segments[m + 1 - r], path, e[r - 1])
  BY <1>5 DEF G
<1>7. PICK s : s = [i \in 1..m + 1 |-> e[m + 1 - i]]
  OBVIOUS
<1>8. s = [i \in 1..m + 1 |-> IF i > m THEN {end} ELSE StartsOf(segments[i], path, s[i + 1])]
  <2> SUFFICES ASSUME NEW i \in 1..m + 1
               PROVE  s[i] = IF i > m THEN {end} ELSE StartsOf(segments[i], path, s[i + 1])
    BY <1>7
  <2>1. CASE i > m
    <3>1. m + 1 - i = 0
      BY <1>1, <2>1
    <3> QED
      BY <1>5, <1>7, <2>1, <3>1
  <2>2. CASE ~(i > m)
    <3>1. PICK r \in 1..m : r = m + 1 - i /\ m + 1 - r = i /\ i + 1 \in 1..m + 1 /\ m + 1 - (i + 1) = r - 1
      <4>1. m + 1 - i \in 1..m /\ m + 1 - (m + 1 - i) = i /\ i + 1 \in 1..m + 1 /\ m + 1 - (i + 1) = (m + 1 - i) - 1
        BY <1>1, <2>2
      <4> QED
        BY <4>1
    <3>2. s[i] = e[r] /\ s[i + 1] = e[r - 1]
      BY <1>7, <3>1
    <3> QED
      BY <1>6, <2>2, <3>1, <3>2
  <2> QED
    BY <2>1, <2>2
<1>9. Eq(s)
  BY <1>8 DEF StartsOf
<1> DEFINE u == CHOOSE starts : Eq(starts)
<1> HIDE DEF Eq
<1>10. Eq(u)
  BY <1>9, Zenon
<1>11. MatchPath(segments, path) <=> 1 \in u[1]
  BY DEF MatchPath, Eq, m
<1> HIDE DEF u
<1>12. u = [i \in 1..m + 1 |-> IF i > m THEN {end} ELSE StartsOf(segments[i], path, u[i + 1])]
  BY <1>10 DEF Eq, StartsOf
<1>13. u[m + 1] = {end}
  <2>1. m + 1 \in 1..m + 1 /\ m + 1 > m
    BY <1>1
  <2> QED
    BY <1>12, <2>1
<1>14. \A i \in 1..m : u[i] = StartsOf(segments[i], path, u[i + 1])
  <2>1. \A i \in 1..m : i \in 1..m + 1 /\ ~(i > m)
    BY <1>1
  <2> QED
    BY <1>12, <2>1
<1>15. \A i \in 1..m + 1 : u[i] \in V
  BY <1>2, <1>3, <1>12
<1>16. IsStarts(u, segments, path)
  BY <1>12, <1>13, <1>14, <1>15 DEF IsStarts, V, m
<1> QED
  BY <1>11, <1>16

\* One piece of a path.
Piece(glob, path, i, k) == IF glob = DoubleStar THEN i <= k ELSE k = i + 1 /\ path[i] \in glob

IsCover(from, segments, path) ==
  /\ from \in [1..Len(segments) + 1 -> 1..Len(path) + 1]
  /\ from[1] = 1 /\ from[Len(segments) + 1] = Len(path) + 1
  /\ \A i \in 1..Len(segments) : Piece(segments[i], path, from[i], from[i + 1])

LEMMA CoversIs ==
  ASSUME NEW segments, NEW path, DOMAIN segments = 1..Len(segments)
  PROVE  Covers(segments, path) <=> \E from : IsCover(from, segments, path)
BY DEF Covers, IsCover, Piece

LEMMA StartsArePieces ==
  ASSUME NEW glob, NEW path, Len(path) \in Nat, NEW rest \in SUBSET (1..Len(path) + 1), NEW j
  PROVE  j \in StartsOf(glob, path, rest) <=>
           j \in 1..Len(path) + 1 /\ \E k \in rest : Piece(glob, path, j, k)
<1>1. CASE glob = DoubleStar
  <2>1. \A k \in rest : k \in 1..Len(path) + 1
    OBVIOUS
  <2>2. j \in 1..Len(path) + 1 => \A k \in rest : k \in j..Len(path) + 1 <=> j <= k
    BY <2>1
  <2> QED
    BY <1>1, <2>1, <2>2 DEF StartsOf, Piece
<1>2. CASE glob # DoubleStar
  <2>1. \A k \in rest : k \in Int /\ k <= Len(path) + 1
    OBVIOUS
  <2>2. j \in 1..Len(path) + 1 /\ j + 1 \in rest => j \in 1..Len(path)
    BY <2>1
  <2>3. j \in 1..Len(path) => j \in 1..Len(path) + 1
    OBVIOUS
  <2>4. j \in StartsOf(glob, path, rest) <=> j \in 1..Len(path) /\ path[j] \in glob /\ j + 1 \in rest
    BY <1>2 DEF StartsOf
  <2>5. \A k \in rest : Piece(glob, path, j, k) <=> k = j + 1 /\ path[j] \in glob
    BY <1>2 DEF Piece
  <2> QED
    BY <2>2, <2>3, <2>4, <2>5
<1> QED
  BY <1>1, <1>2

\* The recursion of matchPath finds the pieces there are.
LEMMA MatchesCovers ==
  ASSUME NEW segments, NEW path, Len(segments) \in Nat, Len(path) \in Nat,
         DOMAIN segments = 1..Len(segments)
  PROVE  MatchPath(segments, path) <=> Covers(segments, path)
<1>0. Len(path) + 1 \in Nat \ {0}
  OBVIOUS
<1>1. PICK m \in Nat, end \in Nat \ {0} : m = Len(segments) /\ end = Len(path) + 1
  BY <1>0
<1>2. PICK M : IsStarts(M, segments, path) /\ (MatchPath(segments, path) <=> 1 \in M[1])
  BY MatchUnroll
<1>3. M \in [1..m + 1 -> SUBSET (1..end)] /\ M[m + 1] = {end}
  BY <1>1, <1>2 DEF IsStarts
<1>4. ASSUME NEW i \in 1..m, NEW j
      PROVE  j \in M[i] <=> j \in 1..end /\ \E k \in M[i + 1] : Piece(segments[i], path, j, k)
  <2>1. i + 1 \in 1..m + 1
    BY <1>1
  <2>2. PICK rest \in SUBSET (1..end) : rest = M[i + 1]
    BY <1>3, <2>1
  <2>3. M[i] = StartsOf(segments[i], path, rest)
    BY <1>1, <1>2, <2>2 DEF IsStarts
  <2>4. rest \in SUBSET (1..Len(path) + 1)
    BY <1>1, <2>2
  <2>5. j \in StartsOf(segments[i], path, rest) <=>
          j \in 1..Len(path) + 1 /\ \E k \in rest : Piece(segments[i], path, j, k)
    BY <2>4, StartsArePieces
  <2> QED
    BY <1>1, <2>2, <2>3, <2>5
<1>5. ASSUME 1 \in M[1] PROVE \E from : IsCover(from, segments, path)
  <2> DEFINE V == 1..end
             On(i, j) == IF j \in M[i] THEN CHOOSE k \in M[i + 1] : Piece(segments[i], path, j, k) ELSE 1
             G == [i \in 1..m |-> [j \in V |-> On(i, j)]]
  <2>1. \A i \in 1..m, j \in V :
          /\ On(i, j) \in V
          /\ j \in M[i] => On(i, j) \in M[i + 1] /\ Piece(segments[i], path, j, On(i, j))
    <3> SUFFICES ASSUME NEW i \in 1..m, NEW j \in V
                 PROVE  /\ On(i, j) \in V
                        /\ j \in M[i] => On(i, j) \in M[i + 1] /\ Piece(segments[i], path, j, On(i, j))
      OBVIOUS
    <3>1. 1 \in V /\ i + 1 \in 1..m + 1
      BY <1>1
    <3>2. M[i + 1] \subseteq V
      BY <1>3, <3>1
    <3>3. j \in M[i] => \E k \in M[i + 1] : Piece(segments[i], path, j, k)
      BY <1>4
    <3> HIDE DEF V
    <3> QED
      BY <3>1, <3>2, <3>3
  <2> HIDE DEF On
  <2>2. G \in [1..m -> [V -> V]] /\ 1 \in V
    BY <1>1, <2>1
  <2> HIDE DEF G
  <2>3. PICK f : IsSteps(f, V, 1, m, G)
    BY <2>2, StepByStep
  <2>4. f \in [0..m -> V] /\ f[0] = 1 /\ \A i \in 1..m : f[i] = G[i][f[i - 1]]
    BY <2>3 DEF IsSteps
  <2>5. \A i \in 1..m : f[i - 1] \in V
    BY <2>4
  <2>6. \A i \in 1..m : f[i] = On(i, f[i - 1])
    BY <2>4, <2>5 DEF G
  <2> DEFINE S == {i \in 0..m : f[i] \in M[i + 1]}
  <2>7. 0 \in S
    BY <1>5, <2>4
  <2>8. ASSUME NEW i \in 1..m, i - 1 \in S PROVE i \in S
    <3>1. f[i - 1] \in M[i]
      <4>1. (i - 1) + 1 = i
        OBVIOUS
      <4> QED
        BY <2>8, <4>1
    <3> QED
      BY <2>1, <2>5, <2>6, <3>1
  <2> HIDE DEF S
  <2>9. \A i \in 0..m : f[i] \in M[i + 1]
    BY <1>1, <2>7, <2>8, UpTo DEF S
  <2>10. PICK from : from = [i \in 1..m + 1 |-> f[i - 1]]
    OBVIOUS
  <2>11. \A i \in 1..m + 1 : i - 1 \in 0..m /\ from[i] \in V
    BY <1>1, <2>4, <2>10
  <2>12. from[1] = 1 /\ from[m + 1] = end
    <3>1. 1 \in 1..m + 1 /\ m + 1 \in 1..m + 1 /\ (m + 1) - 1 = m /\ m \in 0..m
      BY <1>1
    <3>2. f[m] = end
      BY <1>3, <2>9, <3>1
    <3> QED
      BY <2>4, <2>10, <3>1, <3>2
  <2>13. ASSUME NEW i \in 1..m PROVE Piece(segments[i], path, from[i], from[i + 1])
    <3>1. i \in 1..m + 1 /\ i + 1 \in 1..m + 1 /\ (i + 1) - 1 = i /\ i - 1 \in 0..m /\ (i - 1) + 1 = i
      BY <1>1
    <3>2. from[i] = f[i - 1] /\ from[i + 1] = f[i]
      BY <2>10, <3>1
    <3>3. f[i - 1] \in M[i]
      BY <2>9, <3>1
    <3> QED
      BY <2>1, <2>5, <2>6, <3>2, <3>3
  <2>14. IsCover(from, segments, path)
    BY <1>1, <2>10, <2>11, <2>12, <2>13 DEF IsCover
  <2> QED
    BY <2>14
<1>6. ASSUME NEW from, IsCover(from, segments, path) PROVE 1 \in M[1]
  <2>1. /\ from \in [1..m + 1 -> 1..end]
        /\ from[1] = 1 /\ from[m + 1] = end
        /\ \A i \in 1..m : Piece(segments[i], path, from[i], from[i + 1])
    BY <1>1, <1>6 DEF IsCover
  <2> DEFINE S == {r \in 0..m : from[m + 1 - r] \in M[m + 1 - r]}
  <2>2. 0 \in S
    <3>1. m + 1 - 0 = m + 1 /\ 0 \in 0..m
      BY <1>1
    <3> QED
      BY <1>3, <2>1, <3>1
  <2>3. ASSUME NEW r \in 1..m, r - 1 \in S PROVE r \in S
    <3>1. PICK i \in 1..m : i = m + 1 - r /\ i + 1 = m + 1 - (r - 1)
      <4>1. m + 1 - r \in 1..m /\ (m + 1 - r) + 1 = m + 1 - (r - 1)
        BY <1>1
      <4> QED
        BY <4>1
    <3>2. from[i + 1] \in M[i + 1]
      BY <2>3, <3>1
    <3>3. from[i] \in 1..end
      <4>1. i \in 1..m + 1
        BY <1>1
      <4> QED
        BY <2>1, <4>1
    <3>4. from[i] \in M[i]
      BY <1>4, <2>1, <3>2, <3>3
    <3> QED
      BY <3>1, <3>4
  <2> HIDE DEF S
  <2>4. m \in S
    <3>1. m \in 0..m
      BY <1>1
    <3> QED
      BY <1>1, <2>2, <2>3, <3>1, UpTo
  <2>5. m + 1 - m = 1
    BY <1>1
  <2> QED
    BY <2>1, <2>4, <2>5 DEF S
<1> QED
  BY <1>1, <1>2, <1>5, <1>6, CoversIs

\* A pattern of one name that is not tied to the root may start at any name.
LEMMA AnywhereCovers ==
  ASSUME NEW glob, NEW path, Len(path) \in Nat \ {0}
  PROVE  Covers(<<DoubleStar, glob>>, path) <=> MatchSegment(glob, Last(path))
<1>1. PICK n \in Nat \ {0} : n = Len(path)
  OBVIOUS
<1>2. PICK s : s = <<DoubleStar, glob>>
  OBVIOUS
<1>3. Len(s) = 2 /\ DOMAIN s = 1..2 /\ s[1] = DoubleStar /\ s[2] = glob
  BY <1>2
<1>4. Last(path) = path[n]
  BY <1>1 DEF Last
<1>5. ASSUME MatchSegment(glob, Last(path)) PROVE \E from : IsCover(from, s, path)
  <2>1. PICK k \in 1..n + 1 : IF glob = DoubleStar THEN k = 1 ELSE k = n
    <3>1. 1 \in 1..n + 1 /\ n \in 1..n + 1
      OBVIOUS
    <3> QED
      BY <3>1
  <2>2. PICK from : from = [i \in 1..3 |-> IF i = 1 THEN 1 ELSE IF i = 2 THEN k ELSE n + 1]
    OBVIOUS
  <2>3. from \in [1..3 -> 1..n + 1] /\ from[1] = 1 /\ from[2] = k /\ from[3] = n + 1
    <3>1. 1 \in 1..n + 1 /\ n + 1 \in 1..n + 1
      OBVIOUS
    <3> QED
      BY <2>2, <3>1
  <2>4. Piece(DoubleStar, path, 1, k)
    BY DEF Piece
  <2>5. Piece(glob, path, k, n + 1)
    BY <1>4, <1>5, <2>1 DEF Piece, MatchSegment
  <2>6. \A i \in 1..2 : Piece(s[i], path, from[i], from[i + 1])
    <3>1. \A i \in 1..2 : i = 1 \/ i = 2
      OBVIOUS
    <3>2. 1 + 1 = 2 /\ 2 + 1 = 3
      OBVIOUS
    <3> QED
      BY <1>3, <2>3, <2>4, <2>5, <3>1, <3>2
  <2>7. Len(s) + 1 = 3 /\ Len(path) + 1 = n + 1
    BY <1>1, <1>3
  <2> QED
    BY <1>3, <2>3, <2>6, <2>7 DEF IsCover
<1>6. ASSUME NEW from, IsCover(from, s, path) PROVE MatchSegment(glob, Last(path))
  <2>1. Len(s) + 1 = 3 /\ Len(path) + 1 = n + 1
    BY <1>1, <1>3
  <2>2. /\ from \in [1..3 -> 1..n + 1] /\ from[3] = n + 1
        /\ \A i \in 1..2 : Piece(s[i], path, from[i], from[i + 1])
    BY <1>3, <1>6, <2>1 DEF IsCover
  <2>3. Piece(glob, path, from[2], n + 1)
    <3>1. 2 \in 1..2 /\ 2 + 1 = 3
      OBVIOUS
    <3> QED
      BY <1>3, <2>2, <3>1
  <2>4. from[2] \in Nat
    BY <2>2
  <2>5. CASE glob # DoubleStar
    <3>1. n + 1 = from[2] + 1 /\ path[from[2]] \in glob
      BY <2>3, <2>5 DEF Piece
    <3>2. from[2] = n
      BY <2>4, <3>1
    <3> QED
      BY <1>4, <3>1, <3>2 DEF MatchSegment
  <2> QED
    BY <2>5 DEF MatchSegment
<1>7. Covers(s, path) <=> \E from : IsCover(from, s, path)
  BY <1>3, CoversIs
<1> QED
  BY <1>2, <1>5, <1>6, <1>7

\* What Said takes a pattern to name.
Named(p, path, isDir) ==
  /\ p.dirOnly => isDir
  /\ Covers(IF p.anchored THEN p.segments ELSE <<DoubleStar>> \o p.segments, path)

Hit(p, path, isDir) == (p.dirOnly => isDir) /\ MatchPattern(p, path)

LEMMA PairIs ==
  ASSUME NEW a, NEW b
  PROVE  <<a>> \o <<b>> = <<a, b>>
<1> DEFINE S == {a, b}
<1>1. <<a>> \in Seq(S) /\ <<b>> \in Seq(S) /\ <<a, b>> \in Seq(S)
  OBVIOUS
<1> HIDE DEF S
<1>2. Len(<<a>> \o <<b>>) = 2 /\ Len(<<a, b>>) = 2 /\ <<a>> \o <<b>> \in Seq(S)
  BY <1>1
<1>3. \A i \in 1..2 : (<<a>> \o <<b>>)[i] = <<a, b>>[i]
  BY <1>1
<1> QED
  BY <1>1, <1>2, <1>3, SeqEqual

LEMMA HitsAreNamed ==
  ASSUME NEW p, IsSequence(p.segments), p.segments # <<>>, p.anchored \/ Len(p.segments) = 1,
         NEW path, Len(path) \in Nat \ {0}, NEW isDir
  PROVE  Hit(p, path, isDir) <=> Named(p, path, isDir)
<1>1. PICK s, S : s = p.segments /\ S = ToSet(p.segments) /\ s \in Seq(S)
  BY DEF IsSequence
<1>2. Len(s) \in Nat /\ DOMAIN s = 1..Len(s)
  BY <1>1
<1>3. CASE p.anchored
  <2>1. MatchPath(s, path) <=> Covers(s, path)
    BY <1>2, MatchesCovers
  <2> QED
    BY <1>1, <1>3, <2>1 DEF Hit, Named, MatchPattern
<1>4. CASE ~p.anchored
  <2>1. Len(s) = 1
    BY <1>1, <1>4
  <2>2. PICK glob : glob = s[1]
    OBVIOUS
  <2>3. <<DoubleStar>> \o s = <<DoubleStar, glob>>
    <3>1. s = <<glob>>
      BY <1>1, <2>1, <2>2
    <3>2. <<DoubleStar>> \o <<glob>> = <<DoubleStar, glob>>
      BY PairIs
    <3> QED
      BY <3>1, <3>2
  <2>4. Covers(<<DoubleStar, glob>>, path) <=> MatchSegment(glob, Last(path))
    BY AnywhereCovers
  <2>5. MatchPattern(p, path) <=> MatchSegment(glob, Last(path))
    BY <1>1, <1>4, <2>2 DEF MatchPattern
  <2>6. Covers(<<DoubleStar>> \o p.segments, path) <=> MatchSegment(glob, Last(path))
    BY <1>1, <2>3, <2>4
  <2> QED
    BY <1>4, <2>5, <2>6 DEF Hit, Named
<1> QED
  BY <1>3, <1>4

\* The last pattern that matches decides.
LEMMA MatchIsSaid ==
  ASSUME NEW patterns, ArePatterns(patterns), NEW path, Len(path) \in Nat \ {0}, NEW isDir
  PROVE  Match(patterns, path, isDir) <=> Said(patterns, path, isDir)
<1>1. PICK n \in Nat : n = Len(patterns) /\ DOMAIN patterns = 1..n
  <2>1. PICK S : S = ToSet(patterns) /\ patterns \in Seq(S)
    BY DEF ArePatterns, IsSequence
  <2> QED
    BY <2>1
<1>2. \A i \in 1..n : Hit(patterns[i], path, isDir) <=> Named(patterns[i], path, isDir)
  BY <1>1, HitsAreNamed DEF ArePatterns
<1>3. PICK hits : hits = {i \in 1..n : Hit(patterns[i], path, isDir)}
  OBVIOUS
<1>4. Match(patterns, path, isDir) <=> hits # {} /\ ~patterns[Max(hits)].negated
  BY <1>1, <1>3 DEF Match, Hit
<1>5. Said(patterns, path, isDir) <=>
        \E i \in 1..n : /\ Named(patterns[i], path, isDir) /\ ~patterns[i].negated
                        /\ \A j \in i + 1..n : ~Named(patterns[j], path, isDir)
  BY <1>1 DEF Said, Named
<1>6. CASE hits = {}
  BY <1>2, <1>3, <1>4, <1>5, <1>6
<1>7. CASE hits # {}
  <2>1. \E m \in hits : \A i \in hits : m >= i
    <3> DEFINE T == {n - i : i \in hits}
    <3>1. T \in SUBSET Nat /\ T # {}
      <4>1. \A i \in hits : n - i \in Nat
        BY <1>3
      <4> QED
        BY <1>7, <4>1
    <3>2. PICK t \in T : \A u \in T : t <= u
      BY <3>1, LeastNat
    <3>3. PICK m \in hits : t = n - m
      BY <3>2
    <3>4. ASSUME NEW i \in hits PROVE m >= i
      <4>1. n - m <= n - i /\ m \in Nat /\ i \in Nat
        BY <1>3, <3>2, <3>3
      <4> QED
        BY <4>1
    <3> QED
      BY <3>4
  <2>2. PICK m : m = Max(hits)
    OBVIOUS
  <2>3. m \in hits /\ \A i \in hits : m >= i
    BY <2>1, <2>2 DEF Max
  <2>4. \A i \in 1..n : Named(patterns[i], path, isDir) <=> i \in hits
    BY <1>2, <1>3
  <2>5. ASSUME NEW i \in hits, \A j \in i + 1..n : j \notin hits PROVE i = m
    <3>1. i \in 1..n /\ m \in 1..n /\ m >= i
      BY <1>3, <2>3
    <3>2. ~(m \in i + 1..n)
      BY <2>3, <2>5
    <3> QED
      BY <3>1, <3>2
  <2>6. \A j \in m + 1..n : j \in 1..n /\ j \notin hits
    <3> SUFFICES ASSUME NEW j \in m + 1..n PROVE j \in 1..n /\ j \notin hits
      OBVIOUS
    <3>1. m \in 1..n
      BY <1>3, <2>3
    <3>2. j \in 1..n /\ ~(m >= j)
      BY <3>1
    <3> QED
      BY <2>3, <3>2
  <2>7. m \in 1..n /\ \A i \in 1..n : \A j \in i + 1..n : j \in 1..n
    BY <1>3, <2>3
  <2>8. Said(patterns, path, isDir) <=> ~patterns[m].negated
    BY <1>3, <1>5, <2>3, <2>4, <2>5, <2>6, <2>7
  <2> QED
    BY <1>4, <1>7, <2>2, <2>8
<1> QED
  BY <1>6, <1>7

LEMMA KeptIs ==
  ASSUME config \in Configs, NEW f \in File
  PROVE  Kept(config.ignore, Path[f]) <=> ~Ignored(f)
<1>1. PICK ignore, path : ignore = config.ignore /\ path = Path[f]
  OBVIOUS
<1>2. ArePatterns(ignore) /\ IsSequence(path) /\ path # <<>>
  BY <1>1, PatternsAssumption
<1>3. PICK S : path \in Seq(S)
  BY <1>2 DEF IsSequence
<1>4. PICK n \in Nat \ {0} : n = Len(path)
  <2>1. Len(path) \in Nat /\ Len(path) # 0
    BY <1>2, <1>3
  <2> QED
    BY <2>1
<1>5. \A k \in 1..n - 1 : Len(SubSeq(path, 1, k)) \in Nat \ {0}
  <2> SUFFICES ASSUME NEW k \in 1..n - 1 PROVE Len(SubSeq(path, 1, k)) \in Nat \ {0}
    OBVIOUS
  <2>1. Len(SubSeq(path, 1, k)) = k
    BY <1>3, <1>4
  <2> QED
    BY <2>1
<1>6. \A k \in 1..n - 1 :
        Match(ignore, SubSeq(path, 1, k), TRUE) <=> Said(ignore, SubSeq(path, 1, k), TRUE)
  BY <1>2, <1>5, MatchIsSaid
<1>7. Match(ignore, path, FALSE) <=> Said(ignore, path, FALSE)
  BY <1>2, <1>4, MatchIsSaid
<1>8. Directories(path) = {SubSeq(path, 1, k) : k \in 1..n - 1}
  BY <1>4 DEF Directories
<1>9. Kept(ignore, path)
        <=> /\ \A k \in 1..n - 1 : ~Match(ignore, SubSeq(path, 1, k), TRUE)
            /\ ~Match(ignore, path, FALSE)
  BY <1>8, Zenon DEF Kept
<1>10. Ignored(f) <=> \/ Said(ignore, path, FALSE)
                     \/ \E k \in 1..n - 1 : Said(ignore, SubSeq(path, 1, k), TRUE)
  BY <1>1, <1>4, Zenon DEF Ignored
<1> QED
  BY <1>1, <1>6, <1>7, <1>9, <1>10, Zenon

LEMMA ConfigsKnown == Spec => [](config \in Configs)
<1>1. Init => config \in Configs
  BY StartsAssumption DEF Init, CompileInit
<1>2. config \in Configs /\ [Next]_workspaceVars => (config \in Configs)'
  <2> SUFFICES ASSUME config \in Configs, [Next]_workspaceVars PROVE config' \in Configs
    OBVIOUS
  <2>1. CASE UNCHANGED workspaceVars
    BY <2>1 DEF workspaceVars, compileVars
  <2>2. CASE Environment
    <3>1. ASSUME NEW c \in Configs, EditConfig(c) PROVE config' \in Configs
      BY <3>1 DEF EditConfig
    <3>2. ASSUME NEW kind, NEW reseed, StartDir(kind, reseed) PROVE config' = config
      BY <3>2 DEF StartDir, Begins
    <3> QED
      BY <2>2, <3>1, <3>2 DEF Environment, InitialCompile, Edit, SetPinned, StartRescan, Begins
  <2>3. CASE Compiling
    BY <2>3 DEF Compiling, Fail, Ends, FailFile, Begin, Read, Settled, Join, Commit, Reseed
  <2>4. CASE CallReader
    BY <2>4 DEF CallReader, Reader!StartRead, Reader!Fetch, Reader!Tree, Reader!FetchBatch,
      Reader!Search, Reader!Answers, compileVars
  <2>5. CASE ReaderStep
    BY <2>5 DEF ReaderStep, Reader!Reads, Reader!Collect, Reader!AnswerFetch, Reader!FailFetch,
      Reader!Boost, Reader!EndTree, Reader!Answers, compileVars
  <2> QED
    BY <2>1, <2>2, <2>3, <2>4, <2>5 DEF Next
<1> QED
  BY <1>1, <1>2, PTL DEF Spec

LEMMA WalkIsExact == config \in Configs /\ Next => WalkExact
<1> SUFFICES ASSUME config \in Configs, Next, job = Idle, job'.step = "read"
             PROVE  LET there == {f \in File : disk[f] # Absent /\ ~Ignored(f)}
                    IN  IF job'.kind = "rescan" THEN job'.files \subseteq there ELSE job'.files = there
  BY DEF WalkExact
<1>1. Found = {f \in File : disk[f] # Absent /\ ~Ignored(f)}
  BY KeptIs DEF Found
<1>2. job.step = "idle" /\ job' # Idle
  BY DEF Idle
<1>3. ASSUME NEW kind, NEW files, NEW seeds, NEW reseed, Begins(kind, files, seeds, reseed)
      PROVE  job'.kind = kind /\ job'.files = files
  BY <1>3 DEF Begins
<1>4. CASE Environment
  <2>1. ASSUME NEW kind \in {"cli", "tool"}, NEW reseed, StartDir(kind, reseed)
        PROVE  job'.kind # "rescan" /\ job'.files = Found
    <3>1. PICK seeds : Begins(kind, Found, seeds, reseed)
      BY <2>1 DEF StartDir
    <3> QED
      BY <1>3, <3>1
  <2>2. ASSUME NEW fs, StartRescan(fs) PROVE job'.kind = "rescan" /\ job'.files \subseteq Found
    <3>1. PICK seeds : Begins("rescan", fs, seeds, {})
      BY <2>2 DEF StartRescan
    <3> QED
      BY <1>3, <2>2, <3>1 DEF StartRescan
  <2>3. ASSUME NEW f \in File, NEW v, Edit(f, v) PROVE FALSE
    BY <1>2, <2>3 DEF Edit
  <2>4. ASSUME NEW c, EditConfig(c) PROVE FALSE
    BY <1>2, <2>4 DEF EditConfig
  <2>5. ASSUME NEW n, NEW p, NEW t, SetPinned(n, p, t) PROVE FALSE
    BY <1>2, <2>5 DEF SetPinned
  <2>6. "cli" \in {"cli", "tool"}
    OBVIOUS
  <2> QED
    BY <1>1, <1>4, <2>1, <2>2, <2>3, <2>4, <2>5, <2>6 DEF Environment, InitialCompile
<1>5. CASE Compiling
  <2>1. ~Fail /\ ~Join /\ ~Commit
    BY <1>2 DEF Fail, Join, Commit
  <2>2. \A f \in File : ~FailFile(f) /\ ~Begin(f) /\ ~Read(f)
    BY <1>2 DEF FailFile, Begin, Read, Reading
  <2> QED
    BY <1>2, <1>5, <2>1, <2>2 DEF Compiling
<1>6. CASE CallReader
  BY <1>2, <1>6 DEF CallReader, Reader!StartRead, Reader!Fetch, Reader!Tree, Reader!FetchBatch,
    Reader!Search, Reader!Answers, compileVars
<1>7. CASE ReaderStep
  BY <1>2, <1>7 DEF ReaderStep, Reader!Reads, Reader!Collect, Reader!AnswerFetch, Reader!FailFetch,
    Reader!Boost, Reader!EndTree, Reader!Answers, compileVars
<1> QED
  BY <1>4, <1>5, <1>6, <1>7 DEF Next

\* A full compile takes exactly the files that are there and that the patterns do not leave out,
\* and a rescan some of them; what it stores of each is a version the file had while the
\* compile ran, or nothing for one that was skipped, whatever is written meanwhile.
THEOREM StoresCompiled == Spec => StoredIsCompiled
<1>1. CompileInv /\ config \in Configs /\ [Next]_workspaceVars => [WalkExact /\ CommitExact]_compileVars
  BY WalkIsExact, CommitIsExact DEF workspaceVars
<1> QED
  BY <1>1, CompileInvHolds, ConfigsKnown, PTL DEF Spec, StoredIsCompiled

-----------------------------------------------------------------------------
(* Seed temperatures: the tree the keys are grafted into.                  *)

LEMMA SeqWider ==
  ASSUME NEW A, NEW B, A \subseteq B, NEW s \in Seq(A)
  PROVE  s \in Seq(B)
OBVIOUS

\* The sequence x is a proper beginning of q.
Heads(x, q) == Len(x) < Len(q) /\ \A i \in 1..Len(x) : x[i] = q[i]

LEMMA AboveHeads ==
  ASSUME NEW N, NEW q \in Seq(N), NEW x
  PROVE  x \in Above(q) <=> x \in Seq(N) /\ Heads(x, q)
<1>1. ASSUME NEW k \in 0..Len(q) - 1
      PROVE  /\ SubSeq(q, 1, k) \in Seq(N) /\ Len(SubSeq(q, 1, k)) = k /\ k < Len(q)
             /\ \A i \in 1..k : SubSeq(q, 1, k)[i] = q[i]
  OBVIOUS
<1>2. ASSUME x \in Above(q) PROVE x \in Seq(N) /\ Heads(x, q)
  BY <1>1, <1>2 DEF Above, Heads
<1>3. ASSUME x \in Seq(N), Heads(x, q) PROVE x \in Above(q)
  <2>1. Len(x) \in 0..Len(q) - 1
    BY <1>3 DEF Heads
  <2>2. x = SubSeq(q, 1, Len(x))
    <3>1. PICK t \in Seq(N) : t = SubSeq(q, 1, Len(x)) /\ Len(t) = Len(x) /\ \A i \in 1..Len(x) : t[i] = q[i]
      BY <1>1, <2>1
    <3> QED
      BY <1>3, <3>1, SeqEqual DEF Heads
  <2> QED
    BY <2>1, <2>2 DEF Above
<1> QED
  BY <1>2, <1>3

LEMMA JoinIs ==
  ASSUME NEW N, NEW key \in Seq(N), NEW p \in Seq(N)
  PROVE  /\ key \o p \in Seq(N) /\ Len(key \o p) = Len(key) + Len(p)
         /\ \A i \in 1..Len(key) : (key \o p)[i] = key[i]
         /\ \A i \in 1..Len(p) : (key \o p)[Len(key) + i] = p[i]
OBVIOUS

LEMMA RestOf ==
  ASSUME NEW N, NEW key \in Seq(N), NEW p \in Seq(N)
  PROVE  SubSeq(key \o p, Len(key) + 1, Len(key \o p)) = p
<1> DEFINE q == key \o p
<1>1. /\ q \in Seq(N) /\ Len(q) = Len(key) + Len(p)
      /\ \A i \in 1..Len(p) : q[Len(key) + i] = p[i]
  BY JoinIs
<1> HIDE DEF q
<1>2. PICK r : r = SubSeq(q, Len(key) + 1, Len(q))
  OBVIOUS
<1>3. r \in Seq(N) /\ Len(r) = Len(p) /\ \A i \in 1..Len(p) : r[i] = q[Len(key) + i]
  BY <1>1, <1>2
<1>4. \A i \in 1..Len(r) : r[i] = p[i]
  BY <1>1, <1>3
<1>5. r = p
  BY <1>3, <1>4, SeqEqual
<1> QED
  BY <1>2, <1>5 DEF q

LEMMA JoinCancels ==
  ASSUME NEW N, NEW key \in Seq(N), NEW p \in Seq(N), NEW r \in Seq(N), key \o p = key \o r
  PROVE  p = r
BY RestOf

OverNames(e, N) == e.key \in Seq(N) /\ \A p \in DOMAIN e.value : p \in Seq(N)

LEMMA NamesExist ==
  ASSUME NEW E, AreEntries(E), NEW path, IsSequence(path)
  PROVE  \E N : Star \in N /\ path \in Seq(N) /\ \A e \in E : OverNames(e, N)
<1> DEFINE names(e) == ToSet(e.key) \cup UNION {ToSet(p) : p \in DOMAIN e.value}
           N == {Star} \cup ToSet(path) \cup UNION {names(e) : e \in E}
<1>1. Star \in N /\ path \in Seq(N)
  <2>1. path \in Seq(ToSet(path)) /\ ToSet(path) \subseteq N
    BY DEF IsSequence
  <2> QED
    BY <2>1, SeqWider
<1>2. ASSUME NEW e \in E PROVE OverNames(e, N)
  <2>1. e.key \in Seq(ToSet(e.key)) /\ \A p \in DOMAIN e.value : p \in Seq(ToSet(p))
    BY DEF AreEntries, IsTree
  <2>2. ToSet(e.key) \subseteq N /\ \A p \in DOMAIN e.value : ToSet(p) \subseteq N
    OBVIOUS
  <2> HIDE DEF N
  <2>3. e.key \in Seq(N)
    BY <2>1, <2>2, SeqWider
  <2>4. ASSUME NEW p \in DOMAIN e.value PROVE p \in Seq(N)
    <3>1. p \in Seq(ToSet(p)) /\ ToSet(p) \subseteq N
      BY <2>1, <2>2
    <3> QED
      BY <3>1, SeqWider
  <2> QED
    BY <2>3, <2>4 DEF OverNames
<1> HIDE DEF N
<1> QED
  BY <1>1, <1>2

Grafted(e) == {e.key \o p : p \in DOMAIN e.value}

\* The positions an entry gives a temperature.
Warm(e) == {e.key \o p : p \in {p \in DOMAIN e.value : HasTemp(e.value, p)}}

\* What Insert makes of a tree it does not refuse.
Inserted(tree, e, t) ==
  /\ DOMAIN t = DOMAIN tree \cup Above(e.key) \cup Grafted(e)
  /\ \A p \in DOMAIN e.value : e.value[p] # NoTemp => t[e.key \o p] = e.value[p]
  /\ \A q : HasTemp(tree, q) => t[q] = tree[q]
  /\ \A q \in DOMAIN t : t[q] # NoTemp => HasTemp(tree, q) \/ q \in Warm(e)
  /\ \A q \in Above(e.key) : ~HasTemp(tree, q)
  /\ \A p \in DOMAIN e.value :
       /\ HasTemp(tree, e.key \o p) => ~HasTemp(e.value, p) /\ ~HasChildren(e.value, p)
       /\ HasTemp(e.value, p) => ~HasChildren(tree, e.key \o p)

LEMMA InsertIs ==
  ASSUME NEW N, NEW tree, NEW e, OverNames(e, N), Insert(tree, e) # Conflict
  PROVE  Inserted(tree, e, Insert(tree, e))
<1> DEFINE value(q) == e.value[SubSeq(q, Len(e.key) + 1, Len(q))]
           D == DOMAIN tree \cup Above(e.key) \cup Grafted(e)
           T == [q \in D |-> IF q \in Grafted(e) /\ value(q) # NoTemp THEN value(q)
                             ELSE IF q \in DOMAIN tree THEN tree[q] ELSE NoTemp]
<1>1. PICK t : t = Insert(tree, e)
  OBVIOUS
<1>2. (\A q \in Above(e.key) : ~HasTemp(tree, q)) /\ ~MergeConflict(tree, e.key, e.value)
  BY Zenon DEF Insert
<1>3. t = T
  BY <1>1, <1>2 DEF Insert, Grafted
<1>4. \A p \in DOMAIN e.value : value(e.key \o p) = e.value[p]
  BY RestOf DEF OverNames
<1> HIDE DEF value
<1>5. DOMAIN t = D /\ \A q \in D : t[q] = IF q \in Grafted(e) /\ value(q) # NoTemp THEN value(q)
                                         ELSE IF q \in DOMAIN tree THEN tree[q] ELSE NoTemp
  BY <1>3
<1> HIDE DEF T
<1>6. \A p \in DOMAIN e.value :
        /\ HasTemp(tree, e.key \o p) => ~HasTemp(e.value, p) /\ ~HasChildren(e.value, p)
        /\ HasTemp(e.value, p) => ~HasChildren(tree, e.key \o p)
  BY <1>2, Zenon DEF MergeConflict
<1>7. \A p \in DOMAIN e.value : e.value[p] # NoTemp => t[e.key \o p] = e.value[p]
  BY <1>4, <1>5 DEF Grafted
<1>8. ASSUME NEW q, HasTemp(tree, q) PROVE t[q] = tree[q]
  <2>1. q \in DOMAIN tree
    BY <1>8 DEF HasTemp
  <2>2. ~(q \in Grafted(e) /\ value(q) # NoTemp)
    <3> SUFFICES ASSUME q \in Grafted(e), value(q) # NoTemp PROVE FALSE
      OBVIOUS
    <3>1. PICK p \in DOMAIN e.value : q = e.key \o p
      BY DEF Grafted
    <3>2. HasTemp(e.value, p)
      BY <1>4, <3>1 DEF HasTemp
    <3> QED
      BY <1>6, <1>8, <3>1, <3>2
  <2> QED
    BY <1>5, <2>1, <2>2
<1>9. ASSUME NEW q \in DOMAIN t, t[q] # NoTemp PROVE HasTemp(tree, q) \/ q \in Warm(e)
  <2>1. CASE q \in Grafted(e) /\ value(q) # NoTemp
    <3>1. PICK p \in DOMAIN e.value : q = e.key \o p
      BY <2>1 DEF Grafted
    <3>2. HasTemp(e.value, p)
      BY <1>4, <2>1, <3>1 DEF HasTemp
    <3> QED
      BY <3>1, <3>2 DEF Warm
  <2>2. CASE ~(q \in Grafted(e) /\ value(q) # NoTemp)
    BY <1>5, <1>9, <2>2 DEF HasTemp
  <2> QED
    BY <2>1, <2>2
<1>10. Inserted(tree, e, t)
  BY <1>2, <1>5, <1>6, <1>7, <1>8, <1>9 DEF Inserted
<1> QED
  BY <1>1, <1>10

LEMMA WrittenIs ==
  ASSUME NEW E, NEW w
  PROVE  w \in Written(E) <=>
           \E e \in E : \E p \in DOMAIN e.value : e.value[p] # NoTemp /\ w = <<e.key \o p, e.value[p]>>
<1> DEFINE part(e) == {<<e.key \o p, e.value[p]>> : p \in {p \in DOMAIN e.value : e.value[p] # NoTemp}}
<1>1. Written(E) = UNION {part(e) : e \in E}
  BY DEF Written
<1>2. \A e : w \in part(e) <=>
               \E p \in DOMAIN e.value : e.value[p] # NoTemp /\ w = <<e.key \o p, e.value[p]>>
  OBVIOUS
<1> HIDE DEF part
<1> QED
  BY <1>1, <1>2

LEMMA WrittenGrows ==
  ASSUME NEW E, NEW F, E \subseteq F
  PROVE  Written(E) \subseteq Written(F)
<1> DEFINE part(e) == {<<e.key \o p, e.value[p]>> : p \in {p \in DOMAIN e.value : e.value[p] # NoTemp}}
<1>1. Written(E) = UNION {part(e) : e \in E} /\ Written(F) = UNION {part(e) : e \in F}
  BY DEF Written
<1> HIDE DEF part
<1> QED
  BY <1>1

LEMMA PositionsIs ==
  ASSUME NEW E, NEW q
  PROVE  q \in Positions(E) <=> \E e \in E : q \in Above(e.key) \/ q \in Grafted(e)
<1> DEFINE part(e) == Above(e.key) \cup Grafted(e)
<1>1. Positions(E) = UNION {part(e) : e \in E}
  BY DEF Positions, Grafted
<1>2. \A e : q \in part(e) <=> q \in Above(e.key) \/ q \in Grafted(e)
  OBVIOUS
<1> HIDE DEF part
<1> QED
  BY <1>1, <1>2

\* The tree is what the entries say, and they agree.
TreeSays(tree, E) ==
  /\ DOMAIN tree = {<<>>} \cup Positions(E)
  /\ \A q \in DOMAIN tree : tree[q] # NoTemp => <<q, tree[q]>> \in Written(E)
  /\ \A w \in Written(E) : HasTemp(tree, w[1]) /\ w[2] = tree[w[1]] /\ w = <<w[1], w[2]>>
  /\ Consistent(E)

\* What is above a grafted position is above the key, or grafted.
LEMMA AboveGrafted ==
  ASSUME NEW N, NEW e, OverNames(e, N), NEW p \in DOMAIN e.value,
         NEW x, x \in Above(e.key \o p), x \notin Above(e.key)
  PROVE  \E r \in Above(p) : x = e.key \o r
<1> DEFINE key == e.key
           q == key \o p
<1>1. key \in Seq(N) /\ p \in Seq(N) /\ Len(key) \in Nat /\ Len(p) \in Nat
  BY DEF OverNames
<1> HIDE DEF key
<1>2. \A r \in Seq(N) : /\ key \o r \in Seq(N) /\ Len(key \o r) = Len(key) + Len(r)
                        /\ \A i \in 1..Len(key) : (key \o r)[i] = key[i]
                        /\ \A i \in 1..Len(r) : (key \o r)[Len(key) + i] = r[i]
  BY <1>1, JoinIs
<1>3. /\ q \in Seq(N) /\ Len(q) = Len(key) + Len(p)
      /\ \A i \in 1..Len(key) : q[i] = key[i]
      /\ \A i \in 1..Len(p) : q[Len(key) + i] = p[i]
  BY <1>1, <1>2
<1>4. x \in Above(q) /\ x \notin Above(key)
  BY DEF key
<1> HIDE DEF q
<1>5. x \in Seq(N) /\ Len(x) \in Nat /\ Len(x) < Len(q) /\ \A i \in 1..Len(x) : x[i] = q[i]
  BY <1>3, <1>4, AboveHeads DEF Heads
<1>6. ~(Len(x) < Len(key))
  <2> SUFFICES ASSUME Len(x) < Len(key) PROVE FALSE
    OBVIOUS
  <2>1. \A i \in 1..Len(x) : x[i] = key[i]
    BY <1>1, <1>3, <1>5
  <2> QED
    BY <1>1, <1>4, <1>5, <2>1, AboveHeads DEF Heads
<1>7. PICK m \in Nat : m < Len(p) /\ Len(x) = Len(key) + m
  <2>1. Len(x) - Len(key) \in Nat /\ Len(x) - Len(key) < Len(p) /\ Len(x) = Len(key) + (Len(x) - Len(key))
    BY <1>1, <1>3, <1>5, <1>6
  <2> QED
    BY <2>1
<1>8. PICK r : r = SubSeq(p, 1, m)
  OBVIOUS
<1>9. r \in Seq(N) /\ Len(r) = m /\ \A i \in 1..m : r[i] = p[i]
  BY <1>1, <1>7, <1>8
<1>10. r \in Above(p)
  BY <1>1, <1>7, <1>9, AboveHeads DEF Heads
<1> DEFINE y == key \o r
<1>11. /\ y \in Seq(N) /\ Len(y) = Len(key) + m
       /\ \A i \in 1..Len(key) : y[i] = key[i]
       /\ \A i \in 1..m : y[Len(key) + i] = r[i]
  BY <1>2, <1>9
<1> HIDE DEF y
<1>12. ASSUME NEW i \in 1..Len(x) PROVE x[i] = y[i]
  <2>1. CASE i <= Len(key)
    BY <1>1, <1>3, <1>5, <1>11, <2>1
  <2>2. CASE i > Len(key)
    <3>1. PICK k \in 1..m : i = Len(key) + k
      <4>1. i - Len(key) \in 1..m /\ i = Len(key) + (i - Len(key))
        BY <1>1, <1>5, <1>7, <2>2
      <4> QED
        BY <4>1
    <3>2. k \in 1..Len(p)
      BY <1>1, <1>7
    <3>3. x[i] = q[Len(key) + k] /\ q[Len(key) + k] = p[k]
      BY <1>3, <1>5, <3>1, <3>2
    <3>4. y[i] = r[k] /\ r[k] = p[k]
      BY <1>9, <1>11, <3>1
    <3> QED
      BY <3>3, <3>4
  <2> QED
    BY <1>1, <1>5, <2>1, <2>2
<1>13. x = y
  BY <1>5, <1>7, <1>11, <1>12, SeqEqual
<1> QED
  BY <1>10, <1>13 DEF y, key

LEMMA WarmWritten ==
  ASSUME NEW E, NEW x
  PROVE  (\E e \in E : x \in Warm(e)) <=> \E w \in Written(E) : x = w[1]
<1>1. ASSUME NEW e \in E, x \in Warm(e) PROVE \E w \in Written(E) : x = w[1]
  <2>1. PICK p \in DOMAIN e.value : HasTemp(e.value, p) /\ x = e.key \o p
    BY <1>1 DEF Warm
  <2>2. <<x, e.value[p]>> \in Written(E)
    BY <2>1, WrittenIs DEF HasTemp
  <2> QED
    BY <2>2
<1>2. ASSUME NEW w \in Written(E), x = w[1] PROVE \E e \in E : x \in Warm(e)
  <2>1. PICK e \in E : \E p \in DOMAIN e.value : e.value[p] # NoTemp /\ w = <<e.key \o p, e.value[p]>>
    BY <1>2, WrittenIs
  <2>2. PICK p \in DOMAIN e.value : e.value[p] # NoTemp /\ w = <<e.key \o p, e.value[p]>>
    BY <2>1
  <2>3. HasTemp(e.value, p) /\ x = e.key \o p
    BY <1>2, <2>2 DEF HasTemp
  <2>4. x \in Warm(e)
    BY <2>3 DEF Warm
  <2> QED
    BY <2>4
<1> QED
  BY <1>1, <1>2

\* Consistent, position by position.
LEMMA ConsistentIs ==
  ASSUME NEW E
  PROVE  Consistent(E) <=>
           /\ \A e, d \in E : e # d => Warm(e) \cap Warm(d) = {}
           /\ \A e \in E : \A x \in Warm(e) : \A q \in Positions(E) : x \notin Above(q)
<1>1. (\A w \in Written(E) : \A q \in Positions(E) : w[1] \notin Above(q))
        <=> \A e \in E : \A x \in Warm(e) : \A q \in Positions(E) : x \notin Above(q)
  <2>1. ASSUME \A w \in Written(E) : \A q \in Positions(E) : w[1] \notin Above(q),
               NEW e \in E, NEW x \in Warm(e)
        PROVE  \A q \in Positions(E) : x \notin Above(q)
    <3>1. PICK w \in Written(E) : x = w[1]
      BY WarmWritten
    <3> QED
      BY <2>1, <3>1
  <2>2. ASSUME \A e \in E : \A x \in Warm(e) : \A q \in Positions(E) : x \notin Above(q),
               NEW w \in Written(E)
        PROVE  \A q \in Positions(E) : w[1] \notin Above(q)
    <3>1. PICK e \in E : w[1] \in Warm(e)
      BY WarmWritten
    <3> QED
      BY <2>2, <3>1
  <2> QED
    BY <2>1, <2>2
<1>2. (\A e, d \in E : e # d =>
        {e.key \o p : p \in {p \in DOMAIN e.value : HasTemp(e.value, p)}}
          \cap {d.key \o p : p \in {p \in DOMAIN d.value : HasTemp(d.value, p)}} = {})
        <=> \A e, d \in E : e # d => Warm(e) \cap Warm(d) = {}
  BY Zenon DEF Warm
<1> QED
  BY <1>1, <1>2, Zenon DEF Consistent

LEMMA InsertSays ==
  ASSUME NEW N, NEW E, \A d \in E : OverNames(d, N), NEW tree, TreeSays(tree, E),
         NEW e, e \notin E, OverNames(e, N), IsTree(e.value), NEW t, Inserted(tree, e, t)
  PROVE  TreeSays(t, E \cup {e})
<1> DEFINE F == E \cup {e}
<1>1. \A q : q \in Positions(F) <=> q \in Positions(E) \cup Above(e.key) \cup Grafted(e)
  BY PositionsIs
<1>2. DOMAIN t = {<<>>} \cup Positions(F)
  BY <1>1 DEF TreeSays, Inserted
<1>3. \A w : w \in Written(E) => w \in Written(F)
  <2>1. E \subseteq F
    OBVIOUS
  <2> HIDE DEF F
  <2> QED
    BY <2>1, WrittenGrows
<1>4. ASSUME NEW q \in DOMAIN t, t[q] # NoTemp PROVE <<q, t[q]>> \in Written(F)
  <2>1. CASE HasTemp(tree, q)
    BY <1>3, <2>1 DEF TreeSays, Inserted, HasTemp
  <2>2. CASE q \in Warm(e)
    <3>1. PICK p \in DOMAIN e.value : HasTemp(e.value, p) /\ q = e.key \o p
      BY <2>2 DEF Warm
    <3>2. t[q] = e.value[p] /\ e.value[p] # NoTemp
      BY <3>1 DEF Inserted, HasTemp
    <3> QED
      BY <3>1, <3>2, WrittenIs
  <2> QED
    BY <1>4, <2>1, <2>2 DEF Inserted
<1>5. ASSUME NEW w \in Written(F) PROVE HasTemp(t, w[1]) /\ w[2] = t[w[1]] /\ w = <<w[1], w[2]>>
  <2>0. PICK d \in F : \E p \in DOMAIN d.value : d.value[p] # NoTemp /\ w = <<d.key \o p, d.value[p]>>
    <3>1. PICK G : G = F
      OBVIOUS
    <3>2. w \in Written(G)
      BY <1>5, <3>1
    <3>3. \E d \in G : \E p \in DOMAIN d.value : d.value[p] # NoTemp /\ w = <<d.key \o p, d.value[p]>>
      BY <3>2, WrittenIs
    <3> QED
      BY <3>1, <3>3
  <2>1. PICK p \in DOMAIN d.value : d.value[p] # NoTemp /\ w = <<d.key \o p, d.value[p]>>
    BY <2>0
  <2>2. CASE d \in E
    <3>1. w \in Written(E)
      BY <2>1, <2>2, WrittenIs
    <3>2. HasTemp(tree, w[1]) /\ w[2] = tree[w[1]] /\ w = <<w[1], w[2]>>
      BY <3>1 DEF TreeSays
    <3> QED
      BY <3>2 DEF Inserted, HasTemp
  <2>3. CASE d = e
    <3>1. w[1] = e.key \o p /\ w[2] = e.value[p] /\ w = <<w[1], w[2]>>
      BY <2>1, <2>3
    <3>2. t[w[1]] = w[2] /\ w[2] # NoTemp
      BY <2>1, <2>3, <3>1 DEF Inserted
    <3>3. w[1] \in DOMAIN t
      BY <2>1, <2>3, <3>1 DEF Inserted, Grafted
    <3> QED
      BY <3>1, <3>2, <3>3 DEF HasTemp
  <2> QED
    BY <2>2, <2>3
<1>6. /\ \A a, d \in E : a # d => Warm(a) \cap Warm(d) = {}
      /\ \A d \in E : \A x \in Warm(d) : \A q \in Positions(E) : x \notin Above(q)
  BY ConsistentIs DEF TreeSays
<1>7. \A d \in E : \A x \in Warm(d) : HasTemp(tree, x)
  BY WarmWritten DEF TreeSays
<1>8. \A d \in E : Warm(d) \cap Warm(e) = {}
  BY <1>7 DEF Warm, Inserted
<1>9. ASSUME NEW q \in Positions(E) PROVE q \in Seq(N)
  <2>1. PICK d \in E : q \in Above(d.key) \/ q \in Grafted(d)
    BY <1>9, PositionsIs
  <2>2. d.key \in Seq(N) /\ \A p \in DOMAIN d.value : p \in Seq(N)
    BY DEF OverNames
  <2>3. CASE q \in Above(d.key)
    BY <2>2, <2>3, AboveHeads
  <2>4. CASE q \in Grafted(d)
    BY <2>2, <2>4, JoinIs DEF Grafted
  <2> QED
    BY <2>1, <2>3, <2>4
<1>10. e.key \in Seq(N) /\ \A p \in DOMAIN e.value : p \in Seq(N)
  BY DEF OverNames
\* Nothing new is below what had a temperature ...
<1>11. ASSUME NEW d \in E, NEW x \in Warm(d), NEW q \in Positions(F) PROVE x \notin Above(q)
  <2>1. HasTemp(tree, x)
    BY <1>7
  <2>2. x \notin Above(e.key)
    BY <2>1 DEF Inserted
  <2>3. CASE q \in Positions(E)
    BY <1>6, <2>3
  <2>4. CASE q \in Above(e.key)
    <3> SUFFICES ASSUME x \in Above(q) PROVE FALSE
      OBVIOUS
    <3>1. q \in Seq(N) /\ Heads(q, e.key)
      BY <1>10, <2>4, AboveHeads
    <3>2. x \in Seq(N) /\ Heads(x, q)
      BY <3>1, AboveHeads
    <3>3. Heads(x, e.key)
      BY <1>10, <3>1, <3>2 DEF Heads
    <3> QED
      BY <1>10, <2>2, <3>2, <3>3, AboveHeads
  <2>5. CASE q \in Grafted(e)
    <3> SUFFICES ASSUME x \in Above(q) PROVE FALSE
      OBVIOUS
    <3>1. PICK p \in DOMAIN e.value : q = e.key \o p
      BY <2>5 DEF Grafted
    <3>2. PICK r \in Above(p) : x = e.key \o r
      <4>1. x \in Above(e.key \o p)
        BY <3>1
      <4> QED
        BY <2>2, <4>1, AboveGrafted
    <3>3. r \in DOMAIN e.value /\ HasChildren(e.value, r)
      BY <3>1, <3>2 DEF IsTree, HasChildren
    <3> QED
      BY <2>1, <3>2, <3>3 DEF Inserted
  <2> QED
    BY <1>1, <2>3, <2>4, <2>5
\* ... and nothing at all below what is new.
<1>12. ASSUME NEW x \in Warm(e), NEW q \in Positions(F) PROVE x \notin Above(q)
  <2>1. PICK p \in DOMAIN e.value : HasTemp(e.value, p) /\ x = e.key \o p
    BY DEF Warm
  <2> SUFFICES ASSUME x \in Above(q) PROVE FALSE
    OBVIOUS
  <2>2. CASE q \in Positions(E)
    <3>1. HasChildren(tree, x)
      BY <2>2 DEF HasChildren, TreeSays
    <3> QED
      BY <2>1, <3>1 DEF Inserted
  <2>3. x \in Seq(N) /\ Len(x) = Len(e.key) + Len(p)
    BY <1>10, <2>1, JoinIs
  <2>4. ~(Len(x) < Len(e.key)) /\ x \notin Above(e.key)
    <3>1. Len(p) \in Nat /\ Len(e.key) \in Nat
      BY <1>10
    <3>2. ~(Len(x) < Len(e.key))
      BY <2>3, <3>1
    <3> QED
      BY <1>10, <3>2, AboveHeads DEF Heads
  <2>5. CASE q \in Above(e.key)
    <3>1. q \in Seq(N) /\ Len(q) < Len(e.key)
      BY <1>10, <2>5, AboveHeads DEF Heads
    <3>2. Len(x) < Len(q)
      BY <3>1, AboveHeads DEF Heads
    <3> QED
      BY <1>10, <2>3, <2>4, <3>1, <3>2
  <2>6. CASE q \in Grafted(e)
    <3>1. PICK s \in DOMAIN e.value : q = e.key \o s
      BY <2>6 DEF Grafted
    <3>2. PICK r \in Above(s) : x = e.key \o r
      <4>1. x \in Above(e.key \o s)
        BY <3>1
      <4> QED
        BY <2>4, <4>1, AboveGrafted
    <3>3. r \in Seq(N)
      BY <1>10, <3>1, <3>2, AboveHeads
    <3>4. r = p
      BY <1>10, <2>1, <3>2, <3>3, JoinCancels
    <3>5. HasChildren(e.value, p)
      BY <3>1, <3>2, <3>4 DEF HasChildren
    <3> QED
      BY <2>1, <3>5 DEF IsTree
  <2> QED
    BY <1>1, <2>2, <2>5, <2>6
<1>13. Consistent(F)
  <2>1. \A a, d \in F : a # d => Warm(a) \cap Warm(d) = {}
    BY <1>6, <1>8
  <2>2. \A d \in F : \A x \in Warm(d) : \A q \in Positions(F) : x \notin Above(q)
    BY <1>11, <1>12
  <2> QED
    BY <2>1, <2>2, ConsistentIs
<1> QED
  BY <1>2, <1>4, <1>5, <1>13 DEF TreeSays

LEMMA SameOrders == ASSUME NEW S PROVE Reader!SetToSeqs(S) = SetToSeqs(S)
BY SameCount DEF SetToSeqs, Reader!SetToSeqs

IsLoad(tree, order, n) ==
  /\ tree[0] = EmptyTree
  /\ \A k \in 1..n : tree[k] = Insert(tree[k - 1], order[k]) /\ tree[k] # Conflict

LEMMA LoadUnroll ==
  ASSUME NEW order, NEW n \in Nat, Len(order) = n, LoadTemps(order) # Conflict
  PROVE  \E tree : IsLoad(tree, order, n) /\ tree[n] = LoadTemps(order)
<1> DEFINE S == {order[k] : k \in 1..n}
           P == {<<>>} \cup Positions(S)
           T == {NoTemp} \cup {e.value[SubSeq(q, Len(e.key) + 1, Len(q))] : e \in S, q \in P}
           V == {Conflict} \cup UNION {[D -> T] : D \in SUBSET P}
           Step(t, e) == IF t = Conflict THEN Conflict ELSE Insert(t, e)
           G == [k \in 1..n |-> [t \in V |-> Step(t, order[k])]]
           Eq(tree) == tree = [k \in 0..n |-> IF k = 0 THEN EmptyTree
                                             ELSE IF tree[k - 1] = Conflict THEN Conflict
                                             ELSE Insert(tree[k - 1], order[k])]
<1>1. EmptyTree \in V
  <2>1. EmptyTree \in [{<<>>} -> T]
    BY DEF EmptyTree
  <2> HIDE DEF T
  <2> QED
    BY <2>1
<1>2. ASSUME NEW t \in V, NEW k \in 1..n PROVE Step(t, order[k]) \in V
  <2> DEFINE e == order[k]
             value(q) == e.value[SubSeq(q, Len(e.key) + 1, Len(q))]
             D == DOMAIN t \cup Above(e.key) \cup Grafted(e)
             u == [q \in D |-> IF q \in Grafted(e) /\ value(q) # NoTemp THEN value(q)
                               ELSE IF q \in DOMAIN t THEN t[q] ELSE NoTemp]
  <2>1. Step(t, e) \in {Conflict, u}
    BY DEF Insert, Grafted
  <2>2. e \in S /\ Conflict \in V
    OBVIOUS
  <2>3. \A q \in P : value(q) \in T
    <3> HIDE DEF P, S, e
    <3> QED
      BY <2>2
  <2>4. \A q : q \in Above(e.key) \/ q \in Grafted(e) => q \in P
    BY <2>2, PositionsIs
  <2>5. NoTemp \in T
    OBVIOUS
  <2> HIDE DEF T, P, S, value, Step
  <2>6. ASSUME t # Conflict PROVE u \in V
    <3>1. PICK C \in SUBSET P : t \in [C -> T]
      BY <2>6
    <3>2. D \in SUBSET P
      BY <2>4, <3>1
    <3>3. \A q \in DOMAIN t : t[q] \in T
      BY <3>1
    <3> HIDE DEF D
    <3>4. u \in [D -> T]
      BY <2>3, <2>5, <3>2, <3>3
    <3> HIDE DEF u
    <3> QED
      BY <3>2, <3>4
  <2>7. t = Conflict => Step(t, e) = Conflict
    BY DEF Step
  <2> HIDE DEF u, V, e
  <2>8. Step(t, e) \in V
    BY <2>1, <2>2, <2>6, <2>7
  <2> QED
    BY <2>8 DEF e
<1> HIDE DEF V, Step
<1>3. G \in [1..n -> [V -> V]]
  BY <1>2
<1> HIDE DEF G
<1>4. PICK s : IsSteps(s, V, EmptyTree, n, G)
  BY <1>1, <1>3, StepByStep
<1>5. s \in [0..n -> V] /\ s[0] = EmptyTree /\ \A k \in 1..n : s[k] = G[k][s[k - 1]] /\ s[k - 1] \in V
  BY <1>4 DEF IsSteps
<1>6. \A k \in 1..n : s[k] = Step(s[k - 1], order[k])
  BY <1>5 DEF G
<1>7. s = [k \in 0..n |-> IF k = 0 THEN EmptyTree ELSE Step(s[k - 1], order[k])]
  <2>1. s = [k \in 0..n |-> s[k]]
    BY <1>5
  <2>2. \A k \in 0..n : s[k] = IF k = 0 THEN EmptyTree ELSE Step(s[k - 1], order[k])
    BY <1>5, <1>6
  <2> QED
    BY <2>1, <2>2
<1>8. Eq(s)
  BY <1>7 DEF Step
<1> DEFINE r == CHOOSE tree : Eq(tree)
<1> HIDE DEF Eq
<1>9. Eq(r)
  BY <1>8, Zenon
<1>10. LoadTemps(order) = r[n]
  BY DEF LoadTemps, Eq
<1> HIDE DEF r
<1>11. r = [k \in 0..n |-> IF k = 0 THEN EmptyTree ELSE Step(r[k - 1], order[k])]
  BY <1>9 DEF Eq, Step
<1>12. r[0] = EmptyTree /\ \A k \in 1..n : r[k] = Step(r[k - 1], order[k])
  <2>1. 0 \in 0..n /\ \A k \in 1..n : k \in 0..n /\ k # 0
    OBVIOUS
  <2> QED
    BY <1>11, <2>1
<1>13. \A k \in 0..n : r[k] # Conflict
  <2> DEFINE L == {k \in 0..n : r[n - k] # Conflict}
  <2>1. 0 \in L
    <3>1. 0 \in 0..n /\ n - 0 = n
      OBVIOUS
    <3> QED
      BY <1>10, <3>1
  <2>2. ASSUME NEW k \in 1..n, k - 1 \in L PROVE k \in L
    <3>1. n - (k - 1) \in 1..n /\ n - (k - 1) - 1 = n - k /\ k \in 0..n
      OBVIOUS
    <3>2. r[n - (k - 1)] # Conflict
      BY <2>2
    <3> QED
      BY <1>12, <3>1, <3>2 DEF Step
  <2> HIDE DEF L
  <2>3. \A k \in 0..n : k \in L
    BY <2>1, <2>2, UpTo
  <2>4. \A k \in 0..n : n - k \in 0..n /\ n - (n - k) = k
    OBVIOUS
  <2> QED
    BY <2>3, <2>4 DEF L
<1>14. \A k \in 1..n : r[k] = Insert(r[k - 1], order[k]) /\ r[k] # Conflict
  <2>1. \A k \in 1..n : k \in 0..n /\ k - 1 \in 0..n
    OBVIOUS
  <2> QED
    BY <1>12, <1>13, <2>1 DEF Step
<1> QED
  BY <1>10, <1>12, <1>14 DEF IsLoad

LEMMA EmptySays == TreeSays(EmptyTree, {})
<1>1. Positions({}) = {} /\ Written({}) = {}
  BY PositionsIs, WrittenIs
<1>2. DOMAIN EmptyTree = {<<>>} /\ EmptyTree[<<>>] = NoTemp
  BY DEF EmptyTree
<1>3. Consistent({})
  BY ConsistentIs
<1> QED
  BY <1>1, <1>2, <1>3 DEF TreeSays

\* Whatever the order, a file that is loaded says what its entries say.
LEMMA LoadSays ==
  ASSUME NEW S, AreEntries(S), NEW N, \A e \in S : OverNames(e, N),
         NEW order \in SetToSeqs(S), LoadTemps(order) # Conflict
  PROVE  TreeSays(LoadTemps(order), S)
<1>1. PICK n \in Nat : /\ Len(order) = n
                       /\ \A k \in 1..n : order[k] \in S
                       /\ \A i, j \in 1..n : order[i] = order[j] => i = j
                       /\ \A e \in S : \E i \in 1..n : order[i] = e
  <2>1. IsFiniteSet(S) /\ order \in Reader!SetToSeqs(S)
    BY SameOrders DEF AreEntries
  <2>2. /\ order \in Seq(S)
        /\ \A i, j \in 1..Len(order) : order[i] = order[j] => i = j
        /\ \A e \in S : \E i \in 1..Len(order) : order[i] = e
    BY <2>1, OrderIs
  <2>3. Len(order) \in Nat /\ \A k \in 1..Len(order) : order[k] \in S
    BY <2>2
  <2> QED
    BY <2>2, <2>3
<1>2. PICK tree : IsLoad(tree, order, n) /\ tree[n] = LoadTemps(order)
  BY <1>1, LoadUnroll
<1> DEFINE first(k) == {order[i] : i \in 1..k}
           L == {k \in 0..n : TreeSays(tree[k], first(k))}
<1>3. 0 \in L
  <2>1. first(0) = {}
    OBVIOUS
  <2> QED
    BY <1>2, <2>1, EmptySays DEF IsLoad
<1>4. ASSUME NEW k \in 1..n, k - 1 \in L PROVE k \in L
  <2> DEFINE e == order[k]
  <2>1. first(k) = first(k - 1) \cup {e}
    <3>1. 1..k = (1..k - 1) \cup {k}
      OBVIOUS
    <3> QED
      BY <3>1
  <2>2. e \notin first(k - 1)
    <3>1. \A i \in 1..k - 1 : i \in 1..n /\ i # k
      OBVIOUS
    <3> QED
      BY <1>1, <3>1
  <2>3. e \in S /\ first(k - 1) \subseteq S
    BY <1>1
  <2>4. OverNames(e, N) /\ IsTree(e.value) /\ \A d \in first(k - 1) : OverNames(d, N)
    BY <2>3 DEF AreEntries
  <2>5. tree[k] = Insert(tree[k - 1], e) /\ tree[k] # Conflict /\ TreeSays(tree[k - 1], first(k - 1))
    BY <1>2, <1>4 DEF IsLoad
  <2> HIDE DEF e, first
  <2>6. Inserted(tree[k - 1], e, tree[k])
    BY <2>4, <2>5, InsertIs
  <2>7. TreeSays(tree[k], first(k - 1) \cup {e})
    BY <2>2, <2>4, <2>5, <2>6, InsertSays
  <2> QED
    BY <2>1, <2>7
<1>5. n \in L
  <2> HIDE DEF L
  <2> QED
    BY <1>3, <1>4, UpTo
<1>6. first(n) = S
  <2>1. first(n) \subseteq S
    BY <1>1
  <2>2. ASSUME NEW e \in S PROVE e \in first(n)
    <3>1. PICK i \in 1..n : order[i] = e
      BY <1>1
    <3> QED
      BY <3>1
  <2> QED
    BY <2>1, <2>2
<1> QED
  BY <1>2, <1>5, <1>6

LEMMA BeginningIs ==
  ASSUME NEW N, NEW path \in Seq(N), NEW k \in 0..Len(path)
  PROVE  /\ SubSeq(path, 1, k) \in Seq(N) /\ Len(SubSeq(path, 1, k)) = k
         /\ \A i \in 1..k : SubSeq(path, 1, k)[i] = path[i]
OBVIOUS

LEMMA AppendIs ==
  ASSUME NEW N, NEW s \in Seq(N), NEW x \in N
  PROVE  Append(s, x) \in Seq(N) /\ Len(Append(s, x)) = Len(s) + 1 /\ Last(Append(s, x)) = x /\ Front(Append(s, x)) = s
<1>1. Append(s, x) \in Seq(N) /\ Len(Append(s, x)) = Len(s) + 1 /\ Append(s, x)[Len(s) + 1] = x
      /\ \A i \in 1..Len(s) : Append(s, x)[i] = s[i]
  OBVIOUS
<1>2. PICK t : t = Append(s, x)
  OBVIOUS
<1>3. t \in Seq(N) /\ Len(t) = Len(s) + 1 /\ t[Len(s) + 1] = x /\ \A i \in 1..Len(s) : t[i] = s[i]
  BY <1>1, <1>2
<1>4. Len(t) - 1 \in 0..Len(t) /\ Len(t) - 1 = Len(s)
  BY <1>3
<1>5. Front(t) \in Seq(N) /\ Len(Front(t)) = Len(s) /\ \A i \in 1..Len(s) : Front(t)[i] = t[i]
  BY <1>3, <1>4, BeginningIs DEF Front
<1>6. \A i \in 1..Len(Front(t)) : Front(t)[i] = s[i]
  BY <1>3, <1>5
<1>7. Front(t) = s
  BY <1>5, <1>6, SeqEqual
<1> QED
  BY <1>2, <1>3, <1>7 DEF Last

LEMMA SplitIs ==
  ASSUME NEW N, NEW s \in Seq(N), s # <<>>
  PROVE  s = Append(Front(s), Last(s)) /\ Front(s) \in Seq(N) /\ Last(s) \in N
<1>1. PICK n \in Nat : Len(s) = n + 1
  <2>1. Len(s) \in Nat /\ Len(s) # 0
    OBVIOUS
  <2>2. Len(s) - 1 \in Nat /\ Len(s) = (Len(s) - 1) + 1
    BY <2>1
  <2> QED
    BY <2>2
<1>2. n \in 0..Len(s) /\ Len(s) - 1 = n
  BY <1>1
<1>3. PICK h : h = Front(s)
  OBVIOUS
<1>4. h \in Seq(N) /\ Len(h) = n /\ \A i \in 1..n : h[i] = s[i]
  BY <1>2, <1>3, BeginningIs DEF Front
<1>5. Last(s) = s[n + 1] /\ Last(s) \in N
  BY <1>1 DEF Last
<1>6. PICK t : t = Append(h, Last(s))
  OBVIOUS
<1>7. t \in Seq(N) /\ Len(t) = n + 1 /\ t[n + 1] = Last(s) /\ \A i \in 1..n : t[i] = h[i]
  BY <1>4, <1>5, <1>6
<1>8. \A i \in 1..n + 1 : t[i] = s[i]
  BY <1>4, <1>5, <1>7
<1>9. t = s
  BY <1>1, <1>7, <1>8, SeqEqual
<1> QED
  BY <1>3, <1>4, <1>5, <1>6, <1>9

LEMMA GreatestIs ==
  ASSUME NEW n \in Nat, NEW S \in SUBSET (0..n), S # {}
  PROVE  Max(S) \in S /\ \A k \in S : k <= Max(S)
<1> DEFINE T == {n - k : k \in S}
<1>1. T \in SUBSET Nat /\ T # {}
  <2>1. \A k \in S : n - k \in Nat
    OBVIOUS
  <2> QED
    BY <2>1
<1>2. PICK m \in T : \A t \in T : m <= t
  <2> HIDE DEF T
  <2> QED
    BY <1>1, LeastNat
<1>3. PICK x \in S : m = n - x
  BY <1>2
<1>4. \A k \in S : x >= k
  <2> SUFFICES ASSUME NEW k \in S PROVE x >= k
    OBVIOUS
  <2>1. n - k \in T /\ k \in 0..n /\ x \in 0..n
    OBVIOUS
  <2>2. n - x <= n - k
    BY <1>2, <1>3, <2>1
  <2> QED
    BY <2>1, <2>2
<1>5. Max(S) \in S /\ \A k \in S : Max(S) >= k
  BY <1>4, Zenon DEF Max
<1> QED
  BY <1>5

LEMMA SmallestIs ==
  ASSUME NEW S \in SUBSET Nat, S # {}
  PROVE  Min(S) \in S
<1>1. PICK m \in S : \A k \in S : m =< k
  BY LeastNat
<1> QED
  BY <1>1, Zenon DEF Min

\* What a loaded tree resolves a path to is what the entries say of it.
LEMMA ResolveIs ==
  ASSUME NEW N, Star \in N, NEW path \in Seq(N), NEW S, AreEntries(S), \A e \in S : OverNames(e, N),
         NEW tree, TreeSays(tree, S)
  PROVE  Resolve(tree, path) = SaidOf(S, path)
<1> DEFINE at(k) == SubSeq(path, 1, k)
           upTo(q) == q = path \/ q \in Above(path)
           explicit == {k \in 1..Len(path) : HasTemp(tree, at(k))}
           stars == {k \in 0..Len(path) - 1 : HasTemp(tree, Append(at(k), Star))}
           on == {w \in Written(S) : upTo(w[1])}
           beside == {w \in Written(S) : Last(w[1]) = Star /\ Front(w[1]) \in Above(path)}
           entry(q) == <<q, tree[q]>>
           IsDeepest(w) == \A v \in beside : Len(v[1]) <= Len(w[1])
           deepest == CHOOSE w \in beside : IsDeepest(w)
<1>1. PICK n \in Nat : n = Len(path)
  OBVIOUS
<1>2. \A k \in 0..n : at(k) \in Seq(N) /\ Len(at(k)) = k
  BY <1>1, BeginningIs
<1>3. at(n) = path /\ \A q : q \in Above(path) <=> \E k \in 0..n - 1 : q = at(k)
  <2>1. at(n) = path
    BY <1>1, SubSeqFull
  <2> QED
    BY <1>1, <2>1 DEF Above
<1>4. \A i, k \in 0..n : i < k => at(i) \in Above(at(k))
  <2> SUFFICES ASSUME NEW i \in 0..n, NEW k \in 0..n, i < k PROVE at(i) \in Above(at(k))
    OBVIOUS
  <2>1. /\ at(i) \in Seq(N) /\ Len(at(i)) = i /\ \A j \in 1..i : at(i)[j] = path[j]
        /\ at(k) \in Seq(N) /\ Len(at(k)) = k /\ \A j \in 1..k : at(k)[j] = path[j]
    BY <1>1, BeginningIs
  <2> HIDE DEF at
  <2>2. Heads(at(i), at(k))
    BY <2>1 DEF Heads
  <2> QED
    BY <2>1, <2>2, AboveHeads
<1>5. \A k \in 0..n - 1 : /\ Append(at(k), Star) \in Seq(N) /\ Len(Append(at(k), Star)) = k + 1
                          /\ Last(Append(at(k), Star)) = Star /\ Front(Append(at(k), Star)) = at(k)
  <2> SUFFICES ASSUME NEW k \in 0..n - 1, NEW s, s = at(k)
               PROVE  /\ Append(s, Star) \in Seq(N) /\ Len(Append(s, Star)) = k + 1
                      /\ Last(Append(s, Star)) = Star /\ Front(Append(s, Star)) = s
    OBVIOUS
  <2>1. s \in Seq(N) /\ Len(s) = k
    <3>1. k \in 0..n
      OBVIOUS
    <3> QED
      BY <1>2, <3>1
  <2>2. /\ Append(s, Star) \in Seq(N) /\ Len(Append(s, Star)) = Len(s) + 1
        /\ Last(Append(s, Star)) = Star /\ Front(Append(s, Star)) = s
    BY <2>1, AppendIs, Zenon
  <2> QED
    BY <2>1, <2>2
<1> HIDE DEF at
<1>6. ASSUME NEW q, HasTemp(tree, q) PROVE entry(q) \in Written(S)
  BY <1>6 DEF TreeSays, HasTemp
<1>7. ASSUME NEW w \in Written(S)
      PROVE  w[1] \in Seq(N) /\ w[1] # <<>> /\ HasTemp(tree, w[1]) /\ w = entry(w[1])
  <2>1. PICK e \in S : \E p \in DOMAIN e.value : e.value[p] # NoTemp /\ w = <<e.key \o p, e.value[p]>>
    BY WrittenIs
  <2>2. PICK p \in DOMAIN e.value : w[1] = e.key \o p
    <3>1. PICK p \in DOMAIN e.value : w = <<e.key \o p, e.value[p]>>
      BY <2>1
    <3>2. w[1] = e.key \o p
      BY <3>1
    <3> QED
      BY <3>2
  <2>3. e.key \in Seq(N) /\ p \in Seq(N) /\ e.key # <<>>
    BY DEF OverNames, AreEntries
  <2>4. w[1] \in Seq(N) /\ w[1] # <<>>
    BY <2>2, <2>3, ConcatEqualIffEmpty, JoinIs
  <2> QED
    BY <2>4 DEF TreeSays
\* A temperature on the way down: there is one at most.
<1>8. ASSUME NEW k \in explicit PROVE entry(at(k)) \in on
  <2>1. HasTemp(tree, at(k)) /\ k \in 0..n /\ (k = n \/ k \in 0..n - 1)
    BY <1>1
  <2> QED
    BY <1>3, <1>6, <2>1
<1>9. ASSUME NEW w \in on PROVE \E k \in explicit : w = entry(at(k))
  <2>1. PICK k \in 0..n : w[1] = at(k)
    BY <1>1, <1>3
  <2>2. k # 0
    BY <1>2, <1>7, <2>1
  <2>3. k \in explicit
    BY <1>1, <1>7, <2>1, <2>2
  <2> QED
    BY <1>7, <2>1, <2>3
<1>10. ASSUME NEW i \in explicit, NEW k \in explicit, i < k PROVE FALSE
  <2>1. i \in 0..n /\ k \in 0..n
    BY <1>1
  <2>2. at(k) \in Positions(S)
    <3>1. at(k) # <<>>
      BY <1>2, <1>10, <2>1
    <3> QED
      BY <3>1 DEF TreeSays, HasTemp
  <2>3. entry(at(i)) \in Written(S)
    BY <1>6
  <2>4. entry(at(i))[1] \notin Above(at(k))
    BY <2>2, <2>3 DEF TreeSays, Consistent
  <2> QED
    BY <1>4, <1>10, <2>1, <2>4
<1>11. \A i, k \in explicit : i = k
  BY <1>1, <1>10
\* The deepest star beside the way.
<1>12. ASSUME NEW k \in stars
       PROVE  entry(Append(at(k), Star)) \in beside /\ Len(entry(Append(at(k), Star))[1]) = k + 1
  BY <1>1, <1>3, <1>5, <1>6
<1>13. ASSUME NEW w \in beside
       PROVE  \E k \in stars : w = entry(Append(at(k), Star)) /\ Len(w[1]) = k + 1
  <2>1. w[1] = Append(Front(w[1]), Star)
    BY <1>7, SplitIs
  <2>2. PICK k \in 0..n - 1 : Front(w[1]) = at(k)
    BY <1>3
  <2>3. k \in stars
    BY <1>1, <1>7, <2>1, <2>2
  <2> QED
    BY <1>5, <1>7, <2>1, <2>2, <2>3
<1>14. CASE explicit # {}
  <2> DEFINE m == Min(explicit)
  <2>1. m \in explicit
    <3>1. explicit \in SUBSET Nat
      OBVIOUS
    <3> HIDE DEF explicit
    <3> QED
      BY <1>14, <3>1, SmallestIs
  <2>2. Resolve(tree, path) = tree[at(m)]
    BY <1>14 DEF Resolve, at
  <2>3. entry(at(m)) \in on /\ \A w \in on : w = entry(at(m))
    BY <1>8, <1>9, <1>11, <2>1
  <2>4. SaidOf(S, path) = (CHOOSE w \in on : TRUE)[2]
    BY <2>3, Zenon DEF SaidOf
  <2> HIDE DEF on
  <2>5. (CHOOSE w \in on : TRUE) \in on
    BY <2>3
  <2>6. (CHOOSE w \in on : TRUE) = entry(at(m))
    BY <2>3, <2>5
  <2>7. entry(at(m))[2] = tree[at(m)]
    OBVIOUS
  <2> HIDE DEF m, entry
  <2> QED
    BY <2>2, <2>4, <2>6, <2>7, Zenon
<1>15. CASE explicit = {} /\ stars # {}
  <2> DEFINE m == Max(stars)
  <2>1. on = {}
    BY <1>9, <1>15
  <2>2. m \in stars /\ \A k \in stars : k <= m
    <3>1. stars \in SUBSET (0..n)
      BY <1>1
    <3> HIDE DEF stars
    <3> QED
      BY <1>15, <3>1, GreatestIs
  <2> DEFINE d == entry(Append(at(m), Star))
  <2>3. Resolve(tree, path) = tree[Append(at(m), Star)]
    BY <1>15 DEF Resolve, at
  <2>4. SaidOf(S, path) = deepest[2]
    <3>1. beside # {}
      BY <1>12, <2>2
    <3> QED
      BY <2>1, <3>1, Zenon DEF SaidOf
  <2> HIDE DEF entry, stars, beside, m
  <2>5. d \in beside /\ IsDeepest(d)
    <3>1. d \in beside /\ Len(d[1]) = m + 1
      BY <1>12, <2>2
    <3>2. ASSUME NEW v \in beside PROVE Len(v[1]) <= Len(d[1])
      <4>1. PICK k \in stars : Len(v[1]) = k + 1
        BY <1>13
      <4>2. k <= m /\ k \in Nat /\ m \in Nat
        BY <2>2 DEF stars
      <4> QED
        BY <3>1, <4>1, <4>2
    <3> QED
      BY <3>1, <3>2
  <2>6. ASSUME NEW w \in beside, IsDeepest(w) PROVE w = d
    <3>1. PICK k \in stars : w = entry(Append(at(k), Star)) /\ Len(w[1]) = k + 1
      BY <1>13
    <3>2. Len(d[1]) = m + 1 /\ Len(d[1]) <= Len(w[1])
      BY <1>12, <2>2, <2>5, <2>6
    <3>3. k <= m /\ k \in Nat /\ m \in Nat
      BY <2>2 DEF stars
    <3>4. k = m
      BY <3>1, <3>2, <3>3
    <3> QED
      BY <3>1, <3>4
  <2> HIDE DEF IsDeepest, d
  <2>7. deepest = d
    BY <2>5, <2>6
  <2>8. d[2] = tree[Append(at(m), Star)]
    BY DEF d, entry
  <2> QED
    BY <2>3, <2>4, <2>7, <2>8, Zenon DEF m
<1>16. CASE explicit = {} /\ stars = {}
  <2>1. on = {} /\ beside = {}
    BY <1>9, <1>13, <1>16
  <2>2. SaidOf(S, path) = NoTemp
    BY <2>1, Zenon DEF SaidOf
  <2>3. Resolve(tree, path) = NoTemp
    BY <1>16 DEF Resolve, at
  <2> QED
    BY <2>2, <2>3
<1> QED
  BY <1>14, <1>15, <1>16

-----------------------------------------------------------------------------
(* Seed temperatures: what a compile does with them.                      *)

\* A start that loads its seeds: they agree, and each path gets what they say of it.
LEMMA SeedsAre ==
  ASSUME config \in Configs, NEW order \in SetToSeqs(config.seeds), LoadTemps(order) # Conflict
  PROVE  /\ Consistent(config.seeds)
         /\ \A f \in File : Resolve(LoadTemps(order), Path[f]) = SaidOf(config.seeds, Path[f])
<1>1. PICK S : S = config.seeds
  OBVIOUS
<1>2. AreEntries(S) /\ order \in SetToSeqs(S)
  BY <1>1, SeedsAssumption
<1>3. PICK tree : tree = LoadTemps(order)
  OBVIOUS
<1>4. Consistent(S)
  <2>1. IsSequence(<<>>)
    BY DEF IsSequence
  <2>2. PICK N : \A e \in S : OverNames(e, N)
    BY <1>2, <2>1, NamesExist
  <2> QED
    BY <1>2, <2>2, LoadSays DEF TreeSays
<1>5. ASSUME NEW f \in File PROVE Resolve(tree, Path[f]) = SaidOf(S, Path[f])
  <2>1. PICK path : path = Path[f] /\ IsSequence(path)
    BY PatternsAssumption
  <2>2. PICK N : Star \in N /\ path \in Seq(N) /\ \A e \in S : OverNames(e, N)
    BY <1>2, <2>1, NamesExist
  <2>3. TreeSays(tree, S)
    BY <1>2, <1>3, <2>2, LoadSays
  <2> QED
    BY <1>2, <2>1, <2>2, <2>3, ResolveIs
<1> QED
  BY <1>1, <1>3, <1>4, <1>5

\* The seeds a compile goes by are those its start was given.
SeedsSaid(j) ==
  \A f \in j.files : j.seeds[f] = IF j.kind = "rescan" THEN NoTemp ELSE SaidOf(j.entries, Path[f])

SeedInv == job # Idle => SeedsSaid(job)

SameSeeds(j, k) == k.files = j.files /\ k.seeds = j.seeds /\ k.kind = j.kind /\ k.entries = j.entries

LEMMA SeedInvNext ==
  ASSUME CompileInv, SeedInv, config \in Configs, [Next]_workspaceVars
  PROVE  SeedInv'
<1>1. ASSUME job # Idle, SameSeeds(job, job') PROVE SeedInv'
  BY <1>1 DEF SeedInv, SeedsSaid, SameSeeds
<1>2. ASSUME UNCHANGED job PROVE SeedInv'
  BY <1>2 DEF SeedInv, SeedsSaid
<1>3. ASSUME job' = Idle PROVE SeedInv'
  BY <1>3 DEF SeedInv
<1>4. job # Idle => IsJob(job)
  BY DEF CompileInv, JobInv
<1>5. ASSUME NEW kind, NEW reseed, kind # "rescan", StartDir(kind, reseed) PROVE SeedInv'
  <2>1. PICK order \in SetToSeqs(config.seeds) :
          /\ LoadTemps(order) # Conflict
          /\ Begins(kind, Found, [f \in Found |-> Resolve(LoadTemps(order), Path[f])], reseed)
    BY <1>5 DEF StartDir
  <2>2. job'.kind = kind /\ job'.files = Found /\ job'.entries = config.seeds
        /\ job'.seeds = [f \in Found |-> Resolve(LoadTemps(order), Path[f])]
    BY <2>1 DEF Begins
  <2>3. \A f \in Found : Resolve(LoadTemps(order), Path[f]) = SaidOf(config.seeds, Path[f])
    BY <2>1, SeedsAre DEF Found
  <2> QED
    BY <1>5, <2>2, <2>3 DEF SeedInv, SeedsSaid
<1>6. ASSUME NEW fs, StartRescan(fs) PROVE SeedInv'
  <2>1. job'.kind = "rescan" /\ job'.files = fs /\ job'.seeds = [f \in fs |-> NoTemp]
    BY <1>6 DEF StartRescan, Begins
  <2> QED
    BY <2>1 DEF SeedInv, SeedsSaid
<1>7. CASE Environment
  <2>1. ASSUME NEW f \in File, NEW v, Edit(f, v) PROVE SeedInv'
    <3>1. CASE job = Idle
      BY <1>3, <2>1, <3>1 DEF Edit
    <3>2. CASE job # Idle
      <4>1. SameSeeds(job, job')
        BY <1>4, <2>1, <3>2 DEF Edit, IsJob, SameSeeds
      <4> QED
        BY <1>1, <3>2, <4>1
    <3> QED
      BY <3>1, <3>2
  <2>2. ASSUME NEW c, EditConfig(c) PROVE SeedInv'
    BY <1>2, <2>2 DEF EditConfig
  <2>3. ASSUME NEW n, NEW p, NEW t, SetPinned(n, p, t) PROVE SeedInv'
    BY <1>2, <2>3 DEF SetPinned
  <2>4. "cli" # "rescan" /\ "tool" # "rescan"
    OBVIOUS
  <2> QED
    BY <1>5, <1>6, <1>7, <2>1, <2>2, <2>3, <2>4 DEF Environment, InitialCompile
<1>8. CASE Compiling
  <2>1. job # Idle
    <3>1. job.step \in {"read", "commit", "reseed"}
      BY <1>8 DEF Compiling, Fail, FailFile, Begin, Read, Reading, Join, Commit, Reseed
    <3> QED
      BY <3>1 DEF Idle
  <2>2. IsJob(job)
    BY <1>4, <2>1
  <2>3. ASSUME NEW f, NEW table, NEW failed, Settled(f, table, failed) PROVE SeedInv'
    <3>1. SameSeeds(job, job')
      BY <2>2, <2>3 DEF Settled, IsJob, SameSeeds
    <3> QED
      BY <1>1, <2>1, <3>1
  <2>4. ASSUME NEW f, Begin(f) PROVE SeedInv'
    <3>1. CASE job' = [job EXCEPT !.begun = @ \cup {f}]
      <4>1. SameSeeds(job, job')
        BY <2>2, <3>1 DEF IsJob, SameSeeds
      <4> QED
        BY <1>1, <2>1, <4>1
    <3> QED
      BY <2>3, <2>4, <3>1 DEF Begin
  <2>5. ASSUME NEW f, Read(f) \/ FailFile(f) PROVE SeedInv'
    BY <2>3, <2>5 DEF Read, FailFile
  <2>6. ASSUME Fail PROVE SeedInv'
    BY <1>3, <2>6 DEF Fail, Ends
  <2>7. ASSUME Join PROVE SeedInv'
    <3>1. CASE job.failed
      BY <1>3, <2>7, <3>1 DEF Join, Ends
    <3>2. CASE ~job.failed
      <4>1. SameSeeds(job, job')
        BY <2>2, <2>7, <3>2 DEF Join, IsJob, SameSeeds
      <4> QED
        BY <1>1, <2>1, <4>1
    <3> QED
      BY <3>1, <3>2
  <2>8. ASSUME Commit PROVE SeedInv'
    <3>1. PICK todo : Goes(todo)
      BY <2>8 DEF Commit
    <3>2. job' = Idle \/ SameSeeds(job, job')
      BY <2>2, <3>1 DEF Goes, IsJob, SameSeeds
    <3> QED
      BY <1>1, <1>3, <2>1, <3>2
  <2>9. ASSUME NEW t, Reseed(t) PROVE SeedInv'
    <3>1. job' = Idle \/ SameSeeds(job, job')
      BY <2>2, <2>9 DEF Reseed, IsJob, SameSeeds
    <3> QED
      BY <1>1, <1>3, <2>1, <3>1
  <2> QED
    BY <1>8, <2>4, <2>5, <2>6, <2>7, <2>8, <2>9 DEF Compiling
<1>9. CASE CallReader
  BY <1>2, <1>9 DEF CallReader
<1>10. CASE ReaderStep
  BY <1>2, <1>10 DEF ReaderStep
<1>11. CASE UNCHANGED workspaceVars
  BY <1>2, <1>11 DEF workspaceVars, compileVars
<1> QED
  BY <1>7, <1>8, <1>9, <1>10, <1>11 DEF Next

LEMMA StartsConsistent ==
  ASSUME config \in Configs, Next, job = Idle, job'.step = "read", job'.kind # "rescan"
  PROVE  Consistent(config.seeds)
<1>1. job.step = "idle" /\ job' # Idle
  BY DEF Idle
<1>2. ASSUME NEW kind, NEW reseed, StartDir(kind, reseed) PROVE Consistent(config.seeds)
  <2>1. PICK order \in SetToSeqs(config.seeds) : LoadTemps(order) # Conflict
    BY <1>2 DEF StartDir
  <2> QED
    BY <2>1, SeedsAre
<1>3. CASE Environment
  <2>1. ASSUME NEW fs, StartRescan(fs) PROVE FALSE
    BY <2>1 DEF StartRescan, Begins
  <2>2. ASSUME NEW f \in File, NEW v, Edit(f, v) PROVE FALSE
    BY <1>1, <2>2 DEF Edit
  <2>3. ASSUME NEW c, EditConfig(c) PROVE FALSE
    BY <1>1, <2>3 DEF EditConfig
  <2>4. ASSUME NEW n, NEW p, NEW t, SetPinned(n, p, t) PROVE FALSE
    BY <1>1, <2>4 DEF SetPinned
  <2> QED
    BY <1>2, <1>3, <2>1, <2>2, <2>3, <2>4 DEF Environment, InitialCompile
<1>4. CASE Compiling
  BY <1>1, <1>4 DEF Compiling, Fail, FailFile, Begin, Read, Reading, Join, Commit, Reseed
<1>5. CASE CallReader \/ ReaderStep
  BY <1>1, <1>5 DEF CallReader, ReaderStep
<1> QED
  BY <1>3, <1>4, <1>5 DEF Next

LEMMA UpsertsAre ==
  ASSUME NEW g, NEW u, NEW K
  PROVE  WithOp(DiffFlat(u, ContentsOf(g, K)), {"add", "mod"}) =
           {n \in DOMAIN u : ~(n \in K /\ g[n].content = u[n].content)}
BY DEF DiffFlat, ContentsOf, WithOp, Added, Modified, Removed

LEMMA TempsAreExact ==
  ASSUME CompileInv, SeedInv, Commit, NEW n \in DOMAIN nodes', NEW said,
         said = IF job.kind = "rescan" THEN NoTemp ELSE SaidOf(job.entries, Path[HomeFile[n]])
  PROVE  temps'[n] = IF ~(n \in DOMAIN nodes /\ nodes'[n] = nodes[n]) /\ said # NoTemp THEN said
                     ELSE IF n \in DOMAIN nodes THEN temps[n] ELSE DefaultTemp
<1>1. job.step = "commit"
  BY DEF Commit
<1>2. SeenInv(job) /\ TablesInv(job) /\ StepInv(job) /\ StoreInv /\ SeedsSaid(job)
  BY <1>1 DEF CompileInv, JobInv, SeedInv, Idle
<1>3. PICK u, K : u = Union(job.tables) /\ K = KnownNodes
  OBVIOUS
<1>4. /\ Stored(u, K) /\ AtHome(u)
      /\ K = {m \in DOMAIN nodes : job.kind = "rescan" => HomeFile[m] \in job.files}
      /\ \A m \in DOMAIN u : HomeFile[m] \in job.files
  BY <1>2, <1>3, CommitStores, UnionIs
<1>5. Upserted(n) <=> n \in DOMAIN u /\ ~(n \in K /\ nodes[n].content = u[n].content)
  BY <1>1, <1>2, <1>3, UpsertsAre DEF Upserted, StepInv
<1>6. /\ n \in (DOMAIN nodes \ K) \cup DOMAIN u
      /\ nodes'[n] = IF n \in DOMAIN u THEN u[n] ELSE nodes[n]
  BY <1>4 DEF Stored
<1>7. Upserted(n) <=> ~(n \in DOMAIN nodes /\ nodes'[n] = nodes[n])
  <2>1. CASE n \in DOMAIN u
    <3>1. n \in DOMAIN nodes => n \in K
      BY <1>4, <2>1
    <3>2. n \in DOMAIN nodes => (nodes[n] = u[n] <=> nodes[n].content = u[n].content)
      BY <1>2, <1>4, <2>1 DEF StoreInv, AtHome
    <3> QED
      BY <1>4, <1>5, <1>6, <2>1, <3>1, <3>2
  <2>2. CASE n \notin DOMAIN u
    BY <1>5, <1>6, <2>2
  <2> QED
    BY <2>1, <2>2
<1>8. Upserted(n) => job.seeds[HomeFile[n]] = said
  BY <1>2, <1>4, <1>5 DEF SeedsSaid
<1>9. temps'[n] = TempAfter(n)
  BY DEF Commit
<1> QED
  BY <1>7, <1>8, <1>9 DEF TempAfter

\* A compile gives the rows it creates or changes the temperatures that temperatures.json said
\* when it started, in whatever order its keys were read, and touches no others; a file that
\* contradicts itself starts no compile.
THEOREM SeedsReachRows == Spec => TempsAsSaid
<1>1. Init => SeedInv
  BY DEF Init, CompileInit, SeedInv
<1>2. CompileInv /\ SeedInv /\ config \in Configs /\ [Next]_workspaceVars => SeedInv'
  BY SeedInvNext
<1>3. CompileInv /\ SeedInv /\ config \in Configs /\ [Next]_workspaceVars
        => [SeedsConsistent /\ TempsExact]_compileVars
  <2> SUFFICES ASSUME CompileInv, SeedInv, config \in Configs, Next
               PROVE  SeedsConsistent /\ TempsExact
    BY DEF workspaceVars
  <2>1. SeedsConsistent
    BY StartsConsistent DEF SeedsConsistent
  <2>2. TempsExact
    BY TempsAreExact DEF TempsExact
  <2> QED
    BY <2>1, <2>2
<1> QED
  BY <1>1, <1>2, <1>3, CompileInvHolds, ConfigsKnown, PTL DEF Spec, TempsAsSaid
=============================================================================
