---------------------------- MODULE SharedTrail ----------------------------
(***************************************************************************)
(* The version trail under concurrent handlers: goroutines of one server,   *)
(* which Store.OpMu serialises, and servers that share one database file,   *)
(* which it does not.  A handler reads the graph and the head statement by  *)
(* statement, outside any transaction, and only then commits; a transaction *)
(* is one step, because WAL mode serialises writers and a transaction whose *)
(* snapshot is stale fails with SQLITE_BUSY and is run again from its start. *)
(*                                                                         *)
(* With one server every commit is a step of VersionTrail.                  *)
(***************************************************************************)
EXTENDS VersionTrail

CONSTANTS
  Thread,      \* goroutines that run handlers
  Server,      \* processes
  Deployments, \* the ways the goroutines are spread over them
  NoThread     \* OpMu is free

ASSUME ServerAssumption == Deployments \subseteq [Thread -> Server] /\ NoThread \notin Thread

VARIABLES
  serverOf,   \* the process of each goroutine, which never changes
  opMu,       \* Store.OpMu of each server: the goroutine that holds it
  call        \* what each goroutine is doing, and what it has read

sharedVars == <<vars, serverOf, opMu, call>>

Idle == [step |-> "idle"]
Waiting == [step |-> "waiting"]

\* The calls a client can make.
WriteJobs == [op : {"write"} \cap Calls, node : NodeId \cup {NoNode}, content : Content]
ForgetJobs == [op : {"strict", "cascade", "reparent"} \cap Calls, node : NodeId]
PurgeJobs == [op : {"purge"} \cap Calls, files : (SUBSET File) \ {{}}]
CompileJobs ==
  UNION {[op : {"compile_files"} \cap Calls, files : {fs}, tree : Parses(fs)]
           : fs \in (SUBSET File) \ {{}}}
RollbackJobs ==
  [op : {"rollback"} \cap Calls, target : SnapshotId, drop : {FALSE}]
    \cup [op : {"drop_after"} \cap Calls, target : SnapshotId, drop : {TRUE}]

Job == WriteJobs \cup ForgetJobs \cup PurgeJobs \cup CompileJobs \cup RollbackJobs

FirstStep(job) ==
  IF job.op \in {"rollback", "drop_after"} THEN "commit" ELSE "read"

At(th, step) == call[th].step = step

Running(th) == call[th].step \notin {"idle", "waiting"}

-----------------------------------------------------------------------------
Arrive(th) ==
  /\ At(th, "idle")
  /\ call' = [call EXCEPT ![th] = Waiting]
  /\ UNCHANGED <<vars, opMu>>

Free(th) == opMu[serverOf[th]] = NoThread

\* OpMu.Lock.  Nothing before it depends on the arguments, so they are chosen here.
Acquire(th) ==
  /\ At(th, "waiting")
  /\ Free(th)
  /\ opMu' = [opMu EXCEPT ![serverOf[th]] = th]
  /\ \E job \in Job : call' = [call EXCEPT ![th] = [step |-> FirstStep(job), job |-> job]]
  /\ UNCHANGED vars

Released(th) == [opMu EXCEPT ![serverOf[th]] = NoThread]

\* Mutant: the lock given back between the reads and the commit.
GoesUnlocked(th, step, ds, t) ==
  /\ call' = [call EXCEPT ![th] = [step |-> step, job |-> call[th].job, ds |-> ds, tree |-> t]]
  /\ opMu' = Released(th)
  /\ UNCHANGED vars

\* What a goroutine goes on with: deltas ds over the tree t, computed from what it read.
Goes(th, step, ds, t) ==
  /\ call' = [call EXCEPT ![th] = [step |-> step, job |-> call[th].job, ds |-> ds, tree |-> t]]
  /\ UNCHANGED <<vars, opMu>>

-----------------------------------------------------------------------------
(* Reads.                                                                  *)

ReadWritten(th) ==
  LET job == call[th].job
      n   == IF job.node = NoNode THEN PayloadNode[job.content] ELSE job.node
  IN
  /\ At(th, "read")
  /\ job.op = "write"
  /\ job.node \in DOMAIN nodes \cup {NoNode} \/ "write_unknown" \in Calls
  /\ Goes(th, "head", WriteDeltas(nodes, n, job.content),
          [m \in {n} |-> WrittenRow(nodes, n, job.content)])

\* GetNode of the target ...
ReadTarget(th) ==
  LET job == call[th].job IN
  /\ At(th, "read")
  /\ job.op \in {"strict", "cascade", "reparent"}
  /\ job.node \in DOMAIN nodes
  /\ Goes(th, "below", RemovalOf(nodes, {job.node}), [m \in {job.node} |-> nodes[m]])

\* ... and its children or descendants, a statement later.
ReadBelow(th) ==
  LET job    == call[th].job
      target == call[th].tree[job.node]
      kids   == ChildrenOf(nodes, job.node)
      below  == Subtree(nodes, job.node) \ {job.node}
  IN
  /\ At(th, "below")
  /\ \/ /\ job.op = "strict"
        /\ kids = {}
        /\ Goes(th, "head", call[th].ds, EmptyGraph)
     \/ /\ job.op = "cascade"
        /\ Goes(th, "head", [m \in {job.node} \cup below |->
                               IF m = job.node THEN call[th].ds[m] ELSE Removed(nodes[m].content)],
                EmptyGraph)
     \/ /\ job.op = "reparent"
        /\ Goes(th, "head", [m \in {job.node} \cup kids |->
                               IF m = job.node THEN call[th].ds[m]
                               ELSE Modified(nodes[m].content, nodes[m].content)],
                [c \in kids |-> [nodes[c] EXCEPT !.parent = target.parent]])

ReadPurged(th) ==
  LET job == call[th].job IN
  /\ At(th, "read")
  /\ job.op = "purge"
  /\ Goes(th, "head", RemovalOf(nodes, NodesOfFiles(job.files)), EmptyGraph)

\* buildPrevState.  The head of a compile is read in its transaction.
ReadPrev(th) ==
  LET job == call[th].job IN
  /\ At(th, "read")
  /\ job.op = "compile_files"
  /\ Goes(th, "commit", DiffFlat(job.tree, ContentsOf(nodes, NodesOfFiles(job.files))), job.tree)

ReadHead(th) ==
  /\ At(th, "head")
  /\ call' = [call EXCEPT ![th] = [step |-> "commit", job |-> call[th].job, ds |-> call[th].ds,
                                   tree |-> call[th].tree, prev |-> head]]
  /\ UNCHANGED <<vars, opMu>>

-----------------------------------------------------------------------------
(* Transactions.                                                           *)

\* snapshots.cursor_hash is UNIQUE.
Unclaimed(hash) == \A s \in DOMAIN snaps : snaps[s].hash # hash

\* Mutant: the parent of the snapshot is the head the handler read.
EmitAtReadHead(th) ==
  LET my == call[th] IN
  /\ my.job.op \notin {"compile_files", "rollback", "drop_after"}
  /\ DOMAIN my.ds # {}
  /\ UpsertsAccepted(nodes, my.tree, my.ds)
  /\ Unclaimed(ChangeHash(my.prev, my.ds))
  /\ Land(ApplyDeltas(nodes, my.tree, my.ds), RowsFor(nodes, my.ds), ChangeHash(my.prev, my.ds),
          NoRoot, my.prev, DOMAIN snaps)

EmitRead(th) ==
  LET my == call[th] IN
  /\ my.job.op \notin {"compile_files", "rollback", "drop_after"}
  /\ Unclaimed(ChangeHash(my.prev, my.ds))
  /\ Emit(my.ds, my.tree, ChangeHash(my.prev, my.ds), NoRoot)

EmitCompiled(th) ==
  LET my == call[th] IN
  /\ my.job.op = "compile_files"
  /\ Unclaimed(CompileHash(head, my.tree))
  /\ \E r \in Root : Emit(my.ds, my.tree, CompileHash(head, my.tree), r)

RollBack(th) ==
  LET my == call[th] IN
  /\ my.job.op \in {"rollback", "drop_after"}
  /\ Rollback(my.job.target, my.job.drop)

\* The transaction commits, and the handler returns.
Commit(th) ==
  /\ At(th, "commit")
  /\ EmitRead(th) \/ EmitCompiled(th) \/ RollBack(th)
  /\ opMu' = Released(th)
  /\ call' = [call EXCEPT ![th] = Idle]

\* Mutant: a busy transaction is tried again without limit, under OpMu.
FailRetries(th) ==
  /\ \/ /\ At(th, "commit")
        /\ call' = [call EXCEPT ![th] = [step |-> FirstStep(call[th].job), job |-> call[th].job]]
        /\ UNCHANGED opMu
     \/ /\ Running(th)
        /\ ~At(th, "commit")
        /\ call' = [call EXCEPT ![th] = Idle]
        /\ opMu' = Released(th)
  /\ UNCHANGED vars

\* The handler returns without a change: an error, nothing to do, six busy attempts, or a
\* cancelled context.
Fail(th) ==
  /\ Running(th)
  /\ opMu' = Released(th)
  /\ call' = [call EXCEPT ![th] = Idle]
  /\ UNCHANGED vars

-----------------------------------------------------------------------------
SharedInit ==
  /\ Init
  /\ serverOf \in Deployments
  /\ opMu = [p \in Server |-> NoThread]
  /\ call = [th \in Thread |-> Idle]

Work(th) ==
  \/ Fail(th)
  \/ ReadWritten(th)
  \/ ReadTarget(th)
  \/ ReadBelow(th)
  \/ ReadPurged(th)
  \/ ReadPrev(th)
  \/ ReadHead(th)
  \/ Commit(th)

SharedNext == (\E th \in Thread : Arrive(th) \/ Acquire(th) \/ Work(th)) /\ UNCHANGED serverOf

Sharing == SharedInit /\ [][SharedNext]_sharedVars

\* A handler that runs goes on; sync.Mutex hands the lock to a goroutine that has waited
\* for a millisecond, so no waiter is passed over for ever.
SharedSpec ==
  /\ Sharing
  /\ \A th \in Thread : WF_sharedVars(Work(th) /\ UNCHANGED serverOf)
                         /\ SF_sharedVars(Acquire(th) /\ UNCHANGED serverOf)

-----------------------------------------------------------------------------
(* Properties.                                                             *)

OneServer == \A th, other \in Thread : serverOf[th] = serverOf[other]

\* With one server, OpMu makes what a handler reads still true when it commits: every
\* commit is one atomic step of VersionTrail.
AtomicTrail == Init /\ [][OneServer => Next]_vars

\* Every call returns: OpMu is released on every path, failing ones included, and no
\* waiter starves.
CallsReturn == \A th \in Thread : At(th, "waiting") ~> At(th, "idle")
=============================================================================
