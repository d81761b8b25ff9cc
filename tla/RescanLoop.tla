----------------------------- MODULE RescanLoop -----------------------------
(***************************************************************************)
(* The source-rescan loop of a server and what races with it: files that   *)
(* are edited, deleted and created again while it walks, reads and commits,*)
(* config.json, which can disable it, enable it or be unfit to be read,    *)
(* MemoryCompile calls, failing steps, and restarts, over which the        *)
(* modification times it goes by are lost.                                 *)
(*                                                                         *)
(* A content is a version number; time advances in units of the file       *)
(* system's timestamps.  Left out: ignore and pin patterns, the interval   *)
(* and the settle time of the configuration, edits made through MCP, and   *)
(* notifyChange.                                                           *)
(***************************************************************************)
EXTENDS Naturals, FiniteSets, Functions

CONSTANTS
  File,
  Settle,         \* rescan.settle
  MaxEdits,       \* bound on the edits, deletions and those of config.json included
  MaxClock,       \* bound on time; edits stop Settle before it
  MaxRestarts,    \* bound on the restarts of the server
  MaxFailures     \* bound on the steps that fail for a reason outside the model

ASSUME RescanAssumption == {Settle, MaxEdits, MaxClock, MaxRestarts, MaxFailures} \subseteq Nat

VARIABLES
  clock,
  edits,
  restarts,
  failures,
  disk,       \* the source tree: modification time and text of each file there
  config,     \* what config.json says of the loop: "on", "off" or "invalid"
  enabled,    \* Loop.enabled
  stored,     \* the text the nodes of each file were compiled from, 0 without nodes
  modTimes,   \* Loop.modTimes
  tick        \* the scan that runs

env == <<clock, edits, restarts, disk, config>>
vars == <<clock, edits, restarts, failures, disk, config, enabled, stored, modTimes, tick>>

Malformed == 0
NoNodes == 0

\* The files a malformed text leaves without nodes are skipped, and lose those they had.
OnDisk(f) == IF f \in DOMAIN disk THEN disk[f].text ELSE NoNodes

Nothing == [f \in {} |-> 0]
Idle == [phase |-> "idle"]

-----------------------------------------------------------------------------
(* The file system and the clients.                                        *)
Pass ==
  /\ clock < MaxClock
  /\ clock' = clock + 1
  /\ UNCHANGED <<edits, restarts, failures, disk, config, enabled, stored, modTimes, tick>>

Edit(f, text) ==
  /\ edits < MaxEdits
  /\ clock + Settle <= MaxClock
  /\ edits' = edits + 1
  /\ disk' = [g \in DOMAIN disk \cup {f} |->
                IF g = f THEN [mtime |-> clock, text |-> text] ELSE disk[g]]
  /\ UNCHANGED <<clock, restarts, failures, config, enabled, stored, modTimes, tick>>

Remove(f) ==
  /\ edits < MaxEdits
  /\ f \in DOMAIN disk
  /\ edits' = edits + 1
  /\ disk' = Restrict(disk, DOMAIN disk \ {f})
  /\ UNCHANGED <<clock, restarts, failures, config, enabled, stored, modTimes, tick>>

\* config.json is rewritten, or removed, which is "on".
Reconfigure(c) ==
  /\ edits < MaxEdits
  /\ c # config
  /\ edits' = edits + 1
  /\ config' = c
  /\ UNCHANGED <<clock, restarts, failures, disk, enabled, stored, modTimes, tick>>

HoldsOpMu == tick.phase = "read"

\* MemoryCompile of one file, under OpMu.
ClientCompile(f) ==
  /\ ~HoldsOpMu
  /\ f \in DOMAIN disk
  /\ stored' = [stored EXCEPT ![f] = OnDisk(f)]
  /\ UNCHANGED <<env, failures, enabled, modTimes, tick>>

\* The process ends at any point; an open transaction is rolled back.  serve does not start
\* with an invalid configuration.
Restart ==
  /\ restarts < MaxRestarts
  /\ config # "invalid"
  /\ restarts' = restarts + 1
  /\ modTimes' = Nothing
  /\ tick' = Idle
  /\ enabled' = TRUE
  /\ UNCHANGED <<clock, edits, failures, disk, config, stored>>

-----------------------------------------------------------------------------
(* One scan.                                                               *)

\* Mutant: a loop that was disabled no longer reads the configuration.
ReenableTrap == enabled /\ config # "off"

\* reloadConfig: what cannot be read leaves what was.
Reloaded == IF config = "invalid" THEN enabled ELSE config = "on"

\* The top of a tick.
Start ==
  /\ tick.phase = "idle"
  /\ enabled' = Reloaded
  /\ tick' = IF Reloaded
             THEN [phase |-> "walk", now |-> clock, there |-> DOMAIN disk,
                   left |-> File, seen |-> {}, changed |-> Nothing]
             ELSE Idle
  /\ UNCHANGED <<env, failures, stored, modTimes>>

Settled(f) == tick.now >= disk[f].mtime + Settle

\* Mutant: only files never compiled before are taken up.
NeverCompiled(f) == f \notin DOMAIN modTimes

Changed(f) == f \notin DOMAIN modTimes \/ disk[f].mtime > modTimes[f]

\* WalkDir reaches f.  A file removed since the walk began may count as seen.
Visit(f) ==
  LET there == f \in DOMAIN disk IN
  /\ tick.phase = "walk"
  /\ f \in tick.left
  /\ \E listed \in BOOLEAN :
       /\ there => listed
       /\ listed => there \/ f \in tick.there
       /\ tick' = [tick EXCEPT
            !.left = @ \ {f},
            !.seen = IF listed THEN @ \cup {f} ELSE @,
            !.changed = IF there /\ Settled(f) /\ Changed(f)
                        THEN [g \in DOMAIN @ \cup {f} |-> IF g = f THEN disk[f].mtime ELSE @[g]]
                        ELSE @]
  /\ UNCHANGED <<env, failures, enabled, stored, modTimes>>

Fails == failures < MaxFailures /\ failures' = failures + 1

WalkAborted ==
  /\ tick.phase = "walk"
  /\ Fails
  /\ tick' = Idle
  /\ UNCHANGED <<env, enabled, stored, modTimes>>

Deleted == DOMAIN modTimes \ tick.seen

\* What the tick goes on with once the deleted files are dealt with.
AfterPurge ==
  tick' = IF DOMAIN tick.changed = {} THEN Idle
          ELSE [phase |-> "read", changed |-> tick.changed, read |-> Nothing]

\* OpMu.Lock, reconcileDeleted.
Purge ==
  /\ tick.phase = "walk"
  /\ tick.left = {}
  /\ stored' = [f \in File |-> IF f \in Deleted THEN NoNodes ELSE stored[f]]
  /\ modTimes' = Restrict(modTimes, DOMAIN modTimes \ Deleted)
  /\ AfterPurge
  /\ UNCHANGED <<env, failures, enabled>>

\* Mutant: the deleted files are forgotten although their nodes were not purged.
StillKnown == Restrict(modTimes, DOMAIN modTimes \ Deleted)

Unpurged == modTimes

PurgeFailed ==
  /\ tick.phase = "walk"
  /\ Fails
  /\ tick.left = {}
  /\ Deleted # {}
  /\ modTimes' = Unpurged
  /\ AfterPurge
  /\ UNCHANGED <<env, enabled, stored>>

\* A worker of Compile reads f.
Read(f) ==
  /\ tick.phase = "read"
  /\ f \in DOMAIN tick.changed \ DOMAIN tick.read
  /\ f \in DOMAIN disk
  /\ tick' = [tick EXCEPT !.read = [g \in DOMAIN @ \cup {f} |-> IF g = f THEN disk[f].text ELSE @[g]]]
  /\ UNCHANGED <<env, failures, enabled, stored, modTimes>>

\* Mutant: the modification times are taken after the compile.
TimesAfterCompile == [f \in DOMAIN tick.changed |-> IF f \in DOMAIN disk THEN disk[f].mtime ELSE clock]

TimesOfWalk == tick.changed

\* Compile commits, in one transaction.
Commit ==
  /\ tick.phase = "read"
  /\ DOMAIN tick.read = DOMAIN tick.changed
  /\ stored' = [f \in File |-> IF f \in DOMAIN tick.read THEN tick.read[f] ELSE stored[f]]
  /\ modTimes' = [f \in DOMAIN modTimes \cup DOMAIN tick.changed |->
                    IF f \in DOMAIN tick.changed THEN TimesOfWalk[f] ELSE modTimes[f]]
  /\ tick' = Idle
  /\ UNCHANGED <<env, failures, enabled>>

\* A file that is gone or cannot be read, a timeout, or an error of the store: nothing is
\* compiled.
CompileFailed ==
  /\ tick.phase = "read"
  /\ \/ DOMAIN tick.changed \subseteq DOMAIN disk /\ Fails
     \/ ~(DOMAIN tick.changed \subseteq DOMAIN disk) /\ UNCHANGED failures
  /\ tick' = Idle
  /\ UNCHANGED <<env, enabled, stored, modTimes>>

-----------------------------------------------------------------------------
Init ==
  /\ clock = 0
  /\ edits = 0
  /\ restarts = 0
  /\ failures = 0
  /\ disk = Nothing
  /\ config = "on"
  /\ enabled = TRUE
  /\ stored = [f \in File |-> NoNodes]
  /\ modTimes = Nothing
  /\ tick = Idle

Scan ==
  \/ Start
  \/ \E f \in File : Visit(f) \/ Read(f)
  \/ WalkAborted
  \/ Purge
  \/ PurgeFailed
  \/ Commit
  \/ CompileFailed

Next ==
  \/ Pass
  \/ \E f \in File : \/ \E text \in {Malformed, edits + 1} : Edit(f, text)
                     \/ Remove(f)
                     \/ ClientCompile(f)
  \/ \E c \in {"on", "off", "invalid"} : Reconfigure(c)
  \/ Restart
  \/ Scan

\* Ticks keep coming and time passes.
Spec ==
  /\ Init
  /\ [][Next]_vars
  /\ WF_vars(Pass)
  /\ WF_vars(Scan)

-----------------------------------------------------------------------------
(* Properties.                                                             *)

\* No edit is missed: a file whose modification time the loop has recorded was compiled
\* from the text it has now, however an edit fell between walk, read and commit.
NoLostEdit ==
  \A f \in DOMAIN disk \cap DOMAIN modTimes :
     disk[f].mtime <= modTimes[f] => stored[f] = OnDisk(f)

\* The configuration in force says off.
Disabled == config = "off" \/ (config = "invalid" /\ ~enabled)

\* Files that stop changing are compiled in the end, over restarts and failures, unless the
\* loop is left disabled: enabling it again is enough.
ChangesArrive == <>[]Disabled \/ <>[](\A f \in DOMAIN disk : stored[f] = OnDisk(f))

\* A file the running loop has compiled drops all its nodes once it is removed from the
\* source tree, after failed purges too.
DeletionsArrive ==
  \A f \in File, k \in 0..MaxRestarts :
    f \in DOMAIN modTimes \ DOMAIN disk /\ restarts = k
      ~> stored[f] = NoNodes \/ f \in DOMAIN disk \/ restarts > k \/ Disabled
=============================================================================
