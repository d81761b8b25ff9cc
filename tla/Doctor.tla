------------------------------- MODULE Doctor -------------------------------
(***************************************************************************)
(* `remindb doctor`, a process of its own that opens a database, runs its   *)
(* checks one after the other and, with --fix, repairs what a check finds:  *)
(* the database the servers of SharedTrail are working on, or one that was  *)
(* damaged from outside, by a tool that does not enforce foreign keys.      *)
(*                                                                         *)
(* Each check is one statement, the one of HEAD two, and a repair another;   *)
(* only HEAD's is a transaction, which reads before it writes.  A check     *)
(* hands nothing on to the next, so they come in any order.                 *)
(* The full-text index, which triggers keep and the doctor can rebuild, the *)
(* migrations and the warning about missing directories are left out, and   *)
(* so are what is reported and the backup that --fix makes first.           *)
(***************************************************************************)
EXTENDS SharedTrail

CONSTANT Damaged   \* damaged databases, as tables

\* Tables whose rows refer to any identifier; numbers of snapshots are AUTOINCREMENT's.
IsDatabase(db) ==
  /\ db = [nodes |-> db.nodes, snaps |-> db.snaps, diffs |-> db.diffs, head |-> db.head]
  /\ IsGraph(db.nodes)
  /\ DOMAIN db.snaps \subseteq SnapshotId

ASSUME DamagedAssumption == \A db \in Damaged : IsDatabase(db)

VARIABLES
  live,      \* whether the doctor is run on the database of the servers, which never changes
  patient,   \* the damaged database it is run on otherwise
  doctor     \* what the doctor is doing

doctorVars == <<sharedVars, live, patient, doctor>>

Tables == [nodes |-> nodes, snaps |-> snaps, diffs |-> diffs, head |-> head]

Sees == IF live THEN Tables ELSE patient

Writes(db) ==
  IF live
  THEN /\ nodes' = db.nodes /\ snaps' = db.snaps /\ diffs' = db.diffs /\ head' = db.head
       /\ UNCHANGED <<seq, world, patient>>
  ELSE patient' = db /\ UNCHANGED vars

-----------------------------------------------------------------------------
(* What the checks count, and the statements that repair it.               *)

OrphanParents(g) == {n \in DOMAIN g : g[n].parent \notin DOMAIN g \cup {NoNode}}

DanglingDiffs(db) == DOMAIN db.diffs \ DOMAIN db.snaps

\* Mutant: orphans are deleted.
OrphansDeleted(db) == [db EXCEPT !.nodes = Restrict(@, DOMAIN @ \ OrphanParents(@))]

PromoteOrphansToRoots(db) ==
  [db EXCEPT !.nodes =
     [n \in DOMAIN @ |-> IF n \in OrphanParents(@) THEN [@[n] EXCEPT !.parent = NoNode] ELSE @[n]]]

SnapshotExists(db, s) == s \in DOMAIN db.snaps
MaxSnapshotID(db) == Max(DOMAIN db.snaps)

\* Mutant: a head that names no snapshot is deleted.
HeadDeleted(db) == [db EXCEPT !.head = 0]

\* The newest snapshot there is; without any, HEAD is deleted.
RepointHeadCursor(db) ==
  [db EXCEPT !.head = IF DOMAIN db.snaps = {} THEN 0 ELSE MaxSnapshotID(db)]

DeleteDanglingDiffs(db) ==
  [db EXCEPT !.diffs = Restrict(@, DOMAIN @ \ DanglingDiffs(db))]

-----------------------------------------------------------------------------
Resting == [at |-> "resting"]

Repairs(checks) == [at |-> "fix", checks |-> checks]

\* Without --fix nothing follows; nor does it if the repair fails.
Found(check, fails) == doctor' = IF fails THEN Repairs({check}) ELSE Resting

CheckParents ==
  /\ doctor = Resting
  /\ Found("orphan_parent_id", OrphanParents(Sees.nodes) # {})

CheckDiffs ==
  /\ doctor = Resting
  /\ Found("dangling_diffs", DanglingDiffs(Sees) # {})

\* HeadCursorRef, and SnapshotExists a statement later.
ReadHeadCursor ==
  /\ doctor = Resting
  /\ Sees.head # 0
  /\ doctor' = [at |-> "verify", ref |-> Sees.head]

VerifyHead ==
  /\ doctor.at = "verify"
  /\ Found("head_cursor", ~SnapshotExists(Sees, doctor.ref))

\* A check whose statement fails, whichever it is, has failed, and is followed by its repair.
CheckErrs ==
  /\ doctor = Resting
  /\ doctor' = Repairs({"orphan_parent_id", "head_cursor", "dangling_diffs"})

Repaired(check) ==
  CASE check = "orphan_parent_id" -> PromoteOrphansToRoots(Sees)
    [] check = "head_cursor" -> RepointHeadCursor(Sees)
    [] check = "dangling_diffs" -> DeleteDanglingDiffs(Sees)

Fix ==
  /\ doctor.at = "fix"
  /\ \E check \in doctor.checks : Writes(Repaired(check))
  /\ doctor' = Resting

FixFails ==
  /\ doctor.at = "fix"
  /\ doctor' = Resting
  /\ UNCHANGED <<vars, patient>>

DoctorStep ==
  /\ \/ /\ CheckParents \/ CheckDiffs \/ ReadHeadCursor \/ VerifyHead \/ CheckErrs
        /\ UNCHANGED <<vars, patient>>
     \/ Fix
     \/ FixFails
  /\ UNCHANGED <<serverOf, opMu, call, live>>

-----------------------------------------------------------------------------
DoctorInit ==
  /\ SharedInit
  /\ \/ live = TRUE /\ patient = Tables
     \/ live = FALSE /\ patient \in Damaged
  /\ doctor = Resting

\* Servers and a doctor that share no database have nothing to do with each other: then
\* only the doctor is looked at.
DoctorNext ==
  \/ live /\ SharedNext /\ UNCHANGED <<live, patient, doctor>>
  \/ DoctorStep

DoctorSpec ==
  /\ DoctorInit
  /\ [][DoctorNext]_doctorVars
  /\ \A th \in Thread :
       /\ WF_sharedVars(Work(th) /\ UNCHANGED <<serverOf, live, patient, doctor>>)
       /\ SF_sharedVars(Acquire(th) /\ UNCHANGED <<serverOf, live, patient, doctor>>)

-----------------------------------------------------------------------------
(* Properties.                                                             *)

Passes(db) ==
  [orphan_parent_id |-> OrphanParents(db.nodes) = {},
   head_cursor      |-> db.head # 0 => db.head \in DOMAIN db.snaps,
   dangling_diffs   |-> DanglingDiffs(db) = {}]

\* No row is lost, nor what it says, but for a parent that is not there; no snapshot is lost
\* or changed, nor are its diff rows.
KeepsRows(db, after) ==
  /\ DOMAIN after.nodes = DOMAIN db.nodes
  /\ \A n \in DOMAIN db.nodes :
       IF n \in OrphanParents(db.nodes)
       THEN after.nodes[n] \in {db.nodes[n], [db.nodes[n] EXCEPT !.parent = NoNode]}
       ELSE after.nodes[n] = db.nodes[n]
  /\ after.snaps = db.snaps
  /\ \A s \in DOMAIN db.snaps \cap DOMAIN db.diffs :
       s \in DOMAIN after.diffs /\ after.diffs[s] = db.diffs[s]

\* A doctor run beside working servers changes nothing, also when the head it has read is
\* gone by the time it looks the snapshot up.  On a damaged database a repair makes its check
\* pass, fails none that passed, and loses nothing.
DoctorHeals ==
  [][IF live THEN doctor' # doctor => UNCHANGED vars
     ELSE /\ KeepsRows(patient, patient')
          /\ patient' # patient => \E check \in doctor.checks : Passes(patient')[check]
          /\ \A check \in DOMAIN Passes(patient) :
               Passes(patient)[check] => Passes(patient')[check]]_doctorVars
=============================================================================
