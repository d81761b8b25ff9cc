----------------------------- MODULE Migrations -----------------------------
(***************************************************************************)
(* Opening a database: Migrate, which every command runs before anything    *)
(* else.  It reads once which migrations are recorded and applies the ones  *)
(* that are missing, in the order of their names, each in a transaction     *)
(* with its record.  Nothing keeps two processes from doing so at a time:   *)
(* the slower one fails on what the faster one has applied, and its command *)
(* ends.  Binaries of different age embed more or fewer migrations.         *)
(***************************************************************************)
EXTENDS Naturals, FiniteSetsExt

CONSTANTS
  Opener,       \* the processes that open the database
  Command,      \* those of them that only run a command; the others serve
  LastMigration,
  Embedded,     \* the last migration the binary of each opener has
  Repeatable    \* the migrations with nothing but IF NOT EXISTS

Migration == 1..LastMigration

ASSUME MigrationsAssumption ==
  LastMigration \in Nat /\ Embedded \in [Opener -> Nat] /\ \A o \in Opener : Embedded[o] <= LastMigration

VARIABLES
  schema,     \* the migrations whose statements are in force
  recorded,   \* table schema_migrations
  opener      \* how far each opener is

migrateVars == <<schema, recorded, opener>>

Closed == [step |-> "closed"]

Moves(o, state) == opener' = [opener EXCEPT ![o] = state]

-----------------------------------------------------------------------------
Missing(o, applied) == 1..Embedded[o] \ applied

\* With nothing left to apply Migrate returns.  What a command does then is left out.
GoesOn(o, applied) ==
  Moves(o, IF Missing(o, applied) # {} THEN [step |-> "migrating", applied |-> applied]
           ELSE IF o \in Command THEN Closed ELSE [step |-> "ready"])

\* Migrate creates the table of records unless it is there, and reads it.
OpenDatabase(o) ==
  /\ opener[o] = Closed
  /\ GoesOn(o, recorded)
  /\ UNCHANGED <<schema, recorded>>

\* Mutant: the migrations are not sorted.
DueLast(o) == Max(Missing(o, opener[o].applied))

Due(o) == Min(Missing(o, opener[o].applied))

\* ALTER TABLE refuses a column that is there, and the table of records a version it has.
Applies(m) == m \notin recorded /\ (m \in schema => m \in Repeatable)

\* Mutant: a migration and its record are two transactions, and the process can end between.
ApplyInTwo(o) ==
  /\ opener[o].step = "migrating"
  /\ LET m == Due(o) IN
     IF Applies(m)
     THEN /\ schema' = schema \cup {m}
          /\ \/ recorded' = recorded \cup {m} /\ GoesOn(o, opener[o].applied \cup {m})
             \/ recorded' = recorded /\ Moves(o, Closed)
     ELSE Moves(o, Closed) /\ UNCHANGED <<schema, recorded>>

\* applyMigration; after an error the command ends.
Apply(o) ==
  /\ opener[o].step = "migrating"
  /\ LET m == Due(o) IN
     IF Applies(m)
     THEN /\ schema' = schema \cup {m}
          /\ recorded' = recorded \cup {m}
          /\ GoesOn(o, opener[o].applied \cup {m})
     ELSE Moves(o, Closed) /\ UNCHANGED <<schema, recorded>>

\* A command is done, fails for another reason, or is killed.
Close(o) ==
  /\ opener[o] # Closed
  /\ Moves(o, Closed)
  /\ UNCHANGED <<schema, recorded>>

\* A database some version of the program has left.
MigrateInit ==
  /\ \E last \in Migration \cup {0} : schema = 1..last /\ recorded = 1..last
  /\ opener = [o \in Opener |-> Closed]

Migrate(o) == OpenDatabase(o) \/ Apply(o)

-----------------------------------------------------------------------------
\* An opener that read the records as they are does not fail on the first migration it misses.
Openable ==
  \A o \in Opener :
    opener[o].step = "migrating" /\ opener[o].applied = recorded => Applies(Due(o))

\* Migrations are applied in order and none is left out.
InOrder == \E last \in Migration \cup {0} : recorded = 1..last
=============================================================================
