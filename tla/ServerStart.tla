---------------------------- MODULE ServerStart ----------------------------
(***************************************************************************)
(* A server from its start: it migrates the database, beside other commands *)
(* that open it and processes that are killed while they do, and only then  *)
(* compacts the ledger and serves.                                          *)
(***************************************************************************)
EXTENDS SessionLedger, Migrations

ASSUME OpenerAssumption == Process = Opener \ Command

\* A server closes the database when its process ends.
ServerStep ==
  /\ Next
  /\ \A p \in Process : phase[p] = "down" /\ phase'[p] # "down" => opener[p].step = "ready"
  /\ opener' = [o \in Opener |->
       IF o \in Process /\ phase[o] # "down" /\ phase'[o] = "down" THEN Closed ELSE opener[o]]
  /\ UNCHANGED <<schema, recorded>>

OpenerStep(o) ==
  /\ Migrate(o) \/ (Close(o) /\ (o \in Process => phase[o] = "down"))
  /\ UNCHANGED vars

ServerInit == Init /\ MigrateInit

ServerNext == ServerStep \/ \E o \in Opener : OpenerStep(o)

ServerSpec == ServerInit /\ [][ServerNext]_<<vars, migrateVars>> /\ Fairness

\* Whatever is killed or races with whatever else while it migrates: a process that serves has
\* all the schema it was built for, and the next one to open the database can go on from where
\* the others stopped: Store.Migrate.
SchemaCurrent ==
  /\ Openable
  /\ InOrder
  /\ \A p \in Process : phase[p] # "down" => 1..Embedded[p] \subseteq schema
=============================================================================
