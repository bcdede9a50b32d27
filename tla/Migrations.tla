----------------------------- MODULE Migrations -----------------------------
(***************************************************************************)
(* run_migrations of db/migrate.py, which every program calls as it opens  *)
(* the database.  A script is one transaction of its own (BEGIN .. COMMIT, *)
(* and executescript commits what was open), its version is recorded by    *)
(* another, and what is recorded is read once, before the first of them.   *)
(* Processes start together, die anywhere and start again.                 *)
(***************************************************************************)
EXTENDS Naturals

CONSTANTS
    Processes,     \* programs that open the database
    ScriptCount    \* files in db/migrations, numbered as their names sort

ASSUME CountAssumption == ScriptCount \in Nat

Scripts == 1..ScriptCount

VARIABLES
    ledger,     \* whether the table schema_migrations is there
    created,    \* scripts whose tables and indexes are in the schema
    recorded,   \* versions in schema_migrations
    pc,         \* where each process is
    todo        \* the scripts its loop has yet to run

migrationVars == <<ledger, created, recorded, pc, todo>>

MigrationsTypeOK ==
    /\ ledger \in BOOLEAN
    /\ created \subseteq Scripts
    /\ recorded \subseteq Scripts
    /\ pc \in [Processes -> {"down", "open", "read", "loop", "record", "ready"}]
    /\ todo \in [Processes -> SUBSET Scripts]

Init ==
    /\ ledger = FALSE
    /\ created = {}
    /\ recorded = {}
    /\ pc = [p \in Processes |-> "down"]
    /\ todo = [p \in Processes |-> {}]

-----------------------------------------------------------------------------
At(p, where) == pc[p] = where
Goto(p, where) == pc' = [pc EXCEPT ![p] = where]

Start(p) ==
    /\ At(p, "down")
    /\ Goto(p, "open")
    /\ UNCHANGED <<ledger, created, recorded, todo>>

\* The process ends, by itself or not; an open transaction is undone.
Stop(p) ==
    /\ Goto(p, "down")
    /\ todo' = [todo EXCEPT ![p] = {}]
    /\ UNCHANGED <<ledger, created, recorded>>

\* CREATE TABLE IF NOT EXISTS schema_migrations.
OpenLedger(p) ==
    /\ At(p, "open")
    /\ ledger' = TRUE
    /\ Goto(p, "read")
    /\ UNCHANGED <<created, recorded, todo>>

ReadApplied(p) ==
    /\ At(p, "read")
    /\ ledger
    /\ todo' = [todo EXCEPT ![p] = Scripts \ recorded]
    /\ Goto(p, "loop")
    /\ UNCHANGED <<ledger, created, recorded>>

\* Mutant: the files come as glob finds them.
AsFound(p, n) == n \in todo[p]

\* The paths are sorted.
IsNext(p, n) == n \in todo[p] /\ \A m \in todo[p] : n <= m

\* Mutants: a script without IF NOT EXISTS; the version recorded first.
RunScriptOnce(p) ==
    /\ At(p, "loop")
    /\ \E n \in Scripts : /\ IsNext(p, n)
                          /\ n \notin created
                          /\ created' = created \cup {n}
    /\ Goto(p, "record")
    /\ UNCHANGED <<ledger, recorded, todo>>
RecordScript(p) ==
    /\ At(p, "loop")
    /\ \E n \in Scripts : IsNext(p, n) /\ recorded' = recorded \cup {n}
    /\ Goto(p, "record")
    /\ UNCHANGED <<ledger, created, todo>>

\* Every statement of a script is IF NOT EXISTS, so it may run again.
RunScript(p) ==
    /\ At(p, "loop")
    /\ \E n \in Scripts : IsNext(p, n) /\ created' = created \cup {n}
    /\ Goto(p, "record")
    /\ UNCHANGED <<ledger, recorded, todo>>

RecordVersion(p) ==
    /\ At(p, "record")
    /\ \E n \in Scripts : /\ IsNext(p, n)
                          /\ n \notin recorded
                          /\ recorded' = recorded \cup {n}
                          /\ todo' = [todo EXCEPT ![p] = @ \ {n}]
    /\ Goto(p, "loop")
    /\ UNCHANGED <<ledger, created>>

\* Another process recorded it meanwhile: the IntegrityError ends this one.
VersionTaken(p) ==
    /\ At(p, "record")
    /\ \E n \in Scripts : IsNext(p, n) /\ n \in recorded
    /\ Stop(p)

\* run_migrations returns.
Finish(p) ==
    /\ At(p, "loop")
    /\ todo[p] = {}
    /\ Goto(p, "ready")
    /\ UNCHANGED <<ledger, created, recorded, todo>>

\* The program did what it was called for.
Close(p) ==
    /\ At(p, "ready")
    /\ Stop(p)

\* The process dies, or SQLite refuses a statement: the database is locked.
Die(p) ==
    /\ ~At(p, "down")
    /\ Stop(p)

-----------------------------------------------------------------------------
Migrate(p) ==
    \/ OpenLedger(p) \/ ReadApplied(p) \/ RunScript(p) \/ RecordVersion(p)
    \/ VersionTaken(p) \/ Finish(p) \/ Close(p)

MigrationsNext == \E p \in Processes : Start(p) \/ Migrate(p) \/ Die(p)

\* What was started goes on until it dies; programs are started for ever.
MigrationsSpec ==
    /\ Init /\ [][MigrationsNext]_migrationVars
    /\ \A p \in Processes : WF_migrationVars(Migrate(p)) /\ WF_migrationVars(Start(p))

-----------------------------------------------------------------------------
\* Versions are of scripts that took effect, and these did so in order.
EffectsInOrder ==
    /\ recorded \subseteq created
    /\ \A n \in created, m \in Scripts : m < n => m \in recorded

(* What is recorded is in the schema, and scripts take effect in filename  *)
(* order: before a script does, all that come earlier are there and        *)
(* recorded, whichever processes ran them and wherever they died.  So a    *)
(* program that goes on after run_migrations has every table, although it  *)
(* may have run only some of the scripts itself.                           *)
SchemaInOrder ==
    /\ EffectsInOrder
    /\ \A p \in Processes : At(p, "ready") => created = Scripts

(* When processes no longer die, run_migrations returns to some program    *)
(* again and again: no process that died between a script and its record,  *)
(* or lost the race for one, leaves a database that none can open.         *)
SchemaCompletes ==
    <>[][\A p \in Processes : ~At(p, "down") /\ Stop(p) => Migrate(p)]_migrationVars
        => []<>(\E p \in Processes : At(p, "ready"))
=============================================================================
