---------------------------- MODULE DatabaseOpen ----------------------------
(***************************************************************************)
(* database.New of the service manager's SQLite database, as main calls   *)
(* it at every start of the process: createConfigTable (isTableExist,     *)
(* CREATE TABLE config, INSERT of the one config row holding dbVersion),  *)
(* createServiceTable, createUsersTable, createTrafficMonitorTable, then   *)
(* getVersion and the comparison with dbVersion.  Every statement is a    *)
(* transaction of its own (autocommit), so the file keeps whatever        *)
(* statements committed before the process died.  A New that returns an   *)
(* error ends the process (log.Fatalf); the process is started again.     *)
(***************************************************************************)
EXTENDS Naturals

CONSTANTS
    dbVersion,       \* the schema version this build expects
    StoredVersions,  \* versions a config row written earlier may hold
    MaxSqlFailures,  \* bound on statements returning an error (I/O error, disk full)
    MaxCrashes       \* bound on the times the process dies mid-way

VARIABLES
    tables,          \* the tables the file holds
    configRow,       \* the version in the config row, 0 = the table has no row
    pc,              \* where the process is in New, "open" or "exited"
    crashes,
    sqlFailures      \* statements that returned an error so far

vars == <<tables, configRow, pc, crashes, sqlFailures>>

Tables == {"config", "services", "users", "trafficmonitor"}

\* The create*Table calls New makes after createConfigTable, in order.
NextTable == [services |-> "users", users |-> "trafficmonitor",
              trafficmonitor |-> "getVersion"]

\* The outcomes of one statement: it may fail while the bound allows.
Outcomes == IF sqlFailures < MaxSqlFailures THEN BOOLEAN ELSE {TRUE}

\* A failed statement counts against the bound.
CountSqlFailure(ok) == sqlFailures' = IF ok THEN sqlFailures ELSE sqlFailures + 1

\* createConfigTable: isTableExist("config"); an existing table is kept as
\* it is, whatever rows it holds.
IsConfigTableExist ==
    /\ pc = "isTableExist"
    /\ \E ok \in Outcomes :
          /\ pc' = CASE ~ok                  -> "exited"
                     [] "config" \in tables  -> "services"
                     [] OTHER                -> "createConfig"
          /\ CountSqlFailure(ok)
    /\ UNCHANGED <<tables, configRow, crashes>>

\* CREATE TABLE config.
CreateConfig ==
    /\ pc = "createConfig"
    /\ \E ok \in Outcomes :
          /\ tables' = IF ok THEN tables \cup {"config"} ELSE tables
          /\ pc' = IF ok THEN "insertConfig" ELSE "exited"
          /\ CountSqlFailure(ok)
    /\ UNCHANGED <<configRow, crashes>>

\* INSERT INTO config (version, ...) values(dbVersion, ...).
InsertConfig ==
    /\ pc = "insertConfig"
    /\ \E ok \in Outcomes :
          /\ configRow' = IF ok THEN dbVersion ELSE configRow
          /\ pc' = IF ok THEN "services" ELSE "exited"
          /\ CountSqlFailure(ok)
    /\ UNCHANGED <<tables, crashes>>

\* createServiceTable, createUsersTable, createTrafficMonitorTable:
\* CREATE TABLE IF NOT EXISTS.
CreateTable ==
    /\ pc \in DOMAIN NextTable
    /\ \E ok \in Outcomes :
          /\ tables' = IF ok THEN tables \cup {pc} ELSE tables
          /\ pc' = IF ok THEN NextTable[pc] ELSE "exited"
          /\ CountSqlFailure(ok)
    /\ UNCHANGED <<configRow, crashes>>

\* getVersion: SELECT version FROM config, ErrNotExist when it has no row;
\* New returns ErrVersionMismatch for a version other than dbVersion.
GetVersion ==
    /\ pc = "getVersion"
    /\ \E ok \in Outcomes :
          /\ pc' = IF ok /\ configRow = dbVersion THEN "open" ELSE "exited"
          /\ CountSqlFailure(ok)
    /\ UNCHANGED <<tables, configRow, crashes>>

\* main: a New that failed ends the process with log.Fatalf, and the
\* process is started again, which opens the database first.
Start ==
    /\ pc = "exited"
    /\ pc' = "isTableExist"
    /\ UNCHANGED <<tables, configRow, crashes, sqlFailures>>

\* The process dies between two statements and is started again.
Crash ==
    /\ crashes < MaxCrashes
    /\ pc # "exited"
    /\ crashes' = crashes + 1
    /\ pc' = "isTableExist"
    /\ UNCHANGED <<tables, configRow, sqlFailures>>

\* The first start on a device without a database file, or a start on a
\* file a complete New wrote earlier.
Init ==
    /\ \/ tables = {} /\ configRow = 0
       \/ tables = Tables /\ configRow \in StoredVersions
    /\ pc = "isTableExist"
    /\ crashes = 0
    /\ sqlFailures = 0

Next ==
    \/ IsConfigTableExist \/ CreateConfig \/ InsertConfig \/ CreateTable
    \/ GetVersion \/ Start \/ Crash

\* Each statement returns, and an ended process is started again.
Spec ==
    /\ Init /\ [][Next]_vars
    /\ WF_vars(IsConfigTableExist \/ CreateConfig \/ InsertConfig \/ CreateTable
               \/ GetVersion)
    /\ WF_vars(Start)

TypeOK ==
    /\ tables \subseteq Tables
    /\ configRow \in {0, dbVersion} \cup StoredVersions
    /\ crashes \in 0..MaxCrashes
    /\ sqlFailures \in 0..MaxSqlFailures

\* A database this build created opens at some start and stays open once the
\* process stops dying and its statements stop failing: New creates the config table and its version row
\* together, or a later New completes what an earlier one began.
DatabaseEventuallyOpens == <>[](pc = "open")

=============================================================================
