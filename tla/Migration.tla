----------------------------- MODULE Migration ------------------------------
(***************************************************************************)
(* Opening the session log: NewCompact and migrateCompact                   *)
(* (proxy/internal/logger/compact.go).  The schema is brought up to date by *)
(* a list of statements, each committed by itself: the proxy may crash      *)
(* between any two of them, and what it does on the next start depends on   *)
(* the version it then reads.                                               *)
(*                                                                          *)
(* Between openings the log is used: a request's rows are stored.  How they *)
(* are is the subject of SessionLog; here they only are, or are not, there. *)
(***************************************************************************)
EXTENDS Integers, Sequences, FiniteSets, FiniteSetsExt

CONSTANTS
  InitialVersions,   \* schema versions the database may have been left at
  MaxFaults,         \* bound on failing statements
  MaxCrashes,        \* bound on crashes
  MaxStarts          \* bound on starts of the proxy

schemaVersion == 6

ASSUME InitialAssumption == InitialVersions \subseteq 0..schemaVersion
ASSUME BoundsAssumption ==
  /\ MaxFaults \in Nat /\ MaxCrashes \in Nat /\ MaxStarts \in Nat

DataTables == {"tools", "messages", "sessions", "session_messages", "raw_requests"}
Tables == DataTables \cup {"schema_version"}
AddedColumns == {"user", "project", "provider"}

VARIABLES
  \* the database
  tables,      \* the tables there are
  columns,     \* the columns added to sessions
  versions,    \* the rows of schema_version
  rows,        \* the data tables that hold rows
  legacy,      \* the data tables that a version below 3 left behind
  \* the proxy
  pc,          \* "down", "opening", "migrating", "ready", or "refused":
               \* NewCompact failed and the proxy serves without a log
  from,        \* the version NewCompact read
  at,          \* the next statement of the migration
  \* failures; "faulted": a statement failed since the last start; "misread":
  \* reading a version that was there failed, ever; "undropped": DROP TABLE
  \* failed on a legacy table, ever
  faults, faulted, misread, undropped, crashes, starts

database == << tables, columns, versions, rows, legacy >>
vars == << database, pc, from, at, faults, faulted, misread, undropped, crashes,
           starts >>

TypeOK ==
  /\ tables \subseteq Tables
  /\ columns \subseteq AddedColumns
  /\ versions \subseteq 1..schemaVersion
  /\ rows \subseteq tables \cap DataTables
  /\ legacy \subseteq tables \cap DataTables
  /\ pc \in {"down", "opening", "migrating", "ready", "refused"}
  /\ from \in 0..schemaVersion
  /\ at \in Nat \ {0}
  /\ faults \in 0..MaxFaults
  /\ faulted \in BOOLEAN /\ misread \in BOOLEAN /\ undropped \in BOOLEAN
  /\ crashes \in 0..MaxCrashes
  /\ starts \in 0..MaxStarts

----------------------------------------------------------------------------
(* The migration as a list of statements                                    *)

Statement(do, on, to) == [do |-> do, on |-> on, to |-> to]
Drop(t) == Statement("drop", t, 0)
Create(t) == Statement("create", t, 0)
Index(t) == Statement("index", t, 0)
AddColumn(c) == Statement("add", c, 0)
InsertVersion(v) == Statement("insert", "schema_version", v)
UpdateVersion(v) == Statement("update", "schema_version", v)

DropAll ==
  << Drop("session_messages"), Drop("sessions"), Drop("messages"),
     Drop("tools"), Drop("schema_version"), Drop("raw_requests") >>

\* Mutant: the version of the base schema is not recorded.
CreateBaseUnversioned ==
  << Create("schema_version"), Create("tools"), Create("messages"),
     Create("sessions"), Create("session_messages"), Index("sessions") >>

CreateBase ==
  << Create("schema_version"), Create("tools"), Create("messages"),
     Create("sessions"), Create("session_messages"), Index("sessions"),
     InsertVersion(3) >>

AddRawRequests ==
  << Create("raw_requests"), Index("raw_requests"), UpdateVersion(4) >>

\* Mutant: the version is recorded first.
AddAttributionEarly ==
  << UpdateVersion(5), AddColumn("user"), AddColumn("project") >>
AddAttribution ==
  << AddColumn("user"), AddColumn("project"), UpdateVersion(5) >>

AddProvider == << AddColumn("provider"), UpdateVersion(6) >>

\* migrateCompact(fromVersion).
Program(v) ==
  (IF v < 3 THEN DropAll \o CreateBase ELSE << >>)
    \o (IF v < 4 THEN AddRawRequests ELSE << >>)
    \o (IF v < 5 THEN AddAttribution ELSE << >>)
    \o (IF v < 6 THEN AddProvider ELSE << >>)

----------------------------------------------------------------------------
(* The database as the releases of the proxy left it                        *)

\* What tables versions 1 and 2 had the repository no longer says: any of
\* those that version 3 has.
TablesOf(v) ==
  CASE v = 0 -> {{}}
    [] v \in {1, 2} -> {{"schema_version"} \cup old : old \in SUBSET (DataTables \ {"raw_requests"})}
    [] v = 3 -> {Tables \ {"raw_requests"}}
    [] v > 3 -> {Tables}
ColumnsOf(v) == (IF v >= 5 THEN {"user", "project"} ELSE {})
                  \cup (IF v >= 6 THEN {"provider"} ELSE {})

Init ==
  /\ \E v \in InitialVersions :
       /\ tables \in TablesOf(v) /\ columns = ColumnsOf(v)
       /\ versions = {v} \ {0}
       /\ rows = tables \cap DataTables
       /\ legacy = IF v < 3 THEN rows ELSE {}
  /\ pc = "down" /\ from = 0 /\ at = 1
  /\ faults = 0 /\ faulted = FALSE /\ misread = FALSE /\ undropped = FALSE
  /\ crashes = 0 /\ starts = 0

----------------------------------------------------------------------------
(* NewCompact                                                               *)

Works == UNCHANGED << faults, faulted >>
Fault == faults < MaxFaults /\ faults' = faults + 1 /\ faulted' = TRUE

Start ==
  /\ pc = "down" /\ starts < MaxStarts
  /\ pc' = "opening" /\ starts' = starts + 1 /\ faulted' = FALSE
  /\ UNCHANGED << database, from, at, faults, misread, undropped, crashes >>

\* The error of the SELECT is dropped: the version is then 0, as when there is
\* no table.
StoredVersion == IF versions = {} THEN 0 ELSE Min(versions)

ReadVersion ==
  /\ pc = "opening"
  /\ \/ Works /\ from' = StoredVersion /\ UNCHANGED misread
     \/ Fault /\ from' = 0 /\ misread' = (misread \/ StoredVersion # 0)
  /\ at' = 1
  /\ pc' = IF from' < schemaVersion THEN "migrating" ELSE "ready"
  /\ UNCHANGED << database, undropped, crashes, starts >>

\* A PRAGMA or a statement of the migration fails: the database is closed.
Refuse ==
  /\ pc' = "refused"
  /\ UNCHANGED << database, from, at, misread, undropped, crashes, starts >>

FailPragma == pc = "opening" /\ Fault /\ Refuse

----------------------------------------------------------------------------
(* migrateCompact                                                           *)

Current == Program(from)[at]
Running(do) == pc = "migrating" /\ Current.do = do

\* After the last statement the log is ready.
Advance ==
  /\ at' = at + 1
  /\ pc' = IF at = Len(Program(from)) THEN "ready" ELSE pc
  /\ UNCHANGED << from, misread, crashes, starts >>

\* DROP TABLE deletes the rows first, which the foreign keys of the rows of
\* another table may forbid; an error is ignored.  Whether a session has tools
\* is not told apart, nor what the legacy tables refer to, so either may happen
\* to them.
Children(t) ==
  CASE t = "sessions" -> {"session_messages", "raw_requests"}
    [] t = "messages" -> {"session_messages"}
    [] t = "tools" -> {"sessions"}
    [] OTHER -> {}

LegacyChildren(t) == IF t \in legacy THEN legacy \ {t} ELSE {}
RefusesDrop(t) == (Children(t) \cup LegacyChildren(t)) \cap rows # {}
AllowsDrop(t) == t = "tools" \/ t \in legacy \/ ~RefusesDrop(t)

DropTable ==
  /\ Running("drop") /\ Advance
  /\ LET t == Current.on
     IN  \/ /\ Works /\ AllowsDrop(t)
            /\ tables' = tables \ {t} /\ rows' = rows \ {t} /\ legacy' = legacy \ {t}
            /\ columns' = IF t = "sessions" THEN {} ELSE columns
            /\ versions' = IF t = "schema_version" THEN {} ELSE versions
            /\ UNCHANGED undropped
         \/ /\ (Works /\ RefusesDrop(t)) \/ Fault
            /\ undropped' = (undropped \/ t \in legacy)
            /\ UNCHANGED database

\* CREATE TABLE IF NOT EXISTS, CREATE INDEX IF NOT EXISTS.  (Mutant: without
\* IF NOT EXISTS.)
CreateTableStrict ==
  /\ Running("create") /\ Works
  /\ IF Current.on \in tables
     THEN Refuse
     ELSE /\ Advance
          /\ tables' = tables \cup {Current.on}
          /\ UNCHANGED << columns, versions, rows, legacy, undropped >>

CreateTable ==
  /\ Running("create") /\ Works /\ Advance
  /\ tables' = tables \cup {Current.on}
  /\ UNCHANGED << columns, versions, rows, legacy, undropped >>

CreateIndex ==
  Running("index") /\ Works /\ Advance /\ UNCHANGED << database, undropped >>

\* ALTER TABLE sessions ADD COLUMN: an error when there is one already, or no
\* table.
AddColumnTo ==
  /\ Running("add") /\ Works
  /\ IF Current.on \in columns \/ "sessions" \notin tables
     THEN Refuse
     ELSE /\ Advance
          /\ columns' = columns \cup {Current.on}
          /\ UNCHANGED << tables, versions, rows, legacy, undropped >>

\* INSERT OR REPLACE: the version is the primary key, so a row with another
\* version stays.
RecordBaseVersion ==
  /\ Running("insert") /\ Works /\ Advance
  /\ versions' = versions \cup {Current.to}
  /\ UNCHANGED << tables, columns, rows, legacy, undropped >>

\* UPDATE schema_version SET version: all rows; two of them collide.
RecordVersion ==
  /\ Running("update") /\ Works
  /\ IF Cardinality(versions) > 1
     THEN Refuse
     ELSE /\ Advance
          /\ versions' = IF versions = {} THEN {} ELSE {Current.to}
          /\ UNCHANGED << tables, columns, rows, legacy, undropped >>

FailStatement == pc = "migrating" /\ Current.do # "drop" /\ Fault /\ Refuse

----------------------------------------------------------------------------
(* The proxy otherwise                                                      *)

\* A request is logged: all of its rows that have a table, with tools or without.
UseLog ==
  /\ pc = "ready"
  /\ \E used \in {DataTables, DataTables \ {"tools"}} :
       rows' = rows \cup (used \cap tables)
  /\ UNCHANGED << tables, columns, versions, legacy, pc, from, at, faults, faulted,
                  misread, undropped, crashes, starts >>

\* The proxy is stopped, with the log open or refused.
Stop ==
  /\ pc \in {"ready", "refused"} /\ pc' = "down"
  /\ UNCHANGED << database, from, at, faults, faulted, misread, undropped, crashes,
                  starts >>

Crash ==
  /\ pc \in {"opening", "migrating"} /\ crashes < MaxCrashes
  /\ crashes' = crashes + 1 /\ pc' = "down"
  /\ UNCHANGED << database, from, at, faults, faulted, misread, undropped, starts >>

Migrate ==
  DropTable \/ CreateTable \/ CreateIndex \/ AddColumnTo \/ RecordBaseVersion
    \/ RecordVersion \/ FailStatement

Next ==
  Start \/ ReadVersion \/ FailPragma \/ Migrate \/ UseLog \/ Stop \/ Crash

Spec == Init /\ [][Next]_vars

----------------------------------------------------------------------------
(* What the log must satisfy                                                *)

\* A log that is used has the whole schema of this release and says so,
\* whatever statements failed and wherever earlier starts were cut off, as
\* long as a version that is there could be read in every start; and no table
\* of a version below 3 is left in it unless its DROP failed.
ReadyIsCurrent ==
  (pc = "ready" /\ ~misread) =>
    /\ tables = Tables /\ columns = AddedColumns /\ versions = {schemaVersion}
    /\ legacy = {} \/ undropped

\* The state of the database and of the start that migrates it, with that.
SchemaInv == TypeOK /\ ReadyIsCurrent

\* The database between two starts says of its columns what is true of them
\* (versions below 3 say nothing: their tables are dropped).
\* It does not when a start was cut off, or a statement failed, behind an
\* ALTER TABLE and before its version was recorded, or amid the dropping of
\* tables; nor when DROP TABLE failed.
Coherent ==
  /\ Cardinality(versions) <= 1
  /\ StoredVersion >= 3 => "sessions" \in tables /\ columns = ColumnsOf(StoredVersion)

\* The log is refused only when a statement failed in this start, or when the
\* start found the database incoherent: no crash elsewhere in the migration
\* stands in the way of a later start (the order of statements and the IF NOT
\* EXISTS in migrateCompact).
RefusedOnlyIncoherent == pc = "refused" => faulted \/ ~Coherent

\* The rows of a log of version 3 or later are never dropped, whatever fails or
\* crashes, as long as a version that is there can be read: migrateCompact
\* drops tables below version 3 only, where the log holds no rows yet but those
\* of the legacy tables, which it drops by intent ("Drop any partial/legacy
\* state").  (A read that fails is taken for an empty database.)
KeepsRows == [][misread \/ (rows \ legacy) \subseteq rows']_vars
=============================================================================
