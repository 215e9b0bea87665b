------------------------------ MODULE Database ------------------------------
(***************************************************************************)
(* Processes that open one database file, and the migrations they apply to *)
(* it (packages/core/src/storage/database.ts, migrations.ts).              *)
(*                                                                         *)
(* A migration and its row in schema_migrations are one transaction, so a  *)
(* version stands for both; the transaction is one step, or none when it   *)
(* fails or the process stops.                                             *)
(***************************************************************************)
EXTENDS Integers

CONSTANTS Process, Versions    \* the migrations have the versions 1 to Versions

ASSUME DatabaseAssumption == Versions \in Nat \ {0}

VARIABLES
  process,     \* of each process: "closed", "opening" or "open"
  missing,     \* the migrations an opening process has yet to apply
  applied      \* the migrations in the database

schema == <<process, missing, applied>>

SchemaInit ==
  /\ process = [p \in Process |-> "closed"] /\ missing = [p \in Process |-> {}]
  /\ applied = {}

\* openDatabase, up to its reading of the applied versions outside any transaction.
Open(p) ==
  /\ process[p] = "closed" /\ process' = [process EXCEPT ![p] = "opening"]
  /\ missing' = [missing EXCEPT ![p] = 1 .. Versions \ applied]
  /\ UNCHANGED applied

First(p) == CHOOSE v \in missing[p] : \A w \in missing[p] : v <= w

\* The row is a primary key: the slower of two processes finds it taken.
Migrated(p) ==
  /\ process[p] = "opening" /\ missing[p] # {} /\ First(p) \notin applied
  /\ applied' = applied \cup {First(p)}
  /\ missing' = [missing EXCEPT ![p] = @ \ {First(p)}] /\ UNCHANGED process

\* A transaction that fails is rolled back and ends the program.
Thrown(p) == missing' = [missing EXCEPT ![p] = {}] /\ process' = [process EXCEPT ![p] = "closed"]

PassedOver(p) ==                                                            \* mutant
  /\ process[p] = "opening" /\ missing[p] # {}
  /\ missing' = [missing EXCEPT ![p] = @ \ {First(p)}] /\ UNCHANGED <<process, applied>>

MigrationFails(p) ==
  /\ process[p] = "opening" /\ missing[p] # {}
  /\ Thrown(p) /\ UNCHANGED applied

Opened(p) ==
  /\ process[p] = "opening" /\ missing[p] = {}
  /\ process' = [process EXCEPT ![p] = "open"] /\ UNCHANGED <<missing, applied>>

SchemaNext == \E p \in Process : Open(p) \/ Migrated(p) \/ MigrationFails(p) \/ Opened(p)

\* A process that has the database open has every table in it, whoever applied the
\* migrations and whoever failed on the way (database.ts:61-84).
SchemaReady == \A p \in Process : process[p] = "open" => applied = 1 .. Versions
=============================================================================
