--------------------------- MODULE RecordDatabase ---------------------------
(***************************************************************************)
(* The database of execution records and how a server gets to it: the      *)
(* PostgreSQL container that the command line manages for development, and *)
(* ExecutionStorage.init with the schema migrations it runs.               *)
(*                                                                         *)
(* All migrations of one start run in a single transaction, each in a      *)
(* savepoint, under an advisory lock of the session.  The lock is given    *)
(* back before the transaction commits, so two starts overlap there.       *)
(***************************************************************************)
EXTENDS Integers, FiniteSets

CONSTANTS Servers,     \* server processes (tako-vm server [--workers N])
          None,        \* nobody
          Migrations,  \* number of entries of MIGRATIONS
          MaxOps       \* bound: starts, stops, requests and faults

ASSUME DatabaseConstants == None \notin Servers /\ Migrations \in Nat /\ MaxOps \in Nat

VARIABLES container,  \* tako-vm-postgres: "missing", "stopped", "running"
          up,         \* PostgreSQL accepts connections
          schema,     \* committed parts of the schema
          holder,     \* session that holds the migration lock
          pc,         \* where each server is between its start and serving
          at,         \* the part of the schema it deals with
          tx,         \* the parts it has created and not committed
          ops

dbVars == <<container, up, schema, holder, pc, at, tx, ops>>

\* Part 0 is the table schema_migrations, part v the migration number v.
Parts == 0..Migrations

Starting  == {"connect", "inspect", "run", "start", "wait", "open"}
InSession == {"apply", "blocked", "commit"}

DbTypeOK ==
  /\ container \in {"missing", "stopped", "running"}
  /\ up \in BOOLEAN /\ (up => container = "running")
  /\ schema \subseteq Parts
  /\ holder \in Servers \union {None}
  /\ holder # None => pc[holder] \in {"apply", "blocked"}
  /\ pc \in [Servers -> {"off", "ready", "up"} \union Starting \union InSession]
  /\ at \in [Servers -> 0..(Migrations + 1)]
  /\ tx \in [Servers -> SUBSET Parts]
  /\ \A s \in Servers : tx[s] # {} => pc[s] \in InSession
  /\ ops \in 0..MaxOps

\* The volume may hold the schema of any release, and no container.
DbInit ==
  /\ container = "missing" /\ up = FALSE
  /\ schema \in {{}} \union {0..v : v \in Parts}
  /\ holder = None
  /\ pc = [s \in Servers |-> "off"]
  /\ at = [s \in Servers |-> 0]
  /\ tx = [s \in Servers |-> {}]
  /\ ops = 0

Asked == ops < MaxOps /\ ops' = ops + 1

Goes(s, from, to) == pc[s] = from /\ pc' = [pc EXCEPT ![s] = to]

\* Mutant: only the normal way out of init() gives the lock back.
RollbackKeeping(gone) ==
  /\ tx' = [s \in Servers |-> IF s \in gone THEN {} ELSE tx[s]]
  /\ holder' = holder

\* A session ends without a commit: rollback, and the lock is gone.
Rollback(gone) ==
  /\ tx' = [s \in Servers |-> IF s \in gone THEN {} ELSE tx[s]]
  /\ holder' = IF holder \in gone THEN None ELSE holder

-----------------------------------------------------------------------------
(* The managed container (cli.py).                                         *)

StartServer(s) ==
  /\ Asked /\ Goes(s, "off", "connect")
  /\ UNCHANGED <<container, up, schema, holder, at, tx>>

\* _auto_start_local_postgres_if_needed: nothing to do if a connection
\* succeeds, or if the server may not start a database (production, another
\* URL, disabled).
CanConnectDatabase(s) ==
  /\ \/ Goes(s, "connect", "open")
     \/ ~up /\ Goes(s, "connect", "inspect")
  /\ UNCHANGED <<container, up, schema, holder, at, tx, ops>>

InspectContainer(s) ==
  /\ Goes(s, "inspect", CASE container = "missing" -> "run"
                          [] container = "stopped" -> "start"
                          [] container = "running" -> "wait")
  /\ UNCHANGED <<container, up, schema, holder, at, tx, ops>>

\* `docker run --name` is refused if somebody else created the container since;
\* `docker start` of a running container does nothing.  A failure to provide the
\* database is a warning only: the server goes on.
EnsureManagedPostgres(s) ==
  /\ \/ /\ pc[s] = "run" /\ container = "missing"
        /\ container' = "running"
        /\ Goes(s, "run", "wait")
     \/ /\ pc[s] = "run" /\ container # "missing"
        /\ Goes(s, "run", "open") /\ UNCHANGED container
     \/ /\ container' = "running"
        /\ Goes(s, "start", "wait")
  /\ UNCHANGED <<up, schema, holder, at, tx, ops>>

\* The wait ends with a connection or after a minute.
WaitForPostgres(s) ==
  /\ Goes(s, "wait", "open")
  /\ UNCHANGED <<container, up, schema, holder, at, tx, ops>>

PostgresReady ==
  /\ container = "running" /\ ~up /\ up' = TRUE
  /\ UNCHANGED <<container, schema, holder, pc, at, tx, ops>>

\* dev down stops the container whoever uses it: open transactions are lost
\* and a start in the middle of them fails.
DevDown ==
  LET cut == {s \in Servers : pc[s] \in InSession} IN
  /\ Asked
  /\ container = "running" /\ container' = "stopped" /\ up' = FALSE
  /\ Rollback(cut)
  /\ pc' = [s \in Servers |-> IF s \in cut THEN "off" ELSE pc[s]]
  /\ UNCHANGED <<schema, at>>

-----------------------------------------------------------------------------
(* ExecutionStorage.init.                                                  *)

\* pool.open waits for a connection and pg_try_advisory_lock is polled until the
\* lock is free; either may take too long, and then the start fails.
AcquireMigrationLock(s) ==
  /\ IF up /\ holder = None
       THEN /\ Goes(s, "open", "apply")
            /\ holder' = s /\ at' = [at EXCEPT ![s] = 0]
       ELSE Goes(s, "open", "off") /\ UNCHANGED <<holder, at>>
  /\ UNCHANGED <<container, up, schema, tx, ops>>

\* Another transaction has created the part and not committed.
Pending(s, v) == \E q \in Servers \ {s} : v \in tx[q]

\* Mutant: the versions on record are read first and the missing ones applied.
ApplyMigrationChecked(s) ==
  LET v == at[s] IN
  /\ pc[s] = "apply" /\ v \in Parts
  /\ tx' = [tx EXCEPT ![s] = IF v \in schema THEN @ ELSE @ \union {v}]
  /\ at' = [at EXCEPT ![s] = v + 1]
  /\ UNCHANGED <<container, up, schema, holder, pc, ops>>

\* A part on record is skipped, a missing one created.  If another transaction
\* is about to record it, INSERT ... ON CONFLICT waits for its end; CREATE TABLE
\* IF NOT EXISTS waits too, and does not look again.
ApplyMigration(s) ==
  LET v == at[s] IN
  /\ pc[s] = "apply" /\ v \in Parts
  /\ \/ /\ ~Pending(s, v)
        /\ tx' = [tx EXCEPT ![s] = IF v \in schema THEN @ ELSE @ \union {v}]
        /\ at' = [at EXCEPT ![s] = v + 1]
        /\ UNCHANGED pc
     \/ /\ v = 0 /\ Pending(s, v)
        /\ pc' = [pc EXCEPT ![s] = "blocked"]
        /\ UNCHANGED <<at, tx>>
  /\ UNCHANGED <<container, up, schema, holder, ops>>

\* The other transaction is over.  If it created the table, this one fails on
\* the unique index of the catalogue: the start fails.
TableDecided(s) ==
  /\ pc[s] = "blocked" /\ ~Pending(s, 0)
  /\ IF 0 \in schema
       THEN pc' = [pc EXCEPT ![s] = "off"] /\ Rollback({s})
       ELSE pc' = [pc EXCEPT ![s] = "apply"] /\ UNCHANGED <<tx, holder>>
  /\ UNCHANGED <<container, up, schema, at, ops>>

\* finally: pg_advisory_unlock.
AdvisoryUnlock(s) ==
  /\ at[s] = Migrations + 1 /\ Goes(s, "apply", "commit")
  /\ holder' = None
  /\ UNCHANGED <<container, up, schema, at, tx, ops>>

\* The connection context commits.
CommitMigrations(s) ==
  /\ Goes(s, "commit", "ready")
  /\ schema' = schema \union tx[s]
  /\ tx' = [tx EXCEPT ![s] = {}]
  /\ UNCHANGED <<container, up, holder, at, ops>>

\* A process ends in any of these states, or a migration raises.
EndProcess(s) ==
  /\ Asked
  /\ pc[s] # "off" /\ pc' = [pc EXCEPT ![s] = "off"]
  /\ Rollback({s})
  /\ UNCHANGED <<container, up, schema, at>>

DbStep(s) ==
  \/ StartServer(s) \/ CanConnectDatabase(s) \/ InspectContainer(s)
  \/ EnsureManagedPostgres(s) \/ WaitForPostgres(s)
  \/ AcquireMigrationLock(s) \/ ApplyMigration(s) \/ TableDecided(s)
  \/ AdvisoryUnlock(s) \/ CommitMigrations(s)

-----------------------------------------------------------------------------
\* A server that has passed init() finds the whole schema, whatever release the
\* database came from, and no migration is ever applied by two starts, although
\* the lock does not cover the commit.
SchemaSound ==
  /\ \A s \in Servers : pc[s] \in {"ready", "up"} => Parts \subseteq schema
  /\ \A s \in Servers : tx[s] \intersect schema = {}
  /\ \A s, q \in Servers : s # q => tx[s] \intersect tx[q] = {}
=============================================================================
