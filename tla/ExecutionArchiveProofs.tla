------------------------- MODULE ExecutionArchiveProofs -------------------------
(***************************************************************************)
(* Types, the soundness of the schema, the lineage of reruns and forks,    *)
(* and what the sweeps may take from files and workspaces, for any number  *)
(* of servers, migrations, executions, attempts and faults.                *)
(***************************************************************************)
EXTENDS ExecutionArchive, TLAPS

USE DatabaseConstants, ArchiveConstants

\* The two kinds of busy threads.
Fetching == [at : {"fetched"}, s : Servers, q : Ids, rel : {"rerun", "fork"}, named : BOOLEAN]

Working == [at : {"queued", "store", "run", "save"}, c : 0..MaxTime, t0 : 0..MaxTime,
            n : 0..MaxAttempts, named : BOOLEAN, late : BOOLEAN]

ArchiveTypeOK ==
  /\ now \in 0..MaxTime
  /\ job \in [Ids -> Jobs \union {NoJob}]
  /\ thread \in [Ids -> {Idle} \union Fetching \union Working]
  /\ rows \in [Ids -> Rows \union {NoRow}]
  /\ dirs \in [Ids -> Dirs \union {NoDir}]
  /\ ws \in [Ids -> 0..MaxTime \union {None}]
  /\ sweep \in [Servers -> {"sleep", "disk"}]

\* The type invariant falls into that of the database and that of the archive.
LEMMA TypesSplit == TypeOK <=> DbTypeOK /\ ArchiveTypeOK
BY DEF TypeOK, ArchiveTypeOK, Fetching, Working

-----------------------------------------------------------------------------
(* The database.                                                           *)

\* What has been achieved at each point of a start: the parts a session has passed
\* are committed or its own, and a session that commits has passed them all.
Applied ==
  \A s \in Servers :
    /\ pc[s] \in InSession => \A v \in Parts : v < at[s] => v \in schema \union tx[s]
    /\ pc[s] = "commit" => at[s] = Migrations + 1

DbInv == DbTypeOK /\ SchemaSound /\ Applied

\* The parts of the schema before a part are parts.
LEMMA FirstParts == \A v \in Parts : 0..v \subseteq Parts
BY DEF Parts

\* Before any server starts, the schema is what the last release committed.
LEMMA DbInitInv == Init => DbInv
<1> SUFFICES ASSUME DbInit PROVE DbInv
  BY DEF Init
<1>1. schema \subseteq Parts
  <2>1. schema = {} \/ \E v \in Parts : schema = 0..v
    BY DEF DbInit
  <2> QED BY <2>1, FirstParts
<1>2. /\ container = "missing" /\ up = FALSE /\ holder = None /\ ops = 0
      /\ pc = [s \in Servers |-> "off"]
      /\ at = [s \in Servers |-> 0]
      /\ tx = [s \in Servers |-> {}]
  BY DEF DbInit
<1>3. 0 \in 0..(Migrations + 1) /\ 0 \in 0..MaxOps
  OBVIOUS
<1>4. DbTypeOK
  BY <1>1, <1>2, <1>3 DEF DbTypeOK, Starting, InSession
<1>5. SchemaSound /\ Applied
  BY <1>2 DEF SchemaSound, Applied, InSession
<1> QED BY <1>4, <1>5 DEF DbInv

\* A step that takes at most one of the bounded requests and leaves the rest alone.
LEMMA DbElsewhere ==
  ASSUME DbInv, UNCHANGED <<container, up, schema, holder, pc, at, tx>>, Asked \/ ops' = ops
  PROVE  DbInv'
<1>1. ops' \in 0..MaxOps
  BY DEF DbInv, DbTypeOK, Asked
<1> QED BY <1>1 DEF DbInv, DbTypeOK, SchemaSound, Applied

\* A server moves between states in which it has no session.
LEMMA DbMove ==
  ASSUME DbInv, NEW s \in Servers,
         NEW q \in {"off", "ready", "up"} \union Starting, pc' = [pc EXCEPT ![s] = q],
         pc[s] \notin InSession, q \in {"ready", "up"} => pc[s] \in {"ready", "up"},
         UNCHANGED <<schema, holder, at, tx>>,
         container' = container \/ container' = "running", up' = up,
         Asked \/ ops' = ops
  PROVE  DbInv'
<1>1. ops' \in 0..MaxOps
  BY DEF DbInv, DbTypeOK, Asked
<1>2. DbTypeOK'
  BY <1>1 DEF DbInv, DbTypeOK, Starting, InSession
<1>3. SchemaSound' /\ Applied'
  BY DEF DbInv, DbTypeOK, SchemaSound, Applied, Starting, InSession
<1> QED BY <1>2, <1>3 DEF DbInv

\* Up to the migrations a start only looks at the database and its container.
LEMMA StartingStep ==
  ASSUME DbInv, NEW s \in Servers,
         \/ StartServer(s) \/ CanConnectDatabase(s) \/ InspectContainer(s)
         \/ EnsureManagedPostgres(s) \/ WaitForPostgres(s)
  PROVE  DbInv'
<1> USE DbMove DEF Goes, Starting, InSession
<1>1. CASE StartServer(s)
  BY <1>1 DEF StartServer
<1>2. CASE CanConnectDatabase(s)
  BY <1>2 DEF CanConnectDatabase
<1>3. CASE InspectContainer(s)
  BY <1>3 DEF InspectContainer, DbInv, DbTypeOK
<1>4. CASE EnsureManagedPostgres(s)
  BY <1>4 DEF EnsureManagedPostgres
<1>5. CASE WaitForPostgres(s)
  BY <1>5 DEF WaitForPostgres
<1> QED BY <1>1, <1>2, <1>3, <1>4, <1>5

\* A session that takes the advisory lock has passed no part yet.
LEMMA LockStep == ASSUME DbInv, NEW s \in Servers, AcquireMigrationLock(s) PROVE DbInv'
<1> USE DEF AcquireMigrationLock, Goes, DbInv, DbTypeOK, Starting, InSession
<1>1. DbTypeOK'
  OBVIOUS
<1>2. SchemaSound' /\ Applied'
  BY DEF SchemaSound, Applied, Parts
<1> QED BY <1>1, <1>2

\* A part that is passed is committed, or becomes the session's own.
LEMMA ApplyStep == ASSUME DbInv, NEW s \in Servers, ApplyMigration(s) PROVE DbInv'
<1> USE DEF DbInv, DbTypeOK, Starting, InSession
<1>1. CASE pc' = pc
  <2>1. /\ pc[s] = "apply" /\ at[s] \in Parts /\ ~Pending(s, at[s])
        /\ tx' = [tx EXCEPT ![s] = IF at[s] \in schema THEN @ ELSE @ \union {at[s]}]
        /\ at' = [at EXCEPT ![s] = at[s] + 1]
        /\ UNCHANGED <<container, up, schema, holder, pc, ops>>
    BY <1>1 DEF ApplyMigration
  <2>2. DbTypeOK'
    BY <2>1 DEF Parts
  <2>3. SchemaSound'
    BY <2>1 DEF SchemaSound, Pending
  <2>4. Applied'
    BY <2>1 DEF Applied, Parts
  <2> QED BY <2>2, <2>3, <2>4
<1>2. CASE pc' # pc
  <2>1. /\ pc[s] = "apply" /\ pc' = [pc EXCEPT ![s] = "blocked"]
        /\ UNCHANGED <<container, up, schema, holder, at, tx, ops>>
    BY <1>2 DEF ApplyMigration
  <2>2. DbTypeOK'
    BY <2>1
  <2>3. SchemaSound' /\ Applied'
    BY <2>1 DEF SchemaSound, Applied
  <2> QED BY <2>2, <2>3
<1> QED BY <1>1, <1>2

\* Sessions end without a commit.
LEMMA RollbackStep ==
  ASSUME DbInv, NEW gone \in SUBSET Servers, Rollback(gone),
         pc' = [s \in Servers |-> IF s \in gone THEN "off" ELSE pc[s]],
         container' \in {"missing", "stopped", "running"}, up' \in BOOLEAN,
         up' => container' = "running", UNCHANGED <<schema, at>>, Asked \/ ops' = ops
  PROVE  DbInv'
<1> USE DEF DbInv, DbTypeOK, Starting, InSession, Rollback
<1>1. ops' \in 0..MaxOps
  BY DEF Asked
<1>2. DbTypeOK'
  BY <1>1
<1>3. SchemaSound' /\ Applied'
  BY DEF SchemaSound, Applied
<1> QED BY <1>2, <1>3

\* A session that waited for another's CREATE TABLE fails if that one committed, and
\* applies the part itself if not.
LEMMA DecidedStep == ASSUME DbInv, NEW s \in Servers, TableDecided(s) PROVE DbInv'
<1>1. CASE 0 \in schema
  <2>1. pc' = [q \in Servers |-> IF q \in {s} THEN "off" ELSE pc[q]]
    BY <1>1 DEF TableDecided, DbInv, DbTypeOK
  <2> QED BY <1>1, <2>1, RollbackStep DEF TableDecided, DbInv, DbTypeOK
<1>2. CASE 0 \notin schema
  <2>1. /\ pc[s] = "blocked" /\ pc' = [pc EXCEPT ![s] = "apply"]
        /\ UNCHANGED <<container, up, schema, holder, at, tx, ops>>
    BY <1>2 DEF TableDecided
  <2> QED BY <2>1 DEF DbInv, DbTypeOK, SchemaSound, Applied, InSession
<1> QED BY <1>1, <1>2

\* A session gives the lock back when it has passed every part, before it commits.
LEMMA UnlockStep == ASSUME DbInv, NEW s \in Servers, AdvisoryUnlock(s) PROVE DbInv'
<1> USE DEF AdvisoryUnlock, Goes, DbInv, DbTypeOK, InSession
<1>1. DbTypeOK'
  OBVIOUS
<1>2. SchemaSound' /\ Applied'
  BY DEF SchemaSound, Applied
<1> QED BY <1>1, <1>2

\* The lock is long gone, but what a session commits is its own.
LEMMA CommitStep == ASSUME DbInv, NEW s \in Servers, CommitMigrations(s) PROVE DbInv'
<1> USE DEF CommitMigrations, Goes, DbInv, DbTypeOK, InSession
<1>1. DbTypeOK'
  OBVIOUS
<1>2. \A v \in Parts : v \in schema'
  BY DEF Applied, Parts
<1>3. SchemaSound'
  BY <1>2 DEF SchemaSound
<1>4. Applied'
  BY DEF Applied
<1> QED BY <1>1, <1>3, <1>4

\* A process that ends takes its uncommitted parts with it.
LEMMA EndStep == ASSUME DbInv, NEW s \in Servers, EndProcess(s) PROVE DbInv'
<1>1. pc' = [q \in Servers |-> IF q \in {s} THEN "off" ELSE pc[q]]
  BY DEF EndProcess, DbInv, DbTypeOK
<1> QED BY <1>1, RollbackStep DEF EndProcess, DbInv, DbTypeOK

\* Starting and stopping the container does not change what is committed.
LEMMA ContainerStep == ASSUME DbInv, PostgresReady \/ DevDown PROVE DbInv'
<1>1. CASE PostgresReady
  BY <1>1 DEF PostgresReady, DbInv, DbTypeOK, SchemaSound, Applied
<1>2. CASE DevDown
  BY <1>2, RollbackStep DEF DevDown
<1> QED BY <1>1, <1>2

\* A server whose migrations are committed goes up, or off.
LEMMA ReconcileStep == ASSUME DbInv, NEW s \in Servers, Reconcile(s) PROVE DbInv'
BY DbMove DEF Reconcile, InSession, Starting

\* Every step keeps the invariant of the database; those of the archive do not see it.
LEMMA DbNext == ASSUME DbInv, [Next]_vars PROVE DbInv'
<1>1. ASSUME NEW s \in Servers, Server(s) PROVE DbInv'
  <2>1. CASE DbStep(s)
    BY <2>1, StartingStep, LockStep, ApplyStep, DecidedStep, UnlockStep, CommitStep DEF DbStep
  <2>2. CASE CleanupRecords(s) \/ CleanupDisk(s)
    BY <2>2, DbElsewhere DEF CleanupRecords, CleanupDisk, dbVars
  <2> QED BY <1>1, <2>1, <2>2, ReconcileStep, EndStep DEF Server, ServerEnds
<1>2. ASSUME NEW s \in Servers, NEW i \in Ids, Requests(s, i) PROVE DbInv'
  BY <1>2, DbElsewhere DEF Requests, ExecuteCodeAsync, ExecuteCode, FetchParent
<1>3. ASSUME NEW i \in Ids, Executor(i) \/ SubmitReplay(i) PROVE DbInv'
  BY <1>3, DbElsewhere DEF Executor, StartThread, StoreReplayArtifacts, RetryAttempt, RunEnds,
     GiveUp, SaveOutcome, SubmitReplay, dbVars
<1>4. CASE Tick \/ UNCHANGED vars
  BY <1>4, DbElsewhere DEF Tick, vars, dbVars
<1> QED BY <1>1, <1>2, <1>3, <1>4, ContainerStep DEF Next

\* However many servers start at once, on a database of whatever release, one that
\* serves has the whole schema, and no part is applied twice (_run_migrations).
THEOREM SchemaIsSound == Spec => []SchemaSound
<1>1. DbInv => SchemaSound
  BY DEF DbInv
<1> QED BY <1>1, DbInitInv, DbNext, PTL DEF Spec

-----------------------------------------------------------------------------
(* The archive.                                                            *)

\* The archive starts empty and typed.
LEMMA ArchiveInitTypes == Init => ArchiveTypeOK
BY DEF Init, ArchiveTypeOK

\* A record saved by SaveRecord is a row.
LEMMA SavedIsRow ==
  ASSUME NEW r \in Rows \union {NoRow}, NEW c \in 0..MaxTime, NEW b \in BOOLEAN
  PROVE  SaveRecord(r, c, b) \in Rows \union {NoRow}
BY DEF SaveRecord, Rows

\* A directory that is touched, or made by the touch, is a directory.
LEMMA TouchedIsDir ==
  ASSUME ArchiveTypeOK, NEW i \in Ids PROVE Touch(i) \in Dirs
BY DEF ArchiveTypeOK, Touch, Dirs, Content

\* A thread that was just submitted is a working one.
LEMMA QueuedIsWorking == Queued \in Working
BY DEF Queued, Working

\* submit() in the hands of a handler.
LEMMA SubmitTypes ==
  ASSUME ArchiveTypeOK, NEW i \in Ids, NEW j \in Jobs, SubmitJob(i, j),
         UNCHANGED <<now, dirs, ws, sweep>>
  PROVE  ArchiveTypeOK'
BY QueuedIsWorking DEF ArchiveTypeOK, SubmitJob, Rows

\* Submissions, synchronous executions and the reads of rerun and fork keep the types.
LEMMA RequestTypes ==
  ASSUME ArchiveTypeOK, NEW s \in Servers, NEW i \in Ids, Requests(s, i)
  PROVE  ArchiveTypeOK'
<1>1. CASE ExecuteCodeAsync(s, i)
  BY <1>1, SubmitTypes DEF ExecuteCodeAsync, Jobs, Content, ArchiveTypeOK
<1>2. CASE ExecuteCode(s, i)
  BY <1>2, QueuedIsWorking DEF ExecuteCode, Jobs, Content, ArchiveTypeOK
<1>3. ASSUME NEW q \in Ids, NEW rel \in {"rerun", "fork"}, FetchParent(s, i, q, rel)
      PROVE  ArchiveTypeOK'
  <2>1. rows[q].named \in BOOLEAN
    BY <1>3 DEF FetchParent, ArchiveTypeOK, Rows
  <2> QED BY <1>3, <2>1 DEF FetchParent, ArchiveTypeOK, Fetching
<1> QED BY <1>1, <1>2, <1>3 DEF Requests

\* What a thread of each kind looks like.
LEMMA ThreadKinds ==
  ASSUME ArchiveTypeOK, NEW i \in Ids
  PROVE  /\ thread[i].at = "fetched" => thread[i] \in Fetching
         /\ thread[i].at \in {"queued", "store", "run", "save"} => thread[i] \in Working
         /\ thread[i] # Idle /\ thread[i].at # "fetched" => thread[i] \in Working
BY DEF ArchiveTypeOK, Idle, Fetching, Working

\* Rerun and fork submit a job of the types of their parent's files.
LEMMA SubmitReplayTypes ==
  ASSUME ArchiveTypeOK, NEW i \in Ids, SubmitReplay(i) PROVE ArchiveTypeOK'
<1> DEFINE f == thread[i]
           d == dirs[f.q]
<1>1. f \in Fetching
  BY ThreadKinds DEF SubmitReplay
<1>2. CASE up /\ ReplayData(f.named, d)
  <2>1. d \in Dirs
    BY <1>1, <1>2 DEF ReplayData, ArchiveTypeOK, Fetching
  <2>2. [s |-> f.s, sync |-> FALSE, t |-> now, rel |-> f.rel, parent |-> f.q,
         code |-> IF f.rel = "rerun" THEN d.code ELSE i, input |-> d.input] \in Jobs
    BY <1>1, <2>1 DEF Fetching, Dirs, Jobs, Content, ArchiveTypeOK
  <2> QED BY <1>2, <2>2, SubmitTypes DEF SubmitReplay
<1>3. CASE ~(up /\ ReplayData(f.named, d))
  BY <1>3 DEF SubmitReplay, ArchiveTypeOK
<1> QED BY <1>2, <1>3

\* A thread that works has a job.
Employed == \A i \in Ids : thread[i] \in Working => job[i] # NoJob

\* What the executor thread of a job does keeps the types.
LEMMA ExecutorTypes ==
  ASSUME ArchiveTypeOK, Employed, NEW i \in Ids, Executor(i) PROVE ArchiveTypeOK'
<1>0. now \in 0..MaxTime
  BY DEF ArchiveTypeOK
<1>w. thread[i].at \in {"queued", "store", "run", "save"} => thread[i] \in Working /\ job[i] \in Jobs
  BY ThreadKinds DEF Employed, ArchiveTypeOK
<1>1. CASE StartThread(i)
  <2>1. thread[i] \in Working
    BY <1>1, <1>w DEF StartThread
  <2>2. [thread[i] EXCEPT !.at = "store", !.c = now] \in Working
    BY <1>0, <2>1 DEF Working
  <2>3. [Touch(i) EXCEPT !.code = Torn, !.input = Torn] \in Dirs
    BY TouchedIsDir DEF Dirs, Content
  <2> QED BY <1>1, <2>2, <2>3 DEF StartThread, ArchiveTypeOK
<1>2. CASE StoreReplayArtifacts(i)
  <2>1. PICK stored \in BOOLEAN :
          /\ stored => dirs[i] # NoDir
          /\ dirs' = IF stored
               THEN [dirs EXCEPT ![i] = [@ EXCEPT !.code = job[i].code, !.input = job[i].input]]
               ELSE dirs
          /\ thread' = [thread EXCEPT ![i] = [@ EXCEPT !.at = "run", !.n = 1, !.t0 = now,
                                                      !.named = stored]]
    BY <1>2 DEF StoreReplayArtifacts
  <2>2. thread[i] \in Working /\ job[i] \in Jobs
    BY <1>2, <1>w DEF StoreReplayArtifacts
  <2>3. 1 \in 0..MaxAttempts
    OBVIOUS
  <2>4. [thread[i] EXCEPT !.at = "run", !.n = 1, !.t0 = now, !.named = stored] \in Working
    BY <1>0, <2>2, <2>3 DEF Working
  <2>5. dirs[i] # NoDir =>
          [dirs[i] EXCEPT !.code = job[i].code, !.input = job[i].input] \in Dirs
    <3>1. job[i].code \in Content /\ job[i].input \in Content
      BY <2>2 DEF Jobs
    <3>2. dirs[i] # NoDir => dirs[i] \in Dirs
      BY DEF ArchiveTypeOK
    <3> QED BY <3>1, <3>2 DEF Dirs
  <2>6. dirs' \in [Ids -> Dirs \union {NoDir}]
    BY <2>1, <2>5 DEF ArchiveTypeOK
  <2> QED BY <1>2, <2>1, <2>4, <2>6 DEF StoreReplayArtifacts, ArchiveTypeOK
<1>3. CASE RetryAttempt(i)
  <2>1. thread[i] \in Working /\ thread[i].n < MaxAttempts
    BY <1>3, <1>w DEF RetryAttempt
  <2>2. [thread[i] EXCEPT !.n = @ + 1, !.t0 = now] \in Working
    <3>1. thread[i].n + 1 \in 0..MaxAttempts
      BY <2>1 DEF Working
    <3> QED BY <1>0, <2>1, <3>1 DEF Working
  <2>3. thread' = [thread EXCEPT ![i] = [thread[i] EXCEPT !.n = @ + 1, !.t0 = now]]
    BY <1>3 DEF RetryAttempt
  <2> QED BY <1>3, <2>2, <2>3 DEF RetryAttempt, ArchiveTypeOK
<1>4. CASE RunEnds(i)
  <2>1. thread[i] \in Working
    BY <1>4, <1>w DEF RunEnds
  <2>2. [thread[i] EXCEPT !.at = "save", !.n = 0, !.t0 = 0] \in Working
    <3>1. 0 \in 0..MaxAttempts /\ 0 \in 0..MaxTime
      OBVIOUS
    <3> QED BY <2>1, <3>1 DEF Working
  <2>3. thread' = [thread EXCEPT ![i] = [thread[i] EXCEPT !.at = "save", !.n = 0, !.t0 = 0]]
    BY <1>4 DEF RunEnds
  <2> QED BY <1>4, <2>2, <2>3, TouchedIsDir DEF RunEnds, ArchiveTypeOK
<1>5. CASE GiveUp(i)
  <2>1. thread[i] \in Working /\ job[i] \in Jobs
    BY <1>5, ThreadKinds DEF GiveUp, Employed, ArchiveTypeOK
  <2>2. [thread[i] EXCEPT !.late = TRUE] \in Working
    BY <2>1 DEF Working
  <2>3. SaveRecord(rows[i], job[i].t, FALSE) \in Rows \union {NoRow}
    BY <2>1, SavedIsRow DEF Jobs, ArchiveTypeOK
  <2> QED BY <1>5, <2>2, <2>3 DEF GiveUp, ArchiveTypeOK
<1>6. CASE SaveOutcome(i)
  <2>1. thread[i] \in Working
    BY <1>6, <1>w DEF SaveOutcome
  <2>2. SaveRecord(rows[i], thread[i].c, thread[i].named) \in Rows \union {NoRow}
    BY <2>1, SavedIsRow DEF Working, ArchiveTypeOK
  <2> QED BY <1>6, <2>2 DEF SaveOutcome, ArchiveTypeOK
<1> QED BY <1>1, <1>2, <1>3, <1>4, <1>5, <1>6 DEF Executor

\* Clean-ups, starts and ends of a server keep the types.
LEMMA ServerTypes ==
  ASSUME ArchiveTypeOK, NEW s \in Servers, Server(s) PROVE ArchiveTypeOK'
<1>1. CASE Reconcile(s)
  <2>1. \A i \in Ids : rows[i] # NoRow => [rows[i] EXCEPT !.done = TRUE] \in Rows
    BY DEF ArchiveTypeOK, Rows
  <2>2. rows' \in [Ids -> Rows \union {NoRow}]
    BY <1>1, <2>1 DEF Reconcile, ArchiveTypeOK
  <2>3. ws' \in [Ids -> 0..MaxTime \union {None}]
    BY <1>1 DEF Reconcile, PruneStaleWorkspaces, ArchiveTypeOK
  <2> QED BY <1>1, <2>2, <2>3 DEF Reconcile, ArchiveTypeOK
<1>2. CASE ServerEnds(s)
  BY <1>2 DEF ServerEnds, ArchiveTypeOK
<1>3. CASE CleanupRecords(s)
  BY <1>3 DEF CleanupRecords, ArchiveTypeOK
<1>4. CASE CleanupDisk(s)
  BY <1>4 DEF CleanupDisk, PruneStaleWorkspaces, PruneOldRunDirs, ArchiveTypeOK, dbVars
<1>5. CASE UNCHANGED archiveVars
  BY <1>5 DEF archiveVars, ArchiveTypeOK
<1> QED BY <1>1, <1>2, <1>3, <1>4, <1>5 DEF Server

-----------------------------------------------------------------------------
(* Types and lineage.                                                      *)

\* A handler that replays has no job yet.
Unsubmitted == \A i \in Ids : thread[i].at = "fetched" => job[i] = NoJob

\* The files of an execution that can be read are those of its job.
OwnContent(i, d) ==
  \/ d.input \in {None, Torn}
  \/ d.input = job[i].input /\ d.code = job[i].code

Kept == \A i \in Ids : dirs[i] # NoDir => job[i] # NoJob /\ OwnContent(i, dirs[i])

\* A job with a parent was submitted after its parent, and runs what it ran.
Descended ==
  \A i \in Ids : job[i] # NoJob /\ job[i].parent # None =>
    LET p == job[i].parent IN
    /\ job[p] # NoJob
    /\ job[i].input = job[p].input
    /\ job[i].rel = "rerun" => job[i].code = job[p].code

LInv == ArchiveTypeOK /\ Employed /\ Unsubmitted /\ Kept /\ Descended

\* Nothing was submitted: there is no lineage to be wrong.
LEMMA LineageInit == Init => LInv
BY ArchiveInitTypes DEF Init, LInv, Employed, Unsubmitted, Kept, Descended, Idle, Working

\* Steps that submit nothing: no thread works without a job, and a directory keeps
\* what it has, goes, or gets files of its own.
LEMMA SameJobs ==
  ASSUME LInv, ArchiveTypeOK', job' = job,
         \A i \in Ids : thread'[i] \in Working => thread[i] \in Working,
         \A i \in Ids : thread'[i].at = "fetched" => thread[i].at = "fetched" \/ job[i] = NoJob,
         \A i \in Ids : \/ dirs'[i] \in {dirs[i], NoDir}
                        \/ job[i] # NoJob /\ OwnContent(i, dirs'[i])
  PROVE  LInv'
<1> USE DEF LInv
<1>1. Employed'
  BY DEF Employed
<1>2. Unsubmitted'
  BY DEF Unsubmitted
<1>3. Kept'
  BY DEF Kept, OwnContent
<1>4. Descended'
  BY DEF Descended
<1> QED BY <1>1, <1>2, <1>3, <1>4

\* A submission under a new id.
LEMMA NewJob ==
  ASSUME LInv, ArchiveTypeOK', NEW i \in Ids, job[i] = NoJob,
         NEW j \in Jobs, job' = [job EXCEPT ![i] = j], dirs' = dirs,
         thread' = [thread EXCEPT ![i] = Queued],
         j.parent # None => /\ job[j.parent] # NoJob
                            /\ j.input = job[j.parent].input
                            /\ j.rel = "rerun" => j.code = job[j.parent].code
  PROVE  LInv'
<1> USE DEF LInv, ArchiveTypeOK
<1>0. j # NoJob
  BY NothingThere
<1>1. Employed'
  BY <1>0 DEF Employed
<1>2. Unsubmitted'
  BY DEF Unsubmitted, Queued
<1>3. Kept'
  BY <1>0 DEF Kept, OwnContent
<1>4. \A k \in Ids : job[k] # NoJob => job'[k] = job[k]
  OBVIOUS
<1>5. \A k \in Ids : job[k] # NoJob => job[k].parent \in Ids \union {None}
  BY DEF Jobs
<1>6. j.parent \in Ids \union {None}
  BY DEF Jobs
<1>7. Descended'
  BY <1>0, <1>4, <1>5, <1>6 DEF Descended
<1> QED BY <1>1, <1>2, <1>3, <1>7

\* A new id has no files, and what a request has read of a row it only remembers.
LEMMA LineageRequest ==
  ASSUME LInv, NEW s \in Servers, NEW i \in Ids, Requests(s, i) PROVE LInv'
<1>1. ArchiveTypeOK'
  BY RequestTypes DEF LInv
<1>2. CASE ExecuteCodeAsync(s, i) \/ ExecuteCode(s, i)
  <2>1. now \in 0..MaxTime
    BY DEF LInv, ArchiveTypeOK
  <2>2. PICK b \in BOOLEAN :
          job' = [job EXCEPT ![i] = [s |-> s, sync |-> b, t |-> now, rel |-> "none",
                                     parent |-> None, code |-> i, input |-> i]]
    BY <1>2 DEF ExecuteCodeAsync, ExecuteCode, SubmitJob
  <2> DEFINE j == [s |-> s, sync |-> b, t |-> now, rel |-> "none",
                   parent |-> None, code |-> i, input |-> i]
  <2>3. j \in Jobs /\ j.parent = None
    BY <2>1 DEF Jobs, Content
  <2>4. job[i] = NoJob /\ dirs' = dirs /\ thread' = [thread EXCEPT ![i] = Queued]
    BY <1>2 DEF ExecuteCodeAsync, ExecuteCode, SubmitJob
  <2>5. job' = [job EXCEPT ![i] = j]
    BY <2>2
  <2> HIDE DEF j
  <2> QED BY <1>1, <2>3, <2>4, <2>5, NewJob
<1>3. ASSUME NEW q \in Ids, NEW rel \in {"rerun", "fork"}, FetchParent(s, i, q, rel)
      PROVE  LInv'
  <2> DEFINE f == [at |-> "fetched", s |-> s, q |-> q, rel |-> rel, named |-> rows[q].named]
  <2>1. thread' = [thread EXCEPT ![i] = f] /\ job[i] = NoJob /\ UNCHANGED <<job, dirs>>
    BY <1>3 DEF FetchParent
  <2>2. f \notin Working /\ f.at = "fetched"
    BY DEF Working
  <2> HIDE DEF f
  <2>3. \A k \in Ids : k # i => thread'[k] = thread[k]
    BY <2>1
  <2>4. thread'[i] = f
    BY <2>1 DEF LInv, ArchiveTypeOK
  <2> QED BY <1>1, <2>1, <2>2, <2>3, <2>4, SameJobs
<1> QED BY <1>2, <1>3 DEF Requests

\* A replay submits what it read: the content of its parent's files.
LEMMA LineageReplay == ASSUME LInv, NEW i \in Ids, SubmitReplay(i) PROVE LInv'
<1> DEFINE f == thread[i]
           d == dirs[f.q]
           j == [s |-> f.s, sync |-> FALSE, t |-> now, rel |-> f.rel, parent |-> f.q,
                 code |-> IF f.rel = "rerun" THEN d.code ELSE i, input |-> d.input]
<1>1. ArchiveTypeOK'
  BY SubmitReplayTypes DEF LInv
<1>2. f \in Fetching /\ job[i] = NoJob
  BY ThreadKinds DEF SubmitReplay, LInv, Unsubmitted
<1>3. CASE up /\ ReplayData(f.named, d)
  <2>1. d \in Dirs /\ d # NoDir /\ d.input \notin {None, Torn}
    BY <1>2, <1>3 DEF ReplayData, LInv, ArchiveTypeOK, Fetching
  <2>2. job[f.q] # NoJob /\ d.input = job[f.q].input /\ d.code = job[f.q].code
    BY <1>2, <2>1 DEF LInv, Kept, OwnContent, Fetching
  <2>3. now \in 0..MaxTime
    BY DEF LInv, ArchiveTypeOK
  <2>4. j \in Jobs
    BY <1>2, <2>1, <2>3 DEF Fetching, Dirs, Jobs, Content
  <2>5. j.parent = f.q /\ j.input = d.input /\ (j.rel = "rerun" => j.code = d.code)
    OBVIOUS
  <2>6. job' = [job EXCEPT ![i] = j] /\ dirs' = dirs /\ thread' = [thread EXCEPT ![i] = Queued]
    BY <1>3 DEF SubmitReplay, SubmitJob
  <2> HIDE DEF j
  <2> QED BY <1>1, <1>2, <2>2, <2>4, <2>5, <2>6, NewJob
<1>4. CASE ~(up /\ ReplayData(f.named, d))
  <2>1. thread' = [thread EXCEPT ![i] = Idle] /\ UNCHANGED <<job, dirs>>
    BY <1>4 DEF SubmitReplay
  <2>2. Idle \notin Working /\ Idle.at # "fetched"
    BY DEF Idle, Working
  <2> QED BY <1>1, <2>1, <2>2, SameJobs DEF LInv, ArchiveTypeOK
<1> QED BY <1>3, <1>4

\* A thread writes code and input of its own job, in its own directory.
LEMMA LineageExecutor == ASSUME LInv, NEW i \in Ids, Executor(i) PROVE LInv'
<1>1. ArchiveTypeOK'
  BY ExecutorTypes DEF LInv
<1>2. thread[i] \in Working /\ job[i] # NoJob
  BY ThreadKinds DEF Executor, StartThread, StoreReplayArtifacts, RetryAttempt, RunEnds,
     GiveUp, SaveOutcome, LInv, Employed
<1>3. \A k \in Ids : k # i => thread'[k] = thread[k] /\ dirs'[k] = dirs[k]
  BY DEF Executor, StartThread, StoreReplayArtifacts, RetryAttempt, RunEnds, GiveUp,
     SaveOutcome, LInv, ArchiveTypeOK
<1>4. job' = job
  BY DEF Executor, StartThread, StoreReplayArtifacts, RetryAttempt, RunEnds, GiveUp, SaveOutcome
<1>5. thread'[i].at # "fetched"
  <2>1. thread[i].at # "fetched" /\ Idle.at # "fetched"
    BY <1>2 DEF Working, Idle
  <2>2. thread \in [Ids -> {Idle} \union Fetching \union Working]
    BY DEF LInv, ArchiveTypeOK
  <2>3. CASE StartThread(i)
    <3>1. thread'[i] = [thread[i] EXCEPT !.at = "store", !.c = now]
      BY <2>2, <2>3 DEF StartThread
    <3> QED BY <1>2, <3>1 DEF Working
  <2>4. CASE StoreReplayArtifacts(i)
    <3>1. \E b \in BOOLEAN :
            thread'[i] = [thread[i] EXCEPT !.at = "run", !.n = 1, !.t0 = now, !.named = b]
      BY <2>2, <2>4 DEF StoreReplayArtifacts
    <3> QED BY <1>2, <3>1 DEF Working
  <2>5. CASE RetryAttempt(i)
    <3>1. thread'[i] = [thread[i] EXCEPT !.n = @ + 1, !.t0 = now]
      BY <2>2, <2>5 DEF RetryAttempt
    <3> QED BY <1>2, <2>1, <3>1 DEF Working
  <2>6. CASE RunEnds(i)
    <3>1. thread'[i] = [thread[i] EXCEPT !.at = "save", !.n = 0, !.t0 = 0]
      BY <2>2, <2>6 DEF RunEnds
    <3> QED BY <1>2, <3>1 DEF Working
  <2>7. CASE GiveUp(i)
    <3>1. thread'[i] \in {Idle, [thread[i] EXCEPT !.late = TRUE]}
      BY <2>2, <2>7 DEF GiveUp
    <3> QED BY <1>2, <2>1, <3>1 DEF Working
  <2>8. CASE SaveOutcome(i)
    BY <2>1, <2>2, <2>8 DEF SaveOutcome
  <2> QED BY <2>3, <2>4, <2>5, <2>6, <2>7, <2>8 DEF Executor
<1>6. OwnContent(i, Touch(i))
  BY <1>2 DEF OwnContent, Touch, LInv, Kept, ArchiveTypeOK, Dirs
<1>7. \/ dirs'[i] \in {dirs[i], NoDir}
      \/ OwnContent(i, dirs'[i])
  <2>1. CASE StartThread(i)
    <3>1. dirs'[i] = [Touch(i) EXCEPT !.code = Torn, !.input = Torn]
      BY <2>1 DEF StartThread, LInv, ArchiveTypeOK
    <3>2. Touch(i) \in Dirs
      BY TouchedIsDir DEF LInv
    <3>3. dirs'[i].input = Torn
      BY <3>1, <3>2 DEF Dirs
    <3> QED BY <3>3 DEF OwnContent
  <2>2. CASE StoreReplayArtifacts(i)
    <3>1. CASE dirs' = dirs
      BY <3>1
    <3>2. CASE dirs' # dirs
      <4>1. dirs[i] # NoDir
            /\ dirs'[i] = [dirs[i] EXCEPT !.code = job[i].code, !.input = job[i].input]
        BY <2>2, <3>2 DEF StoreReplayArtifacts, LInv, ArchiveTypeOK
      <4>2. dirs[i] \in Dirs
        BY <4>1 DEF LInv, ArchiveTypeOK
      <4>3. dirs'[i].code = job[i].code /\ dirs'[i].input = job[i].input
        BY <4>1, <4>2 DEF Dirs
      <4> QED BY <4>3 DEF OwnContent
    <3> QED BY <3>1, <3>2
  <2>3. CASE RunEnds(i)
    BY <1>6, <2>3 DEF RunEnds, LInv, ArchiveTypeOK
  <2>4. CASE RetryAttempt(i) \/ GiveUp(i) \/ SaveOutcome(i)
    BY <2>4 DEF RetryAttempt, GiveUp, SaveOutcome
  <2> QED BY <2>1, <2>2, <2>3, <2>4 DEF Executor
<1> QED BY <1>1, <1>2, <1>3, <1>4, <1>5, <1>7, SameJobs

\* Clean-ups only remove.
LEMMA LineageServer == ASSUME LInv, NEW s \in Servers, Server(s) PROVE LInv'
<1>1. ArchiveTypeOK'
  BY ServerTypes DEF LInv
<1>2. job' = job
  BY DEF Server, Reconcile, ServerEnds, CleanupRecords, CleanupDisk, archiveVars
<1>3. \A k \in Ids : thread'[k] \in {thread[k], Idle}
  BY DEF Server, Reconcile, ServerEnds, CleanupRecords, CleanupDisk, archiveVars
<1>4. \A k \in Ids : dirs'[k] \in {dirs[k], NoDir}
  BY DEF Server, Reconcile, ServerEnds, CleanupRecords, CleanupDisk, PruneOldRunDirs, archiveVars
<1>5. Idle \notin Working /\ Idle.at # "fetched"
  BY DEF Idle, Working
<1> QED BY <1>1, <1>2, <1>3, <1>4, <1>5, SameJobs

\* Every step keeps the lineage.
LEMMA LineageNext == ASSUME LInv, [Next]_vars PROVE LInv'
<1>1. CASE Tick
  <2>1. ArchiveTypeOK'
    BY <1>1 DEF Tick, LInv, ArchiveTypeOK
  <2> QED BY <1>1, <2>1, SameJobs DEF Tick
<1>2. CASE UNCHANGED archiveVars
  <2>1. ArchiveTypeOK'
    BY <1>2 DEF archiveVars, LInv, ArchiveTypeOK
  <2> QED BY <1>2, <2>1, SameJobs DEF archiveVars
<1> QED BY <1>1, <1>2, LineageRequest, LineageReplay, LineageExecutor, LineageServer
        DEF Next, vars

\* However threads, clean-ups, starts and requests interleave, every variable of the
\* archive and its database keeps its type.
THEOREM ArchiveTypes == Spec => []TypeOK
<1>1. DbInv /\ LInv => TypeOK
  BY TypesSplit DEF DbInv, LInv
<1> QED BY <1>1, DbInitInv, DbNext, LineageInit, LineageNext, PTL DEF Spec

\* A rerun runs the code and input of its parent, and a fork its input, whoever
\* writes or removes the parent's files meanwhile (_get_replay_data).
THEOREM ReplaysAreFaithful == Spec => []LineageFaithful
<1>1. LInv => LineageFaithful
  BY DEF LInv, Descended, LineageFaithful
<1> QED BY <1>1, LineageInit, LineageNext, PTL DEF Spec

-----------------------------------------------------------------------------
(* Files and workspaces.                                                   *)

\* A record of time c that is not past its retention has both its files, in a
\* directory that no sweep takes before the record is past it.
Stored(i, c) ==
  c >= now - TTL => /\ dirs[i] # NoDir /\ dirs[i].m >= c
                    /\ dirs[i].code # None /\ dirs[i].input \notin {None, Torn}

\* A job has code and input of its own or of an earlier one.
Whole(i) == job[i] # NoJob => /\ job[i].code \in Ids /\ job[i].input \in Ids
                              /\ job[i].t <= now

\* A row is of a job and of the past.
Dated(i) == rows[i] # NoRow => job[i] # NoJob /\ rows[i].created <= now

\* The record of a thread is made after the row of its job, and before the
\* directory gets its last entry.
Ordered(i) ==
  /\ thread[i].at \in {"store", "run", "save"} =>
       /\ thread[i].c <= now
       /\ rows[i] # NoRow /\ ~rows[i].done => rows[i].created <= thread[i].c
  /\ thread[i].at = "store" => dirs[i] = NoDir \/ dirs[i].m >= thread[i].c

\* Who names the files: a thread that has stored them, then the row it saves.  They
\* are begun again by nobody, since no other thread starts for the id.
Named(i) ==
  /\ thread[i].at \in {"run", "save"} /\ thread[i].named => Stored(i, thread[i].c)
  /\ rows[i] # NoRow /\ rows[i].named => Stored(i, rows[i].created) /\ thread[i].at # "queued"

\* An attempt stays within its budget.  The workspace is no older than the budgets of
\* the attempts so far, and is there as long as they fit into the age limit.
Fresh(i) ==
  thread[i].at = "run" =>
    /\ thread[i].n >= 1 /\ now <= thread[i].t0 + Budget
    /\ thread[i].n * Budget <= WsAge => ws[i] # None
    /\ ws[i] # None => thread[i].t0 + Budget <= ws[i] + thread[i].n * Budget

FilesOf(i) == Whole(i) /\ Dated(i) /\ Ordered(i) /\ Named(i) /\ Fresh(i)

\* What is said of the files of an id depends on nothing else.
LEMMA FilesSame ==
  ASSUME NEW i \in Ids, FilesOf(i), job'[i] = job[i], rows'[i] = rows[i],
         thread'[i] = thread[i], dirs'[i] = dirs[i], ws'[i] = ws[i], now' = now
  PROVE  FilesOf(i)'
BY DEF FilesOf, Whole, Dated, Ordered, Named, Stored, Fresh

\* The values that the steps of one id compare.
LEMMA Values ==
  ASSUME ArchiveTypeOK, NEW i \in Ids
  PROVE  /\ now \in Nat /\ TTL \in Nat /\ WsAge \in Nat /\ Budget \in Nat
         /\ rows[i] # NoRow => rows[i] \in Rows /\ rows[i].created \in Nat
         /\ dirs[i] # NoDir => dirs[i] \in Dirs /\ dirs[i].m \in Nat
         /\ thread[i] \in Working => /\ thread[i].c \in Nat /\ thread[i].t0 \in Nat
                                     /\ thread[i].n \in Nat /\ thread[i].named \in BOOLEAN
         /\ job[i] # NoJob => job[i] \in Jobs /\ job[i].t \in Nat
         /\ ws[i] # None => ws[i] \in Nat
<1>1. now \in Nat /\ TTL \in Nat /\ WsAge \in Nat /\ Budget \in Nat
  BY DEF ArchiveTypeOK
<1>2. rows[i] # NoRow => rows[i] \in Rows /\ rows[i].created \in Nat
  BY DEF ArchiveTypeOK, Rows
<1>3. dirs[i] # NoDir => dirs[i] \in Dirs /\ dirs[i].m \in Nat
  BY DEF ArchiveTypeOK, Dirs
<1>4. thread[i] \in Working => /\ thread[i].c \in Nat /\ thread[i].t0 \in Nat
                               /\ thread[i].n \in Nat /\ thread[i].named \in BOOLEAN
  BY DEF Working
<1>5. job[i] # NoJob => job[i] \in Jobs /\ job[i].t \in Nat
  BY DEF ArchiveTypeOK, Jobs
<1>6. ws[i] # None => ws[i] \in Nat
  BY DEF ArchiveTypeOK
<1> QED BY <1>1, <1>2, <1>3, <1>4, <1>5, <1>6

\* What n attempts may take.
LEMMA Budgets ==
  ASSUME NEW n \in Nat
  PROVE  /\ n * Budget \in Nat /\ (n + 1) * Budget = n * Budget + Budget
         /\ 1 * Budget = Budget
BY ArchiveConstants

\* A job comes with a queued thread, and with a new row or none.
LEMMA FilesNewJob ==
  ASSUME LInv, NEW i \in Ids, FilesOf(i), job[i] = NoJob, now' = now,
         NEW j \in Jobs, job' = [job EXCEPT ![i] = j],
         j.code \in Ids, j.input \in Ids, j.t = now,
         thread' = [thread EXCEPT ![i] = Queued],
         \/ rows' = rows
         \/ rows' = [rows EXCEPT ![i] = [done |-> FALSE, created |-> now, named |-> FALSE]]
  PROVE  FilesOf(i)'
<1>0. now \in Nat /\ j # NoJob
  BY NothingThere DEF LInv, ArchiveTypeOK
<1>1. thread'[i].at = "queued" /\ job'[i] = j
  BY DEF LInv, ArchiveTypeOK, Queued
<1>2. rows[i] = NoRow
  BY DEF FilesOf, Dated
<1>3. rows'[i] # NoRow => rows'[i].created = now /\ rows'[i].named = FALSE
  BY <1>2 DEF LInv, ArchiveTypeOK
<1>4. Whole(i)' /\ Dated(i)'
  BY <1>0, <1>1, <1>3 DEF Whole, Dated
<1>5. Ordered(i)' /\ Fresh(i)'
  BY <1>1 DEF Ordered, Fresh
<1>6. Named(i)'
  BY <1>1, <1>3 DEF Named
<1> QED BY <1>4, <1>5, <1>6 DEF FilesOf

\* A thread that is not at work, before there is a job.
LEMMA FilesHandler ==
  ASSUME NEW i \in Ids, FilesOf(i), job[i] = NoJob,
         thread'[i].at \in {"fetched", "idle"},
         job' = job, rows' = rows, now' = now
  PROVE  FilesOf(i)'
<1>1. rows'[i] = NoRow
  BY DEF FilesOf, Dated
<1> QED BY <1>1 DEF FilesOf, Whole, Dated, Ordered, Named, Fresh

\* A request takes an unused id and leaves every other one alone.
LEMMA FilesRequest ==
  ASSUME LInv, NEW s \in Servers, NEW i \in Ids, Requests(s, i), NEW k \in Ids, FilesOf(k)
  PROVE  FilesOf(k)'
<1>0. now \in 0..MaxTime
  BY DEF LInv, ArchiveTypeOK
<1>1. ASSUME k # i PROVE FilesOf(k)'
  <2>1. /\ job'[k] = job[k] /\ rows'[k] = rows[k] /\ thread'[k] = thread[k]
        /\ UNCHANGED <<now, dirs, ws>>
    BY <1>1 DEF Requests, ExecuteCodeAsync, ExecuteCode, FetchParent, SubmitJob, LInv, ArchiveTypeOK
  <2> QED BY <2>1, FilesSame
<1>2. CASE k = i /\ (ExecuteCodeAsync(s, i) \/ ExecuteCode(s, i))
  <2>1. PICK b \in BOOLEAN :
          job' = [job EXCEPT ![i] = [s |-> s, sync |-> b, t |-> now, rel |-> "none",
                                     parent |-> None, code |-> i, input |-> i]]
    BY <1>2 DEF ExecuteCodeAsync, ExecuteCode, SubmitJob
  <2> DEFINE j == [s |-> s, sync |-> b, t |-> now, rel |-> "none",
                   parent |-> None, code |-> i, input |-> i]
  <2>2. j \in Jobs /\ j.code = i /\ j.input = i /\ j.t = now
    BY <1>0 DEF Jobs, Content
  <2>3. /\ job[i] = NoJob /\ now' = now /\ thread' = [thread EXCEPT ![i] = Queued]
        /\ \/ rows' = rows
           \/ rows' = [rows EXCEPT ![i] = [done |-> FALSE, created |-> now, named |-> FALSE]]
    BY <1>2 DEF ExecuteCodeAsync, ExecuteCode, SubmitJob
  <2>4. job' = [job EXCEPT ![i] = j]
    BY <2>1
  <2> HIDE DEF j
  <2> QED BY <1>2, <2>2, <2>3, <2>4, FilesNewJob
<1>3. ASSUME k = i, NEW q \in Ids, NEW rel \in {"rerun", "fork"}, FetchParent(s, i, q, rel)
      PROVE  FilesOf(k)'
  <2>1. /\ thread'[i].at = "fetched" /\ job[i] = NoJob
        /\ job' = job /\ rows' = rows /\ now' = now
    BY <1>3 DEF FetchParent, LInv, ArchiveTypeOK
  <2> QED BY <1>3, <2>1, FilesHandler
<1> QED BY <1>1, <1>2, <1>3 DEF Requests

\* A replay names code and input that its parent's job had.
LEMMA FilesReplay ==
  ASSUME LInv, \A q \in Ids : FilesOf(q), NEW i \in Ids, SubmitReplay(i), NEW k \in Ids
  PROVE  FilesOf(k)'
<1> DEFINE f == thread[i]
           d == dirs[f.q]
           j == [s |-> f.s, sync |-> FALSE, t |-> now, rel |-> f.rel, parent |-> f.q,
                 code |-> IF f.rel = "rerun" THEN d.code ELSE i, input |-> d.input]
<1>1. f \in Fetching /\ job[i] = NoJob
  BY ThreadKinds DEF SubmitReplay, LInv, Unsubmitted
<1>2. ASSUME k # i PROVE FilesOf(k)'
  <2>1. /\ job'[k] = job[k] /\ rows'[k] = rows[k] /\ thread'[k] = thread[k]
        /\ UNCHANGED <<now, dirs, ws>>
    BY <1>2 DEF SubmitReplay, SubmitJob, LInv, ArchiveTypeOK
  <2> QED BY <2>1, FilesSame
<1>3. CASE k = i /\ up /\ ReplayData(f.named, d)
  <2>1. d \in Dirs /\ d # NoDir /\ d.input \notin {None, Torn} /\ f.q \in Ids
    BY <1>1, <1>3 DEF ReplayData, LInv, ArchiveTypeOK, Fetching
  <2>2. job[f.q] # NoJob /\ d.input = job[f.q].input /\ d.code = job[f.q].code
    BY <2>1 DEF LInv, Kept, OwnContent
  <2>3. d.code \in Ids /\ d.input \in Ids
    BY <2>1, <2>2 DEF FilesOf, Whole
  <2>4. now \in 0..MaxTime
    BY DEF LInv, ArchiveTypeOK
  <2>5. j \in Jobs
    BY <1>1, <2>1, <2>4 DEF Fetching, Dirs, Jobs, Content
  <2>6. j.code \in Ids /\ j.input \in Ids /\ j.t = now
    BY <2>3
  <2>7. /\ job' = [job EXCEPT ![i] = j] /\ now' = now /\ thread' = [thread EXCEPT ![i] = Queued]
        /\ rows' = [rows EXCEPT ![i] = [done |-> FALSE, created |-> now, named |-> FALSE]]
    BY <1>3 DEF SubmitReplay, SubmitJob
  <2> HIDE DEF j
  <2> QED BY <1>1, <1>3, <2>5, <2>6, <2>7, FilesNewJob
<1>4. CASE k = i /\ ~(up /\ ReplayData(f.named, d))
  <2>1. thread'[i].at = "idle" /\ job' = job /\ rows' = rows /\ now' = now
    BY <1>4 DEF SubmitReplay, LInv, ArchiveTypeOK, Idle
  <2> QED BY <1>1, <1>4, <2>1, FilesHandler
<1> QED BY <1>2, <1>3, <1>4

\* A new entry in the directory, which keeps its files, or in a new one.
LEMMA StoredTouched ==
  ASSUME ArchiveTypeOK, NEW i \in Ids, NEW c \in Nat, Stored(i, c), c <= now,
         dirs'[i] = Touch(i), now' = now
  PROVE  Stored(i, c)'
<1>1. CASE dirs[i] = NoDir
  BY <1>1 DEF Stored
<1>2. CASE dirs[i] # NoDir
  <2>1. dirs[i] \in Dirs
    BY <1>2 DEF ArchiveTypeOK
  <2>2. dirs'[i] = [dirs[i] EXCEPT !.m = now]
    BY <1>2 DEF Touch
  <2>3. /\ dirs'[i].m = now /\ dirs'[i].code = dirs[i].code /\ dirs'[i].input = dirs[i].input
        /\ dirs'[i] \in Dirs
    BY <2>1, <2>2 DEF ArchiveTypeOK, Dirs
  <2>4. dirs'[i] # NoDir
    BY <2>3, NothingThere
  <2> QED BY <2>3, <2>4 DEF Stored
<1> QED BY <1>1, <1>2

\* A thread starts with a record of the present and a directory touched at that time.
LEMMA FilesStart ==
  ASSUME LInv, NEW i \in Ids, FilesOf(i), StartThread(i) PROVE FilesOf(i)'
<1>1. thread[i] \in Working /\ now \in Nat
  BY ThreadKinds, Values DEF StartThread, LInv
<1>2. thread'[i] = [thread[i] EXCEPT !.at = "store", !.c = now]
  BY DEF StartThread, LInv, ArchiveTypeOK
<1>3. thread'[i].at = "store" /\ thread'[i].c = now
  BY <1>1, <1>2 DEF Working
<1>4. Touch(i) \in Dirs /\ Touch(i).m = now
  <2>1. Touch(i) \in Dirs
    BY TouchedIsDir DEF LInv
  <2>2. Touch(i).m = now
    BY DEF Touch, LInv, ArchiveTypeOK, Dirs
  <2> QED BY <2>1, <2>2
<1>5. dirs'[i] = [Touch(i) EXCEPT !.code = Torn, !.input = Torn]
  BY DEF StartThread, LInv, ArchiveTypeOK
<1>6. dirs'[i].m = now
  BY <1>4, <1>5 DEF Dirs
<1>7. UNCHANGED <<job, rows, now>> /\ thread[i].at = "queued"
  BY DEF StartThread
<1>8. Whole(i)' /\ Dated(i)'
  BY <1>7 DEF FilesOf, Whole, Dated
<1>9. Ordered(i)'
  BY <1>1, <1>3, <1>6, <1>7 DEF FilesOf, Dated, Ordered
<1>10. Named(i)' /\ Fresh(i)'
  BY <1>3, <1>7 DEF FilesOf, Named, Fresh
<1> QED BY <1>8, <1>9, <1>10 DEF FilesOf

\* Storing the two files, or failing in between: only a thread that stored both names
\* them, and the directory got its last entry no earlier than the record was made.
LEMMA FilesStore ==
  ASSUME LInv, NEW i \in Ids, FilesOf(i), StoreReplayArtifacts(i) PROVE FilesOf(i)'
<1> DEFINE c == thread[i].c
<1>1. /\ thread[i] \in Working /\ thread[i].at = "store" /\ now \in Nat /\ c \in Nat /\ Budget \in Nat
      /\ rows[i] # NoRow => rows[i].created \in Nat
  BY ThreadKinds, Values DEF StoreReplayArtifacts, LInv
<1>2. job[i] # NoJob /\ job[i].code \in Ids /\ job[i].input \in Ids
  BY <1>1 DEF LInv, Employed, FilesOf, Whole
<1>3. PICK stored \in BOOLEAN :
        /\ stored => dirs[i] # NoDir
        /\ dirs' = IF stored
             THEN [dirs EXCEPT ![i] = [@ EXCEPT !.code = job[i].code, !.input = job[i].input]]
             ELSE dirs
        /\ thread' = [thread EXCEPT ![i] = [@ EXCEPT !.at = "run", !.n = 1, !.t0 = now,
                                                    !.named = stored]]
  BY DEF StoreReplayArtifacts
<1>4. /\ thread'[i] = [thread[i] EXCEPT !.at = "run", !.n = 1, !.t0 = now, !.named = stored]
      /\ ws'[i] = now /\ UNCHANGED <<job, rows, now>>
  BY <1>3 DEF StoreReplayArtifacts, LInv, ArchiveTypeOK
<1>5. /\ thread'[i].at = "run" /\ thread'[i].n = 1 /\ thread'[i].t0 = now /\ thread'[i].c = c
  BY <1>1, <1>4 DEF Working
<1>6. thread'[i].named = stored
  BY <1>1, <1>4 DEF Working
<1>f. Fresh(i)'
  <2>1. ws'[i] # None
    BY <1>4, NothingThere DEF LInv, ArchiveTypeOK
  <2>2. thread'[i].n * Budget = Budget
    BY <1>5, Budgets
  <2> QED BY <1>1, <1>4, <1>5, <2>1, <2>2 DEF Fresh
<1>7. CASE stored
  <2>1. dirs[i] \in Dirs
    BY <1>3, <1>7 DEF LInv, ArchiveTypeOK
  <2>2. dirs'[i] = [dirs[i] EXCEPT !.code = job[i].code, !.input = job[i].input]
    BY <1>3, <1>7 DEF LInv, ArchiveTypeOK
  <2>3. /\ dirs'[i].m = dirs[i].m /\ dirs'[i].code = job[i].code /\ dirs'[i].input = job[i].input
    BY <2>1, <2>2 DEF Dirs
  <2>4. dirs'[i] \in Dirs
    <3>1. job[i].code \in Content /\ job[i].input \in Content
      BY <1>2 DEF Content
    <3> QED BY <2>1, <2>2, <3>1 DEF Dirs
  <2>5. dirs'[i] # NoDir /\ dirs'[i].code # None /\ dirs'[i].input \notin {None, Torn}
    BY <1>2, <2>3, <2>4, NothingThere
  <2>6. dirs[i].m >= c
    BY <1>1, <1>3, <1>7 DEF FilesOf, Ordered
  <2>7. Stored(i, c)'
    BY <1>5, <2>3, <2>5, <2>6 DEF Stored
  <2>8. ASSUME rows[i] # NoRow, rows[i].named PROVE Stored(i, rows[i].created)'
    <3>1. Stored(i, rows[i].created)
      BY <2>8 DEF FilesOf, Named
    <3> QED BY <1>4, <2>3, <2>5, <3>1 DEF Stored
  <2> QED BY <1>4, <1>5, <1>6, <1>f, <2>7, <2>8, <1>1, <1>2
          DEF FilesOf, Whole, Dated, Ordered, Named, Stored
<1>8. CASE ~stored
  <2>1. dirs' = dirs
    BY <1>3, <1>8
  <2> QED BY <1>4, <1>5, <1>6, <1>8, <1>f, <2>1, <1>1, <1>2
          DEF FilesOf, Whole, Dated, Ordered, Named, Stored
<1> QED BY <1>7, <1>8

\* A later attempt works in the same workspace, which has got older by one budget.
LEMMA FilesRetry ==
  ASSUME LInv, NEW i \in Ids, FilesOf(i), RetryAttempt(i) PROVE FilesOf(i)'
<1> DEFINE n == thread[i].n
<1>1. /\ thread[i] \in Working /\ thread[i].at = "run" /\ n \in Nat /\ now \in Nat
      /\ thread[i].t0 \in Nat /\ Budget \in Nat /\ WsAge \in Nat
      /\ ws[i] # None => ws[i] \in Nat
  BY ThreadKinds, Values DEF RetryAttempt, LInv
<1>2. thread'[i] = [thread[i] EXCEPT !.n = @ + 1, !.t0 = now]
  BY DEF RetryAttempt, LInv, ArchiveTypeOK
<1>3. /\ thread'[i].at = "run" /\ thread'[i].n = n + 1 /\ thread'[i].c = thread[i].c
      /\ thread'[i].t0 = now /\ thread'[i].named = thread[i].named
  BY <1>1, <1>2 DEF Working
<1>4. UNCHANGED <<job, rows, dirs, ws, now>>
  BY DEF RetryAttempt
<1>5. Fresh(i)'
  <2>1. /\ thread[i].n >= 1 /\ now <= thread[i].t0 + Budget
        /\ n * Budget <= WsAge => ws[i] # None
        /\ ws[i] # None => thread[i].t0 + Budget <= ws[i] + n * Budget
    BY <1>1 DEF FilesOf, Fresh
  <2>2. thread'[i].n * Budget = n * Budget + Budget /\ n * Budget \in Nat
    BY <1>1, <1>3, Budgets
  <2>3. thread'[i].n * Budget <= WsAge => ws'[i] # None
    BY <1>1, <1>4, <2>1, <2>2
  <2>4. ws'[i] # None => now + Budget <= ws'[i] + thread'[i].n * Budget
    BY <1>1, <1>4, <2>1, <2>2
  <2> QED BY <1>1, <1>3, <1>4, <2>1, <2>3, <2>4 DEF Fresh
<1> QED BY <1>1, <1>3, <1>4, <1>5 DEF FilesOf, Whole, Dated, Ordered, Named, Stored

\* A run that ends may touch its directory, which only makes its files younger.
LEMMA FilesEnds ==
  ASSUME LInv, NEW i \in Ids, FilesOf(i), RunEnds(i) PROVE FilesOf(i)'
<1>1. /\ thread[i] \in Working /\ thread[i].at = "run" /\ thread[i].c \in Nat /\ now \in Nat
      /\ rows[i] # NoRow => rows[i].created \in Nat
  BY ThreadKinds, Values DEF RunEnds, LInv
<1>2. thread'[i] = [thread[i] EXCEPT !.at = "save", !.n = 0, !.t0 = 0]
  BY DEF RunEnds, LInv, ArchiveTypeOK
<1>3. thread'[i].at = "save" /\ thread'[i].c = thread[i].c /\ thread'[i].named = thread[i].named
  BY <1>1, <1>2 DEF Working
<1>4. UNCHANGED <<job, rows, now>> /\ (dirs'[i] = dirs[i] \/ dirs'[i] = Touch(i))
  BY DEF RunEnds, LInv, ArchiveTypeOK
<1>5. ASSUME NEW c \in Nat, Stored(i, c), c <= now PROVE Stored(i, c)'
  <2>1. CASE dirs'[i] = dirs[i]
    BY <1>4, <1>5, <2>1 DEF Stored
  <2>2. CASE dirs'[i] = Touch(i)
    BY <1>4, <1>5, <2>2, StoredTouched DEF LInv
  <2> QED BY <1>4, <2>1, <2>2
<1>6. ASSUME thread[i].named, NEW c \in Nat, c = thread[i].c PROVE Stored(i, c)'
  BY <1>1, <1>5, <1>6 DEF FilesOf, Named, Ordered
<1>7. ASSUME rows[i] # NoRow, rows[i].named, NEW c \in Nat, c = rows[i].created
      PROVE  Stored(i, c)'
  BY <1>5, <1>7 DEF FilesOf, Named, Dated
<1>8. Named(i)'
  BY <1>1, <1>3, <1>4, <1>6, <1>7 DEF Named, Stored
<1>9. Whole(i)' /\ Dated(i)' /\ Ordered(i)' /\ Fresh(i)'
  BY <1>1, <1>3, <1>4 DEF FilesOf, Whole, Dated, Ordered, Fresh
<1> QED BY <1>8, <1>9 DEF FilesOf

\* A record that names no files closes the row.
LEMMA FilesGiveUp ==
  ASSUME LInv, NEW i \in Ids, FilesOf(i), GiveUp(i) PROVE FilesOf(i)'
<1>1. thread[i] \in Working /\ job[i] # NoJob /\ job[i].t <= now
  BY ThreadKinds DEF GiveUp, LInv, Employed, FilesOf, Whole
<1>2. UNCHANGED <<job, dirs, ws, now>>
  BY DEF GiveUp
<1>3. \/ thread'[i] = Idle
      \/ thread'[i] = [thread[i] EXCEPT !.late = TRUE] /\ thread[i].at # "queued"
  BY DEF GiveUp, LInv, ArchiveTypeOK
<1>4. \/ thread'[i].at = "idle"
      \/ /\ thread'[i].at = thread[i].at /\ thread'[i].c = thread[i].c /\ thread'[i].n = thread[i].n
         /\ thread'[i].t0 = thread[i].t0 /\ thread'[i].named = thread[i].named
         /\ thread[i].at # "queued"
  BY <1>1, <1>3 DEF Working, Idle
<1>5. \/ rows'[i] = rows[i]
      \/ /\ rows'[i] = SaveRecord(rows[i], job[i].t, FALSE)
         /\ rows[i] = NoRow \/ ~rows[i].done
  BY DEF GiveUp, LInv, ArchiveTypeOK, SaveRecord
<1>6. CASE rows'[i] = rows[i]
  BY <1>2, <1>4, <1>6 DEF FilesOf, Whole, Dated, Ordered, Named, Stored, Fresh
<1>7. CASE rows'[i] # rows[i]
  <2>1. \/ rows'[i] = [done |-> TRUE, created |-> job[i].t, named |-> FALSE]
        \/ /\ rows[i] # NoRow
           /\ rows'[i] = [rows[i] EXCEPT !.done = TRUE, !.named = FALSE]
    BY <1>5, <1>7 DEF SaveRecord
  <2>2. /\ rows'[i].done /\ ~rows'[i].named
        /\ rows'[i].created <= now
    <3>1. CASE rows'[i] = [done |-> TRUE, created |-> job[i].t, named |-> FALSE]
      BY <1>1, <3>1
    <3>2. CASE rows[i] # NoRow /\ rows'[i] = [rows[i] EXCEPT !.done = TRUE, !.named = FALSE]
      <4>1. rows[i] \in Rows /\ rows[i].created <= now
        BY <3>2, Values DEF FilesOf, Dated, LInv
      <4> QED BY <3>2, <4>1 DEF Rows
    <3> QED BY <2>1, <3>1, <3>2
  <2>3. Whole(i)' /\ Dated(i)' /\ Fresh(i)'
    BY <1>1, <1>2, <1>4, <2>2 DEF FilesOf, Whole, Dated, Fresh
  <2>4. Ordered(i)' /\ Named(i)'
    BY <1>2, <1>4, <2>2 DEF FilesOf, Ordered, Named, Stored
  <2> QED BY <2>3, <2>4 DEF FilesOf
<1> QED BY <1>6, <1>7

\* The row takes the names from the thread, and is no younger than its record.
LEMMA FilesSave ==
  ASSUME LInv, NEW i \in Ids, FilesOf(i), SaveOutcome(i) PROVE FilesOf(i)'
<1> DEFINE t == thread[i]
<1>1. /\ t \in Working /\ t.at = "save" /\ t.c \in Nat /\ now \in Nat /\ TTL \in Nat
      /\ rows[i] # NoRow => rows[i] \in Rows /\ rows[i].created \in Nat
  BY ThreadKinds, Values DEF SaveOutcome, LInv
<1>2. job[i] # NoJob /\ t.c <= now /\ UNCHANGED <<job, dirs, ws, now>>
  BY <1>1 DEF SaveOutcome, LInv, Employed, FilesOf, Ordered
<1>3. thread'[i].at = "idle"
  BY DEF SaveOutcome, LInv, ArchiveTypeOK, Idle
<1>4. rows'[i] = rows[i] \/ rows'[i] = SaveRecord(rows[i], t.c, t.named)
  BY DEF SaveOutcome, LInv, ArchiveTypeOK
<1>5. CASE rows'[i] = rows[i]
  BY <1>2, <1>3, <1>5 DEF FilesOf, Whole, Dated, Ordered, Named, Stored, Fresh
<1>6. CASE rows'[i] # rows[i] /\ rows[i] = NoRow
  <2>1. rows'[i] = [done |-> TRUE, created |-> t.c, named |-> t.named]
    BY <1>4, <1>6 DEF SaveRecord
  <2>2. rows'[i].created = t.c
    BY <2>1
  <2>3. rows'[i].named = t.named
    BY <2>1
  <2>4. t.named => Stored(i, t.c)
    BY <1>1 DEF FilesOf, Named
  <2>5. Named(i)'
    BY <1>2, <1>3, <2>2, <2>3, <2>4 DEF Named, Stored
  <2> QED BY <1>2, <1>3, <2>2, <2>5 DEF FilesOf, Whole, Dated, Ordered, Fresh
<1>7. CASE rows'[i] # rows[i] /\ rows[i] # NoRow
  <2>1. ~rows[i].done /\ rows'[i] = [rows[i] EXCEPT !.done = TRUE, !.named = t.named]
    BY <1>4, <1>7 DEF SaveRecord
  <2>2. rows'[i].created = rows[i].created
    BY <1>1, <1>7, <2>1 DEF Rows
  <2>3. rows'[i].named = t.named
    BY <1>1, <1>7, <2>1 DEF Rows
  <2>4. t.named => Stored(i, t.c)
    BY <1>1 DEF FilesOf, Named
  <2>5. rows[i].created <= t.c
    BY <1>1, <1>7, <2>1 DEF FilesOf, Ordered
  <2>6. t.named => Stored(i, rows[i].created)
    <3>1. CASE ~(rows[i].created >= now - TTL)
      BY <3>1 DEF Stored
    <3>2. CASE rows[i].created >= now - TTL /\ t.named
      <4>1. t.c >= now - TTL
        BY <1>1, <1>7, <2>5, <3>2
      <4>2. dirs[i] # NoDir /\ dirs[i].m >= t.c
        BY <2>4, <3>2, <4>1 DEF Stored
      <4>3. dirs[i].m >= rows[i].created
        BY <1>1, <1>7, <2>5, <4>2, Values DEF LInv
      <4> QED BY <2>4, <3>2, <4>1, <4>2, <4>3 DEF Stored
    <3> QED BY <3>1, <3>2
  <2>7. Named(i)'
    BY <1>2, <1>3, <2>2, <2>3, <2>6 DEF Named, Stored
  <2>8. Whole(i)' /\ Dated(i)' /\ Ordered(i)' /\ Fresh(i)'
    BY <1>2, <1>3, <1>7, <2>2 DEF FilesOf, Whole, Dated, Ordered, Fresh
  <2> QED BY <2>7, <2>8 DEF FilesOf
<1> QED BY <1>5, <1>6, <1>7

\* A thread moves one id only.
LEMMA FilesExecutor ==
  ASSUME LInv, NEW i \in Ids, Executor(i), NEW k \in Ids, FilesOf(k) PROVE FilesOf(k)'
<1>1. CASE k = i
  BY <1>1, FilesStart, FilesStore, FilesRetry, FilesEnds, FilesGiveUp, FilesSave DEF Executor
<1>2. CASE k # i
  <2>1. /\ job'[k] = job[k] /\ rows'[k] = rows[k] /\ thread'[k] = thread[k]
        /\ dirs'[k] = dirs[k] /\ ws'[k] = ws[k] /\ now' = now
    BY <1>2 DEF Executor, StartThread, StoreReplayArtifacts, RetryAttempt, RunEnds, GiveUp,
       SaveOutcome, LInv, ArchiveTypeOK
  <2> QED BY <2>1, FilesSame
<1> QED BY <1>1, <1>2

\* Starts, ends and sweeps change all ids at once.
LEMMA FilesServer ==
  ASSUME LInv, NEW s \in Servers, Server(s), NEW k \in Ids, FilesOf(k) PROVE FilesOf(k)'
<1>0. /\ now \in Nat /\ TTL \in Nat /\ WsAge \in Nat /\ Budget \in Nat
      /\ rows[k] # NoRow => rows[k] \in Rows /\ rows[k].created \in Nat
      /\ dirs[k] # NoDir => dirs[k].m \in Nat
      /\ thread[k] \in Working => thread[k].c \in Nat /\ thread[k].t0 \in Nat /\ thread[k].n \in Nat
      /\ thread[k].at = "run" => thread[k] \in Working
      /\ thread[k].at \in {"run", "save"} => thread[k].c \in Nat
  BY Values, ThreadKinds DEF LInv, Working
\* A workspace that is old enough is older than the attempts so far may take.
<1>w. ASSUME ws' = PruneStaleWorkspaces, UNCHANGED <<now, thread>> PROVE Fresh(k)'
  <2>1. CASE ws'[k] = ws[k]
    BY <1>w, <2>1 DEF FilesOf, Fresh
  <2>2. CASE ws'[k] # ws[k] /\ thread[k].at = "run"
    <3>1. ws'[k] = None /\ ws[k] # None /\ ws[k] < now - WsAge /\ ws[k] \in Nat
      BY <1>w, <2>2, Values DEF PruneStaleWorkspaces, LInv
    <3>2. /\ thread[k].n >= 1 /\ now <= thread[k].t0 + Budget
          /\ thread[k].t0 + Budget <= ws[k] + thread[k].n * Budget
      BY <2>2, <3>1 DEF FilesOf, Fresh
    <3>3. thread[k].n * Budget \in Nat /\ thread[k].t0 \in Nat
      BY <1>0, <2>2, Budgets
    <3>4. ~(thread[k].n * Budget <= WsAge)
      BY <1>0, <3>1, <3>2, <3>3
    <3> QED BY <1>w, <3>1, <3>2, <3>4 DEF Fresh
  <2>3. CASE thread[k].at # "run"
    BY <1>w, <2>3 DEF Fresh
  <2> QED BY <2>1, <2>2, <2>3
<1>1. CASE Reconcile(s)
  <2>1. UNCHANGED <<now, job, thread, dirs>>
    BY <1>1 DEF Reconcile
  <2>2. Fresh(k)'
    BY <1>1, <1>w, <2>1 DEF Reconcile, FilesOf, Fresh
  <2>3. \/ rows'[k] = rows[k]
        \/ rows[k] # NoRow /\ rows'[k] = [rows[k] EXCEPT !.done = TRUE]
    BY <1>1 DEF Reconcile
  <2>4. CASE rows'[k] = rows[k]
    BY <2>1, <2>2, <2>4 DEF FilesOf, Whole, Dated, Ordered, Named, Stored
  <2>5. CASE rows[k] # NoRow /\ rows'[k] = [rows[k] EXCEPT !.done = TRUE]
    <3>1. rows'[k].done /\ rows'[k].created = rows[k].created /\ rows'[k].named = rows[k].named
      BY <1>0, <2>5 DEF Rows
    <3> QED BY <2>1, <2>2, <2>5, <3>1 DEF FilesOf, Whole, Dated, Ordered, Named, Stored
  <2> QED BY <2>3, <2>4, <2>5
<1>2. CASE ServerEnds(s)
  <2>1. thread'[k] = thread[k] \/ thread'[k].at = "idle"
    BY <1>2 DEF ServerEnds, Idle
  <2>2. UNCHANGED <<now, job, rows, dirs, ws>>
    BY <1>2 DEF ServerEnds
  <2> QED BY <2>1, <2>2 DEF FilesOf, Whole, Dated, Ordered, Named, Stored, Fresh
<1>3. CASE CleanupRecords(s)
  <2>1. rows'[k] \in {rows[k], NoRow} /\ UNCHANGED <<now, job, thread, dirs, ws>>
    BY <1>3 DEF CleanupRecords
  <2> QED BY <2>1 DEF FilesOf, Whole, Dated, Ordered, Named, Stored, Fresh
<1>4. CASE CleanupDisk(s)
  <2>1. UNCHANGED <<now, job, thread, rows>> /\ Fresh(k)'
    BY <1>4, <1>w DEF CleanupDisk, FilesOf, Fresh
  <2>2. CASE dirs'[k] = dirs[k]
    BY <2>1, <2>2 DEF FilesOf, Whole, Dated, Ordered, Named, Stored
  <2>3. CASE dirs'[k] # dirs[k]
    <3>1. dirs'[k] = NoDir /\ dirs[k] # NoDir /\ dirs[k].m < now - TTL
      BY <1>4, <2>3 DEF CleanupDisk, PruneOldRunDirs
    <3>2. ASSUME NEW c \in Nat, Stored(k, c) PROVE Stored(k, c)'
      BY <1>0, <2>1, <3>1, <3>2 DEF Stored
    <3>3. ASSUME thread[k].at \in {"run", "save"}, thread[k].named, NEW c \in Nat, c = thread[k].c
          PROVE  Stored(k, c)'
      BY <3>2, <3>3 DEF FilesOf, Named
    <3>4. ASSUME rows[k] # NoRow, rows[k].named, NEW c \in Nat, c = rows[k].created
          PROVE  Stored(k, c)'
      BY <3>2, <3>4 DEF FilesOf, Named
    <3>5. Named(k)'
      BY <1>0, <2>1, <3>3, <3>4 DEF FilesOf, Named, Stored
    <3> QED BY <2>1, <3>1, <3>5 DEF FilesOf, Whole, Dated, Ordered
  <2> QED BY <2>2, <2>3
<1>5. CASE UNCHANGED archiveVars
  BY <1>5, FilesSame DEF archiveVars
<1> QED BY <1>1, <1>2, <1>3, <1>4, <1>5 DEF Server

\* What has passed its retention stays so; an attempt within its budget remains in it.
LEMMA FilesTick == ASSUME LInv, NEW k \in Ids, FilesOf(k), Tick PROVE FilesOf(k)'
<1>0. /\ now \in Nat /\ TTL \in Nat /\ Budget \in Nat /\ now' = now + 1
      /\ UNCHANGED <<job, thread, rows, dirs, ws>>
      /\ rows[k] # NoRow => rows[k].created \in Nat
      /\ job[k] # NoJob => job[k].t \in Nat
  BY Values DEF Tick, LInv
<1>t. thread[k].at \in {"store", "run", "save"} => thread[k].c \in Nat /\ thread[k].t0 \in Nat
  BY ThreadKinds, Values DEF LInv
<1>1. ASSUME NEW c \in Nat, Stored(k, c) PROVE Stored(k, c)'
  BY <1>0, <1>1 DEF Stored
<1>2. Whole(k)' /\ Dated(k)' /\ Ordered(k)'
  BY <1>0, <1>t DEF FilesOf, Whole, Dated, Ordered
<1>3. Fresh(k)'
  BY <1>0, <1>t DEF Tick, FilesOf, Fresh
<1>4. ASSUME thread[k].at \in {"run", "save"}, thread[k].named, NEW c \in Nat, c = thread[k].c
      PROVE  Stored(k, c)'
  BY <1>1, <1>4 DEF FilesOf, Named
<1>5. ASSUME rows[k] # NoRow, rows[k].named, NEW c \in Nat, c = rows[k].created
      PROVE  Stored(k, c)'
  BY <1>1, <1>5 DEF FilesOf, Named
<1>6. Named(k)'
  BY <1>0, <1>t, <1>4, <1>5 DEF FilesOf, Named, Stored
<1> QED BY <1>2, <1>3, <1>6 DEF FilesOf

FInv == LInv /\ \A i \in Ids : FilesOf(i)

\* Every step keeps files and workspaces in order, for every id.
LEMMA FilesNext == ASSUME FInv, [Next]_vars PROVE FInv'
<1>1. LInv'
  BY LineageNext DEF FInv
<1>2. ASSUME NEW k \in Ids PROVE FilesOf(k)'
  <2>1. LInv /\ FilesOf(k)
    BY DEF FInv
  <2>2. ASSUME UNCHANGED archiveVars PROVE FilesOf(k)'
    BY <2>1, <2>2, FilesSame DEF archiveVars
  <2>3. ASSUME NEW s \in Servers, Server(s) PROVE FilesOf(k)'
    BY <2>1, <2>3, FilesServer
  <2>4. ASSUME NEW s \in Servers, NEW i \in Ids, Requests(s, i) PROVE FilesOf(k)'
    BY <2>1, <2>4, FilesRequest
  <2>5. ASSUME NEW i \in Ids, Executor(i) PROVE FilesOf(k)'
    BY <2>1, <2>5, FilesExecutor
  <2>6. ASSUME NEW i \in Ids, SubmitReplay(i) PROVE FilesOf(k)'
    BY <2>6, FilesReplay DEF FInv
  <2>7. CASE Tick
    BY <2>1, <2>7, FilesTick
  <2> QED BY <2>2, <2>3, <2>4, <2>5, <2>6, <2>7 DEF Next, vars
<1> QED BY <1>1, <1>2 DEF FInv

\* FInv holds in every reachable state.
LEMMA FilesInvariant == Spec => []FInv
<1>1. Init => FInv
  <2> SUFFICES ASSUME Init PROVE \A i \in Ids : FilesOf(i)
    BY LineageInit DEF FInv
  <2> QED BY DEF Init, FilesOf, Whole, Dated, Ordered, Named, Fresh, Idle
<1> QED BY <1>1, FilesNext, PTL DEF Spec

\* A row within its retention that names files can be replayed, however its thread,
\* the watchdog, reconciliations and the sweeps of rows and of directories interleave
\* (_store_replay_artifacts, cleanup_old_records, prune_old_run_dirs).
THEOREM RetainedIsReplayable == Spec => []RetainedRowHasFiles
<1>1. FInv => RetainedRowHasFiles
  BY DEF FInv, FilesOf, Named, Stored, RetainedRowHasFiles, ReplayData
<1> QED BY <1>1, FilesInvariant, PTL

\* No start and no sweep of any server removes the workspace under a run whose attempts
\* so far fit into the age limit, whatever the limit and the budget of an attempt are
\* (prune_stale_workspaces, _periodic_cleanup).
THEOREM RunKeepsWorkspace == Spec => []LiveWorkspaceKept
<1>1. FInv => LiveWorkspaceKept
  BY DEF FInv, FilesOf, Fresh, LiveWorkspaceKept
<1> QED BY <1>1, FilesInvariant, PTL
=============================================================================
