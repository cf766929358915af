-------------------------- MODULE ExecutionArchive --------------------------
(***************************************************************************)
(* What the server keeps of an execution: its row, the directory           *)
(* runs/<id> with its code and input, and while it runs a workspace.  Rows *)
(* and directories are written and removed by different hands at different *)
(* times: handlers and workers save rows, executor threads write files,    *)
(* the hourly clean-up removes both, a start settles what another start    *)
(* left, and rerun and fork read both.                                     *)
(*                                                                         *)
(* Queue, futures and cancellation are WorkerPool's matter, the container  *)
(* JobExecution's: here a job is what its thread writes.                   *)
(***************************************************************************)
EXTENDS RecordDatabase

CONSTANTS Ids,          \* execution ids; code and input are named by the id of
                        \* the submission that brought them, each its own
          Torn,         \* a file that is being written
          NoJob, NoRow, NoDir,
          TTL,          \* execution_record_ttl_days
          WsAge,        \* workspace_max_age
          Budget,       \* most time an attempt takes, the delay before it included
          MaxAttempts,  \* RetryConfig.max_attempts
          MaxTime       \* bound of the clock

ASSUME ArchiveConstants ==
  /\ Torn \notin Ids /\ None \notin Ids /\ Torn # None
  /\ TTL \in Nat \ {0} /\ WsAge \in Nat /\ MaxAttempts \in Nat \ {0} /\ MaxTime \in Nat
  \* startup_timeout + timeout + 5 and the delay of a retry; not held to WsAge, which
  \* covers max_startup_timeout, since startup_timeout is not held to that.
  /\ Budget \in Nat \ {0}

VARIABLES now,     \* the clock
          job,     \* what was submitted under each id
          thread,  \* the handler or executor thread of each id
          rows,    \* execution_records
          dirs,    \* data_dir/runs/<id>
          ws,      \* workspaces: time of creation, or None
          sweep    \* _periodic_cleanup of each server

archiveVars == <<now, job, thread, rows, dirs, ws, sweep>>
vars == <<dbVars, archiveVars>>

Idle == [at |-> "idle"]

\* named: the record names both files, so that the execution can be replayed.
Rows == [done : BOOLEAN, created : 0..MaxTime, named : BOOLEAN]
Content == Ids \union {None, Torn}
Dirs == [m : 0..MaxTime, code : Content, input : Content]
Jobs == [s : Servers, sync : BOOLEAN, t : 0..MaxTime, rel : {"none", "rerun", "fork"},
         parent : Ids \union {None}, code : Content, input : Content]

ASSUME NothingThere ==
  /\ NoJob \notin Jobs /\ NoRow \notin Rows /\ NoDir \notin Dirs
  /\ None \notin 0..MaxTime

TypeOK ==
  /\ DbTypeOK
  /\ now \in 0..MaxTime
  /\ job \in [Ids -> Jobs \union {NoJob}]
  /\ thread \in [Ids -> {Idle}
       \union [at : {"fetched"}, s : Servers, q : Ids, rel : {"rerun", "fork"}, named : BOOLEAN]
       \union [at : {"queued", "store", "run", "save"}, c : 0..MaxTime, t0 : 0..MaxTime,
               n : 0..MaxAttempts, named : BOOLEAN, late : BOOLEAN]]
  /\ rows \in [Ids -> Rows \union {NoRow}]
  /\ dirs \in [Ids -> Dirs \union {NoDir}]
  /\ ws \in [Ids -> 0..MaxTime \union {None}]
  /\ sweep \in [Servers -> {"sleep", "disk"}]

Init ==
  /\ DbInit
  /\ now = 0
  /\ job = [i \in Ids |-> NoJob]
  /\ thread = [i \in Ids |-> Idle]
  /\ rows = [i \in Ids |-> NoRow]
  /\ dirs = [i \in Ids |-> NoDir]
  /\ ws = [i \in Ids |-> None]
  /\ sweep = [s \in Servers |-> "sleep"]

-----------------------------------------------------------------------------
(* Requests.                                                               *)

Queued == [at |-> "queued", c |-> 0, t0 |-> 0, n |-> 0, named |-> FALSE, late |-> FALSE]

\* save_record on the row r: a missing row is inserted, an open one keeps its
\* created_at, a terminal one is left alone.
SaveRecord(r, created, named) ==
  CASE r = NoRow -> [done |-> TRUE, created |-> created, named |-> named]
    [] r # NoRow /\ ~r.done -> [r EXCEPT !.done = TRUE, !.named = named]
    [] OTHER -> r

\* submit(): the queued row, and the job in memory.
SubmitJob(i, j) ==
  /\ up
  /\ job' = [job EXCEPT ![i] = j]
  /\ rows' = [rows EXCEPT ![i] = [done |-> FALSE, created |-> now, named |-> FALSE]]
  /\ thread' = [thread EXCEPT ![i] = Queued]

ExecuteCodeAsync(s, i) ==
  /\ Asked /\ pc[s] = "up" /\ job[i] = NoJob /\ thread[i] = Idle
  /\ SubmitJob(i, [s |-> s, sync |-> FALSE, t |-> now, rel |-> "none", parent |-> None,
                   code |-> i, input |-> i])
  /\ UNCHANGED <<container, up, schema, holder, pc, at, tx, now, dirs, ws, sweep>>

\* POST /execute: no row before the end.
ExecuteCode(s, i) ==
  /\ Asked /\ pc[s] = "up" /\ job[i] = NoJob /\ thread[i] = Idle
  /\ job' = [job EXCEPT ![i] = [s |-> s, sync |-> TRUE, t |-> now, rel |-> "none",
                                parent |-> None, code |-> i, input |-> i]]
  /\ thread' = [thread EXCEPT ![i] = Queued]
  /\ UNCHANGED <<container, up, schema, holder, pc, at, tx, now, rows, dirs, ws, sweep>>

\* rerun_job, fork_job: the row of the parent q; only a rerun asks whether the
\* parent is over.
FetchParent(s, i, q, rel) ==
  /\ Asked /\ pc[s] = "up" /\ up /\ job[i] = NoJob /\ thread[i] = Idle
  /\ rows[q] # NoRow /\ (rel = "rerun" => rows[q].done)
  /\ thread' = [thread EXCEPT ![i] = [at |-> "fetched", s |-> s, q |-> q, rel |-> rel,
                                      named |-> rows[q].named]]
  /\ UNCHANGED <<container, up, schema, holder, pc, at, tx, now, job, rows, dirs, ws, sweep>>

\* Mutant: what cannot be read is replaced by something empty.
ReplayDataLenient(named, d) == d # NoDir

\* _get_replay_data: both files named by the record, both there, and the input
\* parses.
ReplayData(named, d) ==
  named /\ d # NoDir /\ d.code # None /\ d.input \notin {None, Torn}

\* The files are read without an await in between, and the job is submitted; or
\* the request is refused (400), or submit() fails.
SubmitReplay(i) ==
  LET f == thread[i]  d == dirs[f.q] IN
  /\ f.at = "fetched"
  /\ IF up /\ ReplayData(f.named, d)
       THEN SubmitJob(i, [s |-> f.s, sync |-> FALSE, t |-> now, rel |-> f.rel, parent |-> f.q,
                          code |-> IF f.rel = "rerun" THEN d.code ELSE i,
                          input |-> d.input])
       ELSE thread' = [thread EXCEPT ![i] = Idle] /\ UNCHANGED <<job, rows>>
  /\ UNCHANGED <<dbVars, now, dirs, ws, sweep>>

-----------------------------------------------------------------------------
(* execute_job_with_record, on a thread.                                   *)

Touch(i) == IF dirs[i] = NoDir THEN [m |-> now, code |-> None, input |-> None]
                               ELSE [dirs[i] EXCEPT !.m = now]

\* The record is made, then the directory and the two files, which are empty
\* when they are opened.
StartThread(i) ==
  /\ thread[i].at = "queued"
  /\ thread' = [thread EXCEPT ![i].at = "store", ![i].c = now]
  /\ dirs' = [dirs EXCEPT ![i] = [Touch(i) EXCEPT !.code = Torn, !.input = Torn]]
  /\ UNCHANGED <<dbVars, now, job, rows, ws, sweep>>

\* _store_replay_artifacts: the record names a file once it is written; an
\* exception ends the storing, not the execution.  Then the workspace is made
\* and the first attempt starts.
StoreReplayArtifacts(i) ==
  /\ thread[i].at = "store"
  /\ \E stored \in BOOLEAN :
       /\ stored => dirs[i] # NoDir
       /\ IF stored \/ dirs[i] = NoDir THEN UNCHANGED ops ELSE Asked
       /\ dirs' = IF stored
            THEN [dirs EXCEPT ![i] = [@ EXCEPT !.code = job[i].code, !.input = job[i].input]]
            ELSE dirs
       /\ thread' = [thread EXCEPT ![i] = [@ EXCEPT !.at = "run", !.n = 1, !.t0 = now,
                                                   !.named = stored]]
  /\ ws' = [ws EXCEPT ![i] = now]
  /\ UNCHANGED <<container, up, schema, holder, pc, at, tx, now, job, rows, sweep>>

\* A transient failure: the next attempt works in the same workspace.
RetryAttempt(i) ==
  /\ Asked /\ thread[i].at = "run" /\ thread[i].n < MaxAttempts
  /\ thread' = [thread EXCEPT ![i].n = @ + 1, ![i].t0 = now]
  /\ UNCHANGED <<container, up, schema, holder, pc, at, tx, now, job, rows, dirs, ws, sweep>>

\* _collect_artifacts makes runs/<id>/artifacts, unless the output is gone or an
\* exception came first; the workspace is removed, or its removal fails.
RunEnds(i) ==
  /\ thread[i].at = "run"
  /\ \/ dirs' = [dirs EXCEPT ![i] = Touch(i)]
     \/ UNCHANGED dirs
  /\ \/ ws' = [ws EXCEPT ![i] = None] /\ UNCHANGED ops
     \/ Asked /\ UNCHANGED ws
  /\ thread' = [thread EXCEPT ![i].at = "save", ![i].n = 0, ![i].t0 = 0]
  /\ UNCHANGED <<container, up, schema, holder, pc, at, tx, now, job, rows, sweep>>

\* The pool saves a record of its own, which names no files, and the thread
\* goes on: a watchdog, a cancel, or the recovery after a save that raised.
GiveUp(i) ==
  /\ Asked
  /\ thread[i] # Idle /\ thread[i].at # "fetched" /\ ~thread[i].late /\ ~job[i].sync
  /\ thread' = [thread EXCEPT ![i] = IF @.at = "queued" THEN Idle ELSE [@ EXCEPT !.late = TRUE]]
  /\ rows' = IF up THEN [rows EXCEPT ![i] = SaveRecord(@, job[i].t, FALSE)] ELSE rows
  /\ UNCHANGED <<container, up, schema, holder, pc, at, tx, now, job, dirs, ws, sweep>>

\* The record of the thread is saved by the worker or the handler of the
\* synchronous request, unless the pool has given up.  Without the database
\* nothing is saved, and the synchronous request is answered all the same.
SaveOutcome(i) ==
  LET t == thread[i] IN
  /\ t.at = "save"
  /\ rows' = IF t.late \/ ~up THEN rows
             ELSE [rows EXCEPT ![i] = SaveRecord(@, t.c, t.named)]
  /\ thread' = [thread EXCEPT ![i] = Idle]
  /\ UNCHANGED <<dbVars, now, job, dirs, ws, sweep>>

-----------------------------------------------------------------------------
(* Start and hourly clean-up.                                              *)

\* Mutant: an age that covers one attempt.
PruneStaleWorkspacesEarly ==
  [i \in Ids |-> IF ws[i] # None /\ ws[i] < now - Budget THEN None ELSE ws[i]]

PruneStaleWorkspaces ==
  [i \in Ids |-> IF ws[i] # None /\ ws[i] < now - WsAge THEN None ELSE ws[i]]

\* Mutant: directories of the day that expires next go as well.
PruneOldRunDirsEarly ==
  [i \in Ids |-> IF dirs[i] # NoDir /\ dirs[i].m <= now - TTL THEN NoDir ELSE dirs[i]]

\* By the time of the last entry made in the directory, row or no row.
PruneOldRunDirs ==
  [i \in Ids |-> IF dirs[i] # NoDir /\ dirs[i].m < now - TTL THEN NoDir ELSE dirs[i]]

\* reconcile_stale_records: every open row fails, whoever works on it.  The pool
\* starts and stale workspaces go before the first request is read.
Reconcile(s) ==
  /\ pc[s] = "ready"
  /\ IF up THEN /\ pc' = [pc EXCEPT ![s] = "up"]
                /\ rows' = [i \in Ids |-> IF rows[i] = NoRow THEN NoRow
                                           ELSE [rows[i] EXCEPT !.done = TRUE]]
                /\ ws' = PruneStaleWorkspaces
           ELSE pc' = [pc EXCEPT ![s] = "off"] /\ UNCHANGED <<rows, ws>>
  /\ UNCHANGED <<container, up, schema, holder, at, tx, ops, now, job, thread, dirs, sweep>>

\* cleanup_old_records: rows of any status.
CleanupRecords(s) ==
  /\ pc[s] = "up" /\ sweep[s] = "sleep" /\ up
  /\ rows' = [i \in Ids |-> IF rows[i] # NoRow /\ rows[i].created < now - TTL
                              THEN NoRow ELSE rows[i]]
  /\ sweep' = [sweep EXCEPT ![s] = "disk"]
  /\ UNCHANGED <<dbVars, now, job, thread, dirs, ws>>

\* The sweeps of the disk, without an await between them; if the clean-up of the
\* dead letters before them raised, they wait for the next hour.
CleanupDisk(s) ==
  /\ sweep[s] = "disk"
  /\ sweep' = [sweep EXCEPT ![s] = "sleep"]
  /\ \/ ws' = PruneStaleWorkspaces /\ dirs' = PruneOldRunDirs
     \/ ~up /\ UNCHANGED <<ws, dirs>>
  /\ UNCHANGED <<dbVars, now, job, thread, rows>>

-----------------------------------------------------------------------------
\* The process of a server ends with its threads and handlers; files stay.
ServerEnds(s) ==
  /\ EndProcess(s)
  /\ thread' = [i \in Ids |->
       IF \/ thread[i].at = "fetched" /\ thread[i].s = s
          \/ job[i] # NoJob /\ job[i].s = s THEN Idle ELSE thread[i]]
  /\ sweep' = [sweep EXCEPT ![s] = "sleep"]
  /\ UNCHANGED <<now, job, rows, dirs, ws>>

\* Time passes; an attempt ends within its budget.
Tick ==
  /\ now < MaxTime /\ now' = now + 1
  /\ \A i \in Ids : thread[i].at = "run" => now < thread[i].t0 + Budget
  /\ UNCHANGED <<dbVars, job, thread, rows, dirs, ws, sweep>>

Executor(i) ==
  \/ StartThread(i) \/ StoreReplayArtifacts(i) \/ RetryAttempt(i) \/ RunEnds(i)
  \/ GiveUp(i) \/ SaveOutcome(i)

Server(s) ==
  \/ DbStep(s) /\ UNCHANGED archiveVars
  \/ Reconcile(s) \/ ServerEnds(s)
  \/ CleanupRecords(s) \/ CleanupDisk(s)

Requests(s, i) ==
  \/ ExecuteCodeAsync(s, i) \/ ExecuteCode(s, i)
  \/ \E q \in Ids, rel \in {"rerun", "fork"} : FetchParent(s, i, q, rel)

Next ==
  \/ \E s \in Servers : Server(s)
  \/ \E s \in Servers, i \in Ids : Requests(s, i)
  \/ \E i \in Ids : Executor(i) \/ SubmitReplay(i)
  \/ (PostgresReady \/ DevDown) /\ UNCHANGED archiveVars
  \/ Tick

Spec == Init /\ [][Next]_vars

-----------------------------------------------------------------------------
\* A rerun runs the code and the input of its parent and a fork the input,
\* although they are read from files another thread writes and the clean-up
\* removes, and the parent may be running, given up, reconciled or expired.
LineageFaithful ==
  \A i \in Ids : job[i] # NoJob /\ job[i].parent # None =>
    LET p == job[job[i].parent] IN
    job[i].input = p.input /\ (job[i].rel = "rerun" => job[i].code = p.code)

\* A row that is not past its retention and names files can be replayed: rows
\* go by the time of submission and directories by that of their last entry,
\* each in its own step of a sweep that may be cut short.
RetainedRowHasFiles ==
  \A i \in Ids : rows[i] # NoRow /\ rows[i].created >= now - TTL /\ rows[i].named
    => ReplayData(TRUE, dirs[i])

\* No sweep, of whichever server, takes the workspace of a run whose attempts so far
\* fit into the age limit.  That is all the age protects: it is measured from the
\* start of the job, and bounds neither startup_timeout nor the number of attempts,
\* so that longer runs lose theirs, contrary to the comment at app.py:300-304.
LiveWorkspaceKept ==
  \A i \in Ids : thread[i].at = "run" /\ thread[i].n * Budget <= WsAge => ws[i] # None
=============================================================================
