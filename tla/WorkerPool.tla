----------------------------- MODULE WorkerPool -----------------------------
(***************************************************************************)
(* The async worker pool of tako_vm/server/queue.py together with the      *)
(* execution_records rows it writes, the ThreadPoolExecutor that runs the  *)
(* jobs and the container each running job owns.                           *)
(*                                                                         *)
(* The pool is one asyncio event loop: code between two awaits is atomic,  *)
(* so the model has one action per stretch of code from an await to the    *)
(* next.  Nothing inside an `async with self._jobs_lock` body awaits, so   *)
(* the lock is never contended and those bodies are part of the action     *)
(* around them.  A database write is split in two: the moment it commits   *)
(* (Commit actions: the server may do this while the event loop is         *)
(* blocked) and the moment the coroutine resumes.  Threads of the pool     *)
(* and the containers move on their own.                                   *)
(***************************************************************************)
EXTENDS Naturals, Sequences, FiniteSets, ExecutionRecords

CONSTANTS
  Jobs,           \* job ids; every id is submitted at most once (uuid4)
  Workers,        \* the worker coroutines, max_workers of them
  Cancellers,     \* POST /jobs/{id}/cancel requests, each made at most once
  NoJob,          \* "None": no job
  MaxQueueSize,   \* max_queue_size, the bound of the asyncio.Queue
  MaxFaults,      \* bound: how many storage calls may fail
  MaxBoots        \* bound: how many times the process may be started again

ASSUME PoolAssumption ==
  /\ NoJob \notin Jobs
  /\ IsFiniteSet(Workers)
  /\ MaxQueueSize \in Nat \ {0}
  /\ MaxFaults \in Nat
  /\ MaxBoots \in Nat

VARIABLES
  rec,        \* execution_records.status of each job (survives a crash)
  dlq,        \* jobs with a dead_letter_queue row (survives a crash)
  queue,      \* _queue
  active,     \* keys of _active_jobs
  running,    \* keys of _running_jobs
  future,     \* QueuedJob.future
  cancelled,  \* jobs whose QueuedJob.cancelled is set
  signalSent, \* jobs whose QueuedJob.cancel_signal_sent is set
  submit,     \* progress of the submit() call of each job
  wpc,        \* await at which each worker coroutine is suspended
  wjob,       \* the local variable `job` of each worker
  wnew,       \* status of the record a worker is saving
  wdone,      \* the write a worker awaits has committed
  condemned,  \* workers on which stop() called task.cancel()
  thread,     \* the ThreadPoolExecutor work item of each job
  cpc,        \* await at which each cancel() call is suspended
  cjob,       \* the job of each cancel() call
  chit,       \* what kill_container returned to a cancel() call
  stopPc,     \* progress of the shutdown of the lifespan handler
  stopJob,    \* the job stop() is draining
  up,         \* the process is alive
  boots,      \* history: restarts so far
  faults,     \* history: storage failures so far
  faulty      \* history: jobs one of whose save_record calls raised

poolVars   == <<queue, active, running, future, cancelled, signalSent, submit>>
workerVars == <<wpc, wjob, wnew, wdone, condemned>>
cancelVars == <<cpc, cjob, chit>>
stopVars   == <<stopPc, stopJob, up, boots>>
faultVars  == <<faults, faulty>>
vars == <<rec, dlq, poolVars, workerVars, thread, cancelVars, stopVars, faultVars>>

-----------------------------------------------------------------------------
(* The values of the executor's record that the pool looks at.             *)

\* What execute_job_with_record returns: the status of its record, with exit
\* code 137/143 ("oom", "killed") and 124 ("exit124") told apart from the rest,
\* or "raised" when it raises instead.
Outcome == {"succeeded", "failed", "killed", "oom", "exit124", "hosttimeout", "raised"}

\* Mutant: the executor's own word for a killed container is saved as the status.
OutcomeStatusRaw(o) == IF o \in {"exit124", "hosttimeout"} THEN "timeout" ELSE o

OutcomeStatus(o) ==
  CASE o = "killed"                     -> "failed"
    [] o \in {"exit124", "hosttimeout"} -> "timeout"
    [] OTHER                            -> o

\* record.exit_code in {124, 137, 143}
ExitedBySignal(o) == o \in {"killed", "oom", "exit124"}

FutureState == {"none", "pending", "aborted"} \cup Terminal
ThreadState == {"none", "waiting", "running", "dying", "dropped"} \cup Outcome
SubmitState == {"none", "saving", "put", "full", "accepted", "rejected", "error"}

\* The awaits of _worker_loop; those in SavePc are calls of save_record.
SavePc   == {"skipSave", "save", "failSave", "cancelSave", "recoverSave"}
WorkerPc == {"get", "mark", "exec", "watchKill", "dlq", "sleep", "exited"} \cup SavePc
CancelPc == {"idle", "save", "saved", "kill", "signal", "done"}
StopPc   == {"no", "drain", "drainSave", "wait", "join", "closing", "closed"}

TypeOK ==
  /\ rec \in [Jobs -> RowStatus] /\ dlq \subseteq Jobs
  /\ queue \in Seq(Jobs) /\ active \subseteq Jobs /\ running \subseteq Jobs
  /\ future \in [Jobs -> FutureState]
  /\ cancelled \subseteq Jobs /\ signalSent \subseteq Jobs
  /\ submit \in [Jobs -> SubmitState]
  /\ wpc \in [Workers -> WorkerPc] /\ wjob \in [Workers -> Jobs \cup {NoJob}]
  /\ wnew \in [Workers -> Terminal] /\ wdone \in [Workers -> BOOLEAN]
  /\ condemned \subseteq Workers
  /\ thread \in [Jobs -> ThreadState]
  /\ cpc \in [Cancellers -> CancelPc] /\ cjob \in [Cancellers -> Jobs \cup {NoJob}]
  /\ chit \in [Cancellers -> BOOLEAN]
  /\ stopPc \in StopPc /\ stopJob \in Jobs \cup {NoJob}
  /\ up \in BOOLEAN /\ boots \in Nat
  /\ faults \in Nat /\ faulty \subseteq Jobs

-----------------------------------------------------------------------------

Init ==
  /\ rec = [j \in Jobs |-> "absent"] /\ dlq = {}
  /\ queue = <<>> /\ active = {} /\ running = {}
  /\ future = [j \in Jobs |-> "none"]
  /\ cancelled = {} /\ signalSent = {}
  /\ submit = [j \in Jobs |-> "none"]
  /\ wpc = [w \in Workers |-> "get"] /\ wjob = [w \in Workers |-> NoJob]
  /\ wnew = [w \in Workers |-> "failed"] /\ wdone = [w \in Workers |-> FALSE]
  /\ condemned = {}
  /\ thread = [j \in Jobs |-> "none"]
  /\ cpc = [c \in Cancellers |-> "idle"] /\ cjob = [c \in Cancellers |-> NoJob]
  /\ chit = [c \in Cancellers |-> FALSE]
  /\ stopPc = "no" /\ stopJob = NoJob /\ up = TRUE /\ boots = 0
  /\ faults = 0 /\ faulty = {}

\* self._shutdown
Shutdown == stopPc # "no"

\* Coroutines run except while stop() blocks the loop in thread_pool.shutdown(wait=True).
LoopRuns == up /\ stopPc # "join"

\* storage.close() has closed the connection pool.
StorageOpen == stopPc # "closed"

\* A worker coroutine resumes normally: no CancelledError is due to it.
Resumes(w) == LoopRuns /\ w \notin condemned

\* A save_record for job j raises: its retries are exhausted, or the pool is closed.
StorageRaises(j) ==
  /\ IF StorageOpen THEN faults < MaxFaults /\ faults' = faults + 1
                    ELSE UNCHANGED faults
  /\ faulty' = faulty \cup {j}

\* future.set_result(v) or future.cancel(), a no-op on a finished future.
Resolved(j, v) == [future EXCEPT ![j] = IF @ = "pending" THEN v ELSE @]

-----------------------------------------------------------------------------
(* submit()                                                                *)

\* The call up to its first await: save_record of the "queued" record.
SubmitCall(j) ==
  /\ LoopRuns /\ submit[j] = "none"
  /\ submit' = [submit EXCEPT ![j] = "saving"]
  /\ UNCHANGED <<rec, dlq, queue, active, running, future, cancelled, signalSent,
                 workerVars, thread, cancelVars, stopVars, faultVars>>

SubmitCommit(j) ==
  /\ submit[j] = "saving" /\ up /\ StorageOpen
  /\ rec' = [rec EXCEPT ![j] = SaveRecord(@, "queued")]
  /\ submit' = [submit EXCEPT ![j] = "put"]
  /\ UNCHANGED <<dlq, queue, active, running, future, cancelled, signalSent,
                 workerVars, thread, cancelVars, stopVars, faultVars>>

\* put_nowait succeeds and the job enters _active_jobs, or the queue is full.
SubmitPut(j) ==
  /\ LoopRuns /\ submit[j] = "put"
  /\ \/ /\ Len(queue) < MaxQueueSize
        /\ queue' = Append(queue, j)
        /\ active' = active \cup {j}
        /\ future' = [future EXCEPT ![j] = "pending"]
        /\ submit' = [submit EXCEPT ![j] = "accepted"]
     \/ /\ Len(queue) >= MaxQueueSize
        /\ submit' = [submit EXCEPT ![j] = "full"]
        /\ UNCHANGED <<queue, active, future>>
  /\ UNCHANGED <<rec, dlq, running, cancelled, signalSent,
                 workerVars, thread, cancelVars, stopVars, faultVars>>

\* Mutant: a full queue is reported to the client but the row is left as it is.
SubmitRejectUnsaved(j) ==
  /\ LoopRuns /\ submit[j] = "full"
  /\ submit' = [submit EXCEPT ![j] = "rejected"]
  /\ UNCHANGED <<rec, dlq, queue, active, running, future, cancelled, signalSent,
                 workerVars, thread, cancelVars, stopVars, faultVars>>

\* Queue full: the row is saved again as failed, the client gets a 503.
SubmitReject(j) ==
  /\ LoopRuns /\ submit[j] = "full" /\ StorageOpen
  /\ rec' = [rec EXCEPT ![j] = SaveRecord(@, "failed")]
  /\ submit' = [submit EXCEPT ![j] = "rejected"]
  /\ UNCHANGED <<dlq, queue, active, running, future, cancelled, signalSent,
                 workerVars, thread, cancelVars, stopVars, faultVars>>

\* One of the two writes of submit() raises, before or after it committed; the
\* client gets a 500.
SubmitRaises(j) ==
  /\ LoopRuns /\ submit[j] \in {"saving", "put", "full"}
  /\ StorageRaises(j)
  /\ \/ UNCHANGED rec
     \/ /\ submit[j] = "full" /\ StorageOpen
        /\ rec' = [rec EXCEPT ![j] = SaveRecord(@, "failed")]
  /\ submit' = [submit EXCEPT ![j] = "error"]
  /\ UNCHANGED <<dlq, queue, active, running, future, cancelled, signalSent,
                 workerVars, thread, cancelVars, stopVars>>

-----------------------------------------------------------------------------
(* _worker_loop()                                                          *)

\* Mutant: an iteration ends in `return` where the code has `continue`.
LoopTopOnce == "exited"

\* The `while not self._shutdown` test at the top of the loop.
LoopTop == IF Shutdown THEN "exited" ELSE "get"

\* Mutant: the `finally` forgets _running_jobs.
EndIterationStranding(w) ==
  /\ active' = active \ {wjob[w]} /\ UNCHANGED running
  /\ wpc' = [wpc EXCEPT ![w] = LoopTop]
  /\ wjob' = [wjob EXCEPT ![w] = NoJob]
  /\ wnew' = [wnew EXCEPT ![w] = "failed"]
  /\ wdone' = [wdone EXCEPT ![w] = FALSE]

\* The `finally` of an iteration (pops both dictionaries), then the loop test.
EndIteration(w) ==
  /\ active' = active \ {wjob[w]}
  /\ running' = running \ {wjob[w]}
  /\ wpc' = [wpc EXCEPT ![w] = LoopTop]
  /\ wjob' = [wjob EXCEPT ![w] = NoJob]
  /\ wnew' = [wnew EXCEPT ![w] = "failed"]
  /\ wdone' = [wdone EXCEPT ![w] = FALSE]

\* Worker w calls save_record with a record of the given status and suspends.
StartSave(w, pc, status) ==
  /\ wpc' = [wpc EXCEPT ![w] = pc]
  /\ wnew' = [wnew EXCEPT ![w] = status]
  /\ wdone' = [wdone EXCEPT ![w] = FALSE]

\* Mutant: the worker does not look at job.cancelled.
WorkerTakeUnchecked(w) ==
  /\ Resumes(w) /\ wpc[w] = "get" /\ queue # <<>>
  /\ queue' = Tail(queue) /\ running' = running \cup {Head(queue)}
  /\ wjob' = [wjob EXCEPT ![w] = Head(queue)]
  /\ wpc' = [wpc EXCEPT ![w] = "mark"]
  /\ UNCHANGED <<rec, dlq, active, future, cancelled, signalSent, submit, wnew, wdone,
                 condemned, thread, cancelVars, stopVars, faultVars>>

\* Mutant: the job stays at the head of the queue while it is worked on.
WorkerTakePeeking(w) ==
  /\ Resumes(w) /\ wpc[w] = "get" /\ queue # <<>> /\ Head(queue) \notin cancelled
  /\ running' = running \cup {Head(queue)}
  /\ wjob' = [wjob EXCEPT ![w] = Head(queue)]
  /\ wpc' = [wpc EXCEPT ![w] = "mark"]
  /\ UNCHANGED <<rec, dlq, queue, active, future, cancelled, signalSent, submit, wnew,
                 wdone, condemned, thread, cancelVars, stopVars, faultVars>>

\* queue.get() returns: a job cancelled while it waited is skipped, any other
\* enters _running_jobs (it stays in _active_jobs) and is marked running.
WorkerTake(w) ==
  /\ Resumes(w) /\ wpc[w] = "get" /\ queue # <<>>
  /\ LET j == Head(queue) IN
       /\ queue' = Tail(queue)
       /\ wjob' = [wjob EXCEPT ![w] = j]
       /\ \/ /\ j \in cancelled \/ future[j] = "aborted"
             /\ StartSave(w, "skipSave", "cancelled")
             /\ UNCHANGED running
          \/ /\ j \notin cancelled /\ future[j] # "aborted"
             /\ running' = running \cup {j}
             /\ wpc' = [wpc EXCEPT ![w] = "mark"]
             /\ UNCHANGED <<wnew, wdone>>
  /\ UNCHANGED <<rec, dlq, active, future, cancelled, signalSent, submit, condemned,
                 thread, cancelVars, stopVars, faultVars>>

\* queue.get() times out and the loop test sees the shutdown flag.
WorkerLeave(w) ==
  /\ Resumes(w) /\ wpc[w] = "get" /\ Shutdown
  /\ wpc' = [wpc EXCEPT ![w] = "exited"]
  /\ UNCHANGED <<rec, dlq, poolVars, wjob, wnew, wdone, condemned,
                 thread, cancelVars, stopVars, faultVars>>

\* mark_record_running returns, or fails (best effort: nothing is written), and
\* the job is handed to the thread pool.
WorkerMark(w) ==
  /\ Resumes(w) /\ wpc[w] = "mark"
  /\ \/ /\ StorageOpen
        /\ rec' = [rec EXCEPT ![wjob[w]] = MarkRecordRunning(@)]
        /\ UNCHANGED faults
     \/ /\ IF StorageOpen THEN faults < MaxFaults /\ faults' = faults + 1
                          ELSE UNCHANGED faults
        /\ UNCHANGED rec
  /\ thread' = [thread EXCEPT ![wjob[w]] = "waiting"]
  /\ wpc' = [wpc EXCEPT ![w] = "exec"]
  /\ UNCHANGED <<dlq, poolVars, wjob, wnew, wdone, condemned, cancelVars, stopVars, faulty>>

\* The status saved for a job that ran: "cancelled" when the user cancelled it
\* and it was stopped by a signal.
FinalStatus(j, status, bySignal) ==
  IF j \in cancelled /\ (j \in signalSent \/ bySignal) THEN "cancelled" ELSE status

\* The executor thread delivers its record, or its exception.
WorkerReturn(w) ==
  /\ Resumes(w) /\ wpc[w] = "exec"
  /\ LET o == thread[wjob[w]] IN
       \/ /\ o \in Outcome \ {"raised"}
          /\ StartSave(w, "save", FinalStatus(wjob[w], OutcomeStatus(o), ExitedBySignal(o)))
       \/ /\ o = "raised"
          /\ StartSave(w, "failSave", "failed")
  /\ UNCHANGED <<rec, dlq, poolVars, wjob, condemned, thread, cancelVars, stopVars, faultVars>>

\* Work items whose thread is busy, abandoned ones included.
BusyThreads == {j \in Jobs : thread[j] \in {"running", "dying"}}

\* Every thread of the pool is busy: a work item has to wait for one.
PoolFull == Cardinality(BusyThreads) >= Cardinality(Workers)

\* wait_for gives up on the thread: a work item that has not started is
\* cancelled, a running one is abandoned; the container is to be killed.  The
\* budget is over a minute, so an item still waiting then waits for a thread.
WorkerWatchdog(w) ==
  /\ Resumes(w) /\ wpc[w] = "exec"
  /\ \/ thread[wjob[w]] \in {"running", "dying"}
     \/ thread[wjob[w]] = "waiting" /\ PoolFull
  /\ thread' = [thread EXCEPT ![wjob[w]] = IF @ = "waiting" THEN "dropped" ELSE @]
  /\ wpc' = [wpc EXCEPT ![w] = "watchKill"]
  /\ UNCHANGED <<rec, dlq, poolVars, wjob, wnew, wdone, condemned,
                 cancelVars, stopVars, faultVars>>

\* docker kill of the container of attempt 0, which may not be up (not started
\* yet, gone, or a later attempt): hit tells whether a container was killed.
KillContainer(j, hit) ==
  IF hit THEN /\ thread[j] = "running"
              /\ thread' = [thread EXCEPT ![j] = "dying"]
         ELSE UNCHANGED thread

\* Mutant: a watchdog timeout takes the path of an internal error.
WorkerWatchKillFails(w) ==
  /\ Resumes(w) /\ wpc[w] = "watchKill"
  /\ \E hit \in BOOLEAN : KillContainer(wjob[w], hit)
  /\ StartSave(w, "failSave", "timeout")
  /\ UNCHANGED <<rec, dlq, poolVars, wjob, condemned, cancelVars, stopVars, faultVars>>

WorkerWatchKill(w) ==
  /\ Resumes(w) /\ wpc[w] = "watchKill"
  /\ \E hit \in BOOLEAN : KillContainer(wjob[w], hit)
  /\ StartSave(w, "save", FinalStatus(wjob[w], "timeout", FALSE))
  /\ UNCHANGED <<rec, dlq, poolVars, wjob, condemned, cancelVars, stopVars, faultVars>>

\* The database commits the write a worker awaits.
WorkerCommit(w) ==
  /\ up /\ StorageOpen /\ wpc[w] \in SavePc /\ ~wdone[w]
  /\ rec' = [rec EXCEPT ![wjob[w]] = SaveRecord(@, wnew[w])]
  /\ wdone' = [wdone EXCEPT ![w] = TRUE]
  /\ UNCHANGED <<dlq, poolVars, wpc, wjob, wnew, condemned,
                 thread, cancelVars, stopVars, faultVars>>

\* Mutant: the waiters get what the executor thread returned, not what was saved.
WorkerSavedOther(w) ==
  /\ Resumes(w) /\ wpc[w] \in {"skipSave", "save", "cancelSave"} /\ wdone[w]
  /\ future' = Resolved(wjob[w], IF thread[wjob[w]] \in Outcome \ {"raised"}
                                 THEN OutcomeStatus(thread[wjob[w]]) ELSE wnew[w])
  /\ EndIteration(w)
  /\ UNCHANGED <<rec, dlq, queue, cancelled, signalSent, submit, condemned,
                 thread, cancelVars, stopVars, faultVars>>

\* Mutant: the skip path leaves the waiters to cancel().
WorkerSavedSilent(w) ==
  /\ Resumes(w) /\ wpc[w] \in {"skipSave", "save", "cancelSave"} /\ wdone[w]
  /\ future' = IF wpc[w] = "skipSave" THEN future ELSE Resolved(wjob[w], wnew[w])
  /\ EndIteration(w)
  /\ UNCHANGED <<rec, dlq, queue, cancelled, signalSent, submit, condemned,
                 thread, cancelVars, stopVars, faultVars>>

\* save_record returns in the skip path, after the execution, or in the
\* CancelledError handler: the waiters are given the record.
WorkerSaved(w) ==
  /\ Resumes(w) /\ wpc[w] \in {"skipSave", "save", "cancelSave"} /\ wdone[w]
  /\ future' = Resolved(wjob[w], wnew[w])
  /\ EndIteration(w)
  /\ UNCHANGED <<rec, dlq, queue, cancelled, signalSent, submit, condemned,
                 thread, cancelVars, stopVars, faultVars>>

\* In the Exception handler save_record returns and add_to_dlq is called.
WorkerFailSaved(w) ==
  /\ Resumes(w) /\ wpc[w] = "failSave" /\ wdone[w]
  /\ wpc' = [wpc EXCEPT ![w] = "dlq"]
  /\ UNCHANGED <<rec, dlq, poolVars, wjob, wnew, wdone, condemned,
                 thread, cancelVars, stopVars, faultVars>>

\* add_to_dlq returns or fails (best effort); the waiters get the failed record.
WorkerDeadLetter(w) ==
  /\ Resumes(w) /\ wpc[w] = "dlq"
  /\ \/ /\ StorageOpen /\ dlq' = dlq \cup {wjob[w]} /\ UNCHANGED faults
     \/ /\ IF StorageOpen THEN faults < MaxFaults /\ faults' = faults + 1
                          ELSE UNCHANGED faults
        /\ UNCHANGED dlq
  /\ future' = Resolved(wjob[w], "failed")
  /\ EndIteration(w)
  /\ UNCHANGED <<rec, queue, cancelled, signalSent, submit, condemned,
                 thread, cancelVars, stopVars, faulty>>

\* save_record raises, before or after its write committed.  An exception in
\* the body goes to the inner handler, one in a handler or in the skip path to
\* the outer handler; both save the job as failed.
WorkerRaises(w) ==
  /\ Resumes(w) /\ wpc[w] \in SavePc \ {"recoverSave"}
  /\ StorageRaises(wjob[w])
  /\ StartSave(w, IF wpc[w] = "save" THEN "failSave" ELSE "recoverSave", "failed")
  /\ UNCHANGED <<rec, dlq, poolVars, wjob, condemned, thread, cancelVars, stopVars>>

\* The outer handler's save returns, or raises and the future is cancelled;
\* either way the coroutine then sleeps for a second.
WorkerRecovers(w) ==
  /\ Resumes(w) /\ wpc[w] = "recoverSave"
  /\ \/ /\ wdone[w]
        /\ future' = Resolved(wjob[w], "failed")
        /\ UNCHANGED faultVars
     \/ /\ StorageRaises(wjob[w])
        /\ future' = Resolved(wjob[w], "aborted")
  /\ wpc' = [wpc EXCEPT ![w] = "sleep"]
  /\ UNCHANGED <<rec, dlq, queue, active, running, cancelled, signalSent, submit,
                 wjob, wnew, wdone, condemned, thread, cancelVars, stopVars>>

WorkerWakes(w) ==
  /\ Resumes(w) /\ wpc[w] = "sleep"
  /\ EndIteration(w)
  /\ UNCHANGED <<rec, dlq, queue, future, cancelled, signalSent, submit, condemned,
                 thread, cancelVars, stopVars, faultVars>>

\* The CancelledError of stop() is raised at the await w is suspended at.  During
\* the execution or the save after it the handler saves a cancelled record;
\* anywhere else the error leaves the loop through the `finally`.
WorkerCancelled(w) ==
  /\ LoopRuns /\ w \in condemned
  /\ condemned' = condemned \ {w}
  /\ \/ /\ wpc[w] \in {"exec", "watchKill", "save"}
        /\ StartSave(w, "cancelSave", "cancelled")
        /\ UNCHANGED <<active, running, wjob>>
     \/ /\ wpc[w] \notin {"exec", "watchKill", "save"}
        /\ EndIteration(w)
  /\ UNCHANGED <<rec, dlq, queue, future, cancelled, signalSent, submit,
                 thread, cancelVars, stopVars, faultVars>>

-----------------------------------------------------------------------------
(* The thread pool                                                         *)

\* One of the max_workers threads picks a waiting work item.
ThreadStart(j) ==
  /\ up /\ thread[j] = "waiting" /\ ~PoolFull
  /\ thread' = [thread EXCEPT ![j] = "running"]
  /\ UNCHANGED <<rec, dlq, poolVars, workerVars, cancelVars, stopVars, faultVars>>

\* execute_job_with_record ends; after a kill the container's exit code is 137.
ThreadFinish(j) ==
  /\ up
  /\ \E o \in Outcome :
       /\ \/ thread[j] = "running"
          \/ thread[j] = "dying" /\ o \in {"killed", "oom"}
       /\ thread' = [thread EXCEPT ![j] = o]
  /\ UNCHANGED <<rec, dlq, poolVars, workerVars, cancelVars, stopVars, faultVars>>

-----------------------------------------------------------------------------
(* cancel()                                                                *)

\* The lock section.  A job in _active_jobs with an unfinished future is flagged
\* and leaves _active_jobs; otherwise a job in _running_jobs is flagged and its
\* container is to be killed.  (cancel() of any other job returns False.)
CancelCall(c, j) ==
  /\ LoopRuns /\ cpc[c] = "idle" /\ submit[j] = "accepted"
  /\ \/ /\ j \in active /\ future[j] = "pending"
        /\ active' = active \ {j}
        /\ cpc' = [cpc EXCEPT ![c] = "save"]
     \/ /\ ~(j \in active /\ future[j] = "pending")
        /\ j \in running
        /\ cpc' = [cpc EXCEPT ![c] = "kill"]
        /\ UNCHANGED active
  /\ cancelled' = cancelled \cup {j}
  /\ cjob' = [cjob EXCEPT ![c] = j]
  /\ UNCHANGED <<rec, dlq, queue, running, future, signalSent, submit,
                 workerVars, thread, chit, stopVars, faultVars>>

CancelCommit(c) ==
  /\ up /\ StorageOpen /\ cpc[c] = "save"
  /\ rec' = [rec EXCEPT ![cjob[c]] = SaveRecord(@, "cancelled")]
  /\ cpc' = [cpc EXCEPT ![c] = "saved"]
  /\ UNCHANGED <<dlq, poolVars, workerVars, thread, cjob, chit, stopVars, faultVars>>

\* Mutant: cancel() tells the waiters before the record is saved.
CancelSavedEarly(c) ==
  /\ LoopRuns /\ cpc[c] \in {"save", "saved"}
  /\ future' = Resolved(cjob[c], "cancelled")
  /\ cpc' = [cpc EXCEPT ![c] = "done"]
  /\ UNCHANGED <<rec, dlq, queue, active, running, cancelled, signalSent, submit,
                 workerVars, thread, cjob, chit, stopVars, faultVars>>

\* save_record returns: the waiters are told the job is cancelled.
CancelSaved(c) ==
  /\ LoopRuns /\ cpc[c] = "saved"
  /\ future' = Resolved(cjob[c], "cancelled")
  /\ cpc' = [cpc EXCEPT ![c] = "done"]
  /\ UNCHANGED <<rec, dlq, queue, active, running, cancelled, signalSent, submit,
                 workerVars, thread, cjob, chit, stopVars, faultVars>>

\* save_record raises out of cancel(): the client gets a 500.
CancelRaises(c) ==
  /\ LoopRuns /\ cpc[c] \in {"save", "saved"}
  /\ StorageRaises(cjob[c])
  /\ cpc' = [cpc EXCEPT ![c] = "done"]
  /\ UNCHANGED <<rec, dlq, poolVars, workerVars, thread, cjob, chit, stopVars>>

\* kill_container runs in a helper thread.
CancelKill(c) ==
  /\ up /\ cpc[c] = "kill"
  /\ \E hit \in BOOLEAN :
       /\ KillContainer(cjob[c], hit)
       /\ chit' = [chit EXCEPT ![c] = hit]
  /\ cpc' = [cpc EXCEPT ![c] = "signal"]
  /\ UNCHANGED <<rec, dlq, poolVars, workerVars, cjob, stopVars, faultVars>>

\* The second lock section: cancel_signal_sent, if the job is still tracked.
CancelSignalled(c) ==
  /\ LoopRuns /\ cpc[c] = "signal"
  /\ signalSent' = IF cjob[c] \notin running THEN signalSent
                   ELSE IF chit[c] THEN signalSent \cup {cjob[c]}
                   ELSE signalSent \ {cjob[c]}
  /\ cpc' = [cpc EXCEPT ![c] = "done"]
  /\ UNCHANGED <<rec, dlq, queue, active, running, future, cancelled, submit,
                 workerVars, thread, cjob, chit, stopVars, faultVars>>

-----------------------------------------------------------------------------
(* Shutdown, crash and start of the process (lifespan, stop)               *)

\* The lifespan handler calls stop(), which sets _shutdown.
StopCall ==
  /\ up /\ stopPc = "no" /\ boots < MaxBoots
  /\ stopPc' = "drain"
  /\ UNCHANGED <<rec, dlq, poolVars, workerVars, thread, cancelVars,
                 stopJob, up, boots, faultVars>>

\* `while not self._queue.empty()`: take a job and save it as cancelled, or go
\* on to wait for the workers.
StopDrain ==
  /\ stopPc = "drain"
  /\ \/ /\ queue # <<>>
        /\ stopJob' = Head(queue) /\ queue' = Tail(queue)
        /\ stopPc' = "drainSave"
     \/ /\ queue = <<>>
        /\ stopPc' = "wait"
        /\ UNCHANGED <<stopJob, queue>>
  /\ UNCHANGED <<rec, dlq, active, running, future, cancelled, signalSent, submit,
                 workerVars, thread, cancelVars, up, boots, faultVars>>

\* Mutant: stop() cancels the future of a pending job without saving a record.
StopDrainedUnsaved ==
  /\ stopPc = "drainSave"
  /\ future' = Resolved(stopJob, "aborted")
  /\ stopPc' = "drain" /\ stopJob' = NoJob
  /\ UNCHANGED <<rec, dlq, queue, active, running, cancelled, signalSent, submit,
                 workerVars, thread, cancelVars, up, boots, faultVars>>

\* The save returns or fails (best effort), the latter before or after its commit,
\* and the future of the drained job is cancelled.
StopDrained ==
  /\ stopPc = "drainSave"
  /\ LET saved == [rec EXCEPT ![stopJob] = SaveRecord(@, "cancelled")] IN
       \/ rec' = saved /\ UNCHANGED faultVars
       \/ rec' \in {rec, saved} /\ StorageRaises(stopJob)
  /\ future' = Resolved(stopJob, "aborted")
  /\ stopPc' = "drain" /\ stopJob' = NoJob
  /\ UNCHANGED <<dlq, queue, active, running, cancelled, signalSent, submit,
                 workerVars, thread, cancelVars, up, boots>>

\* asyncio.wait ends, because every worker left or by its timeout; the rest are
\* cancelled, and thread_pool.shutdown(wait=True, cancel_futures=True) blocks
\* the event loop after dropping the work items that have not started.
StopWaited ==
  /\ stopPc = "wait"
  /\ condemned' = {w \in Workers : wpc[w] # "exited"}
  /\ thread' = [j \in Jobs |-> IF thread[j] = "waiting" THEN "dropped" ELSE thread[j]]
  /\ stopPc' = "join"
  /\ UNCHANGED <<rec, dlq, poolVars, wpc, wjob, wnew, wdone, cancelVars,
                 stopJob, up, boots, faultVars>>

\* Every thread has ended; stop() clears the dictionaries and returns.
StopJoined ==
  /\ up /\ stopPc = "join" /\ BusyThreads = {}
  /\ active' = {} /\ running' = {}
  /\ stopPc' = "closing"
  /\ UNCHANGED <<rec, dlq, queue, future, cancelled, signalSent, submit,
                 workerVars, thread, cancelVars, stopJob, up, boots, faultVars>>

\* storage.close()
StorageClose ==
  /\ stopPc = "closing"
  /\ stopPc' = "closed"
  /\ UNCHANGED <<rec, dlq, poolVars, workerVars, thread, cancelVars,
                 stopJob, up, boots, faultVars>>

\* The process ends: everything but the database is lost.
ProcessEnds ==
  /\ up /\ up' = FALSE
  /\ queue' = <<>> /\ active' = {} /\ running' = {}
  /\ future' = [j \in Jobs |-> "none"]
  /\ cancelled' = {} /\ signalSent' = {}
  /\ submit' = [j \in Jobs |-> IF submit[j] \in {"saving", "put", "full"}
                               THEN "error" ELSE submit[j]]
  /\ wpc' = [w \in Workers |-> "exited"] /\ wjob' = [w \in Workers |-> NoJob]
  /\ wnew' = [w \in Workers |-> "failed"] /\ wdone' = [w \in Workers |-> FALSE]
  /\ condemned' = {}
  /\ thread' = [j \in Jobs |-> IF thread[j] \in {"waiting", "running", "dying"}
                               THEN "dropped" ELSE thread[j]]
  /\ cpc' = [c \in Cancellers |-> IF cpc[c] = "idle" THEN "idle" ELSE "done"]
  /\ stopPc' = "no" /\ stopJob' = NoJob
  /\ UNCHANGED <<rec, dlq, cjob, chit, boots, faultVars>>

Exit == stopPc = "closed" /\ (\A w \in Workers : wpc[w] = "exited") /\ ProcessEnds

Crash == boots < MaxBoots /\ ProcessEnds

\* lifespan start-up: stale rows are reconciled before the workers start.
Restart ==
  /\ ~up /\ up' = TRUE
  /\ boots' = boots + 1
  /\ rec' = [j \in Jobs |-> ReconcileStale(rec[j])]
  /\ wpc' = [w \in Workers |-> "get"]
  /\ UNCHANGED <<dlq, poolVars, wjob, wnew, wdone, condemned, thread, cancelVars,
                 stopPc, stopJob, faultVars>>

-----------------------------------------------------------------------------

SubmitStep(j) == SubmitCommit(j) \/ SubmitPut(j) \/ SubmitReject(j)

WorkerStep(w) ==
  \/ WorkerTake(w) \/ WorkerLeave(w) \/ WorkerMark(w) \/ WorkerReturn(w)
  \/ WorkerWatchKill(w) \/ WorkerCommit(w) \/ WorkerSaved(w) \/ WorkerFailSaved(w)
  \/ WorkerDeadLetter(w) \/ WorkerRecovers(w) \/ WorkerWakes(w) \/ WorkerCancelled(w)

ThreadStep(j) == ThreadStart(j) \/ ThreadFinish(j)

CancelStep(c) == CancelCommit(c) \/ CancelSaved(c) \/ CancelKill(c) \/ CancelSignalled(c)

StopStep ==
  StopDrain \/ StopDrained \/ StopWaited \/ StopJoined \/ StorageClose \/ Exit

Next ==
  \/ \E j \in Jobs : SubmitCall(j) \/ SubmitStep(j) \/ SubmitRaises(j) \/ ThreadStep(j)
  \/ \E w \in Workers : WorkerStep(w) \/ WorkerWatchdog(w) \/ WorkerRaises(w)
  \/ \E c \in Cancellers :
       CancelStep(c) \/ CancelRaises(c) \/ \E j \in Jobs : CancelCall(c, j)
  \/ StopCall \/ StopStep \/ Crash \/ Restart

Spec == Init /\ [][Next]_vars

\* Every coroutine and thread that can move eventually does, the database
\* answers, and a process that ended is started again.  Clients, faults, the
\* watchdog, crashes and the decision to shut down are not fair.
Fairness ==
  /\ \A j \in Jobs : WF_vars(SubmitStep(j)) /\ WF_vars(ThreadStep(j))
  /\ \A w \in Workers : /\ WF_vars(WorkerStep(w))
                        /\ WF_vars(~StorageOpen /\ WorkerRaises(w))
  /\ \A c \in Cancellers : WF_vars(CancelStep(c))
  /\ WF_vars(StopStep) /\ WF_vars(Restart)

FairSpec == Spec /\ Fairness

-----------------------------------------------------------------------------
(* Properties                                                              *)

InQueue(j) == \E i \in 1..Len(queue) : queue[i] = j
Held(j) == \E w \in Workers : wjob[w] = j

\* A waiter is never handed a final record that the database does not back: when
\* a future has a result, the row of the job is terminal.  The writers are three
\* (worker, cancel, the recovery path), and any of their saves may fail.
ResultIsDurable ==
  \A j \in Jobs : future[j] \in Terminal => rec[j] \in Terminal

\* What waiters are told and what the row says differ only for a job that was
\* cancelled, that a storage call failed for, or that a shutdown interrupted.
ResultMatchesRow ==
  \A j \in Jobs : future[j] \in Terminal /\ future[j] # rec[j]
                    => j \in cancelled \/ j \in faulty \/ Shutdown

\* A future is cancelled (recovery path, shutdown) only once the row of the job
\* is terminal, unless the storage call that was to make it so failed.
AbortedAfterRow ==
  \A j \in Jobs : future[j] = "aborted" => rec[j] \in Terminal \/ j \in faulty

\* No job is lost or duplicated on its way: it is in the queue at most once, and
\* never while a worker or the drain of stop() has it; two workers never have
\* the same job; a job in the queue has not been handed to a thread.
SingleCustody ==
  /\ \A i, k \in 1..Len(queue) : queue[i] = queue[k] => i = k
  /\ \A i \in 1..Len(queue) : /\ ~Held(queue[i]) /\ stopJob # queue[i]
                              /\ thread[queue[i]] = "none"
  /\ \A v, w \in Workers : wjob[v] = wjob[w] /\ wjob[v] # NoJob => v = w
  /\ \A w \in Workers : wjob[w] # NoJob => stopJob # wjob[w]

\* Clients never hang: an unfinished future belongs to a job that is queued, that
\* a worker works on, or that stop() is draining.  (Until stop() has cancelled
\* its worker tasks: see WorkerCancelled.)
WaiterServed ==
  \A j \in Jobs : future[j] = "pending" /\ stopPc \notin {"closing", "closed"}
                    => InQueue(j) \/ Held(j) \/ stopJob = j

\* No row promises a result nobody works for: while the process runs, a queued or
\* running row belongs to a job in the hands of submit(), the queue, a worker or
\* stop(), unless a storage call for it failed.
RowBacked ==
  \A j \in Jobs :
    up /\ stopPc \notin {"closing", "closed"} /\ rec[j] \in InFlight /\ j \notin faulty
      => submit[j] \in {"put", "full"} \/ InQueue(j) \/ Held(j) \/ stopJob = j

\* No iteration of a worker leaves its job in a dictionary, where it would be
\* reported pending or running for ever.
NoStrandedEntry ==
  \A j \in active \cup running :
    InQueue(j) \/ Held(j) \/ (Shutdown /\ (stopJob = j \/ future[j] = "aborted"))

\* Only jobs whose execution raised reach the dead letter queue, never one that
\* ran out of its watchdog budget or ended in a status of its own.
DeadLettersFailed ==
  \A j \in dlq : rec[j] \in {"failed", "cancelled"} \/ j \in faulty

\* A terminal row never changes, whichever of worker, cancel, submit, stop and
\* the reconciliation of a restart writes late.
TerminalIsFinal ==
  [][\A j \in Jobs : rec[j] \in Terminal => rec'[j] = rec[j]]_rec

\* A job flagged as cancelled before a worker took it is never taken for
\* execution and never handed to a thread.
CancelledBeforeStartNeverRuns ==
  [][\A j \in Jobs : j \in cancelled /\ j \notin running /\ thread[j] = "none"
                       => j \notin running' /\ thread'[j] = "none"]_vars

\* The status GET /jobs/{id} reports (get_job_status): the dictionaries first,
\* then the row.
ReportedStatus(j) ==
  CASE j \in running                                    -> "running"
    [] j \in active \ running /\ future[j] = "aborted"   -> "cancelled"
    [] j \in active \ running /\ future[j] = "pending"   -> "pending"
    [] j \in active \ running /\ future[j] \in Terminal  -> future[j]
    [] OTHER                                            -> rec[j]

\* A client that polled a final status never polls another one afterwards, while
\* the server runs and whatever races with its polls.
ReportedStatusIsFinal ==
  [][\A j \in Jobs : ReportedStatus(j) \in Terminal /\ up /\ up' /\ ~Shutdown
                       => ReportedStatus(j)' = ReportedStatus(j) \/ Shutdown']_vars

\* The record of every job follows the promised lifecycle.
Lifecycle == INSTANCE JobLifecycle WITH Jobs <- Jobs, rec <- rec
LifecycleSpec == Lifecycle!Spec

\* Everybody waiting for a job is eventually released, storage failures,
\* cancellations, shutdown and crashes included.
WaitersReleased == \A j \in Jobs : future[j] = "pending" ~> future[j] # "pending"

\* Every row that was ever queued eventually becomes terminal across shutdowns
\* and crashes, as long as the storage calls succeed.
RowsSettle ==
  \A j \in Jobs : rec[j] \in InFlight ~> rec[j] \in Terminal \/ j \in faulty

\* The claim of the branch of cancel() for running jobs ("Check running jobs -
\* send a kill to the tracked container"): flagging a job that a worker is
\* executing goes on to kill its container.
CancelKillsRunning ==
  [][\A j \in Jobs : j \in running /\ j \in cancelled' \ cancelled
       => \E c \in Cancellers : cpc'[c] = "kill" /\ cjob'[c] = j]_vars

\* The claim of the watchdog's record ("Execution exceeded the watchdog budget ...;
\* container was killed"): a job saved as timed out has at least been started.
TimedOutJobRan ==
  \A j \in Jobs : rec[j] = "timeout" => thread[j] # "dropped"
=============================================================================
