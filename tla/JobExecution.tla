---------------------------- MODULE JobExecution ----------------------------
(***************************************************************************)
(* Execution of jobs in containers: the retry loop of                      *)
(* execute_job_with_record and the body of _run_container                  *)
(* (tako_vm/execution/worker.py), the circuit breaker they share, the      *)
(* Docker daemon they drive through the docker CLI, kills from outside     *)
(* (cancel, watchdog) and the reaper of leaked containers                  *)
(* (tako_vm/execution/health.py), which the server runs at start-up and    *)
(* every hour.                                                             *)
(*                                                                         *)
(* Jobs run in parallel threads; an action is the code between two calls   *)
(* of subprocess.run.  `docker run` is a process of its own: it creates    *)
(* the container, starts it and waits for it, and loses its connection     *)
(* when the daemon fails.  Containers may survive such a failure           *)
(* (live-restore) and then run on unsupervised.                            *)
(***************************************************************************)
EXTENDS CircuitBreaker, FiniteSets

CONSTANTS
  Jobs,         \* jobs being executed
  MaxAttempts,  \* max_retry_attempts
  None,         \* Python's None
  MaxOutages,   \* bound: how often the Docker daemon fails
  MaxCrashes,   \* bound: how often the server process dies
  MaxFailures   \* bound: health polls fail only below this failure_count

ASSUME ExecutionAssumption ==
  /\ MaxAttempts \in Nat \ {0} /\ None \notin Nat
  /\ MaxOutages \in Nat /\ MaxCrashes \in Nat /\ MaxFailures \in Nat

Attempts == 0..(MaxAttempts - 1)

\* Containers by name: generate_container_name gives each attempt its own.
Containers == Jobs \X Attempts

VARIABLES
  breaker,  \* get_circuit_breaker()
  ripe,     \* recovery_timeout has passed since _last_failure_time
  pc,       \* where the thread of each job is
  attempt,  \* retry_ctx.attempt
  result,   \* what _run_container is about to return or has returned
  verdict,  \* status and error type of the ExecutionRecord
  output,   \* the attempt that wrote result.json in the output directory
  box,      \* what the daemon has under each container name
  cause,    \* why the process of a container ended
  says,     \* what docker run captured of a container's stdout and stderr
  daemon,   \* the Docker daemon answers
  doomed,   \* containers_to_remove of the reaper
  outages, crashes,  \* history: failures of the daemon and crashes so far
  streak,   \* history: failures recorded since the last recorded success
  lost,     \* history: containers whose docker CLI lost the daemon
  unremoved,\* history: containers whose last removal failed
  blind     \* history: jobs whose OOM inspection found nothing

breakerVars == <<breaker, ripe, streak>>
jobVars     == <<pc, attempt, result, verdict, output>>
dockerVars  == <<box, cause, says, daemon, outages>>
historyVars == <<lost, unremoved, blind>>
vars == <<breakerVars, jobVars, dockerVars, doomed, crashes, historyVars>>

\* The return values of _run_container, by what tells them apart: exit codes 0,
\* 124 and 137 (the latter split by the OOM inspection), another exit code,
\* infra_failure (by exit code, which the record looks at first), circuit open,
\* refused before docker run (config_error or not), docker CLI missing, an exception
\* from subprocess.run, timed_out; and the exceptions it lets through, transient
\* ones ("strained": a full disk) or not.
Result == {"none", "ok", "error", "exit124", "exit137", "oom", "killed", "infra",
           "infra124", "infra137", "refused", "config", "invalid", "nodocker", "fault",
           "timed_out", "strained", "raised"}

Verdict == {"none", "succeeded", "timeout", "oom", "killed", "service_unavailable",
            "config_error", "code_error", "internal_error"}

Pc == {"idle", "check", "launch", "start", "wait", "inspect", "kill", "remove",
       "clean", "done", "gone"}

\* Exit codes 0, 124 and 125, any other one, and 137: the OOM killer, or docker
\* kill (or any other SIGKILL, or sys.exit(137)).
Cause == {"none", "ok", "error", "limit", "exit125", "oom", "kill"}

\* Nothing of note, one of _DOCKER_INFRA_STDERR_PATTERNS (docker run is attached, so
\* the stderr of the program is its own), or something that is not text.
Says == {"plain", "daemon", "binary"}

TypeOK ==
  /\ breaker \in Breaker /\ ripe \in BOOLEAN /\ streak \in Nat
  /\ pc \in [Jobs -> Pc] /\ attempt \in [Jobs -> Attempts]
  /\ result \in [Jobs -> Result] /\ verdict \in [Jobs -> Verdict]
  /\ output \in [Jobs -> Attempts \cup {None}]
  /\ box \in [Containers -> {"absent", "created", "running", "exited"}]
  /\ cause \in [Containers -> Cause] /\ says \in [Containers -> Says]
  /\ daemon \in BOOLEAN /\ doomed \subseteq Containers
  /\ outages \in Nat /\ crashes \in Nat
  /\ lost \subseteq Containers /\ unremoved \subseteq Containers /\ blind \subseteq Jobs

Init ==
  /\ breaker = NewBreaker /\ ripe = FALSE /\ streak = 0
  /\ pc = [j \in Jobs |-> "idle"] /\ attempt = [j \in Jobs |-> 0]
  /\ result = [j \in Jobs |-> "none"] /\ verdict = [j \in Jobs |-> "none"]
  /\ output = [j \in Jobs |-> None]
  /\ box = [c \in Containers |-> "absent"] /\ cause = [c \in Containers |-> "none"]
  /\ says = [c \in Containers |-> "plain"]
  /\ daemon = TRUE /\ doomed = {} /\ outages = 0 /\ crashes = 0
  /\ lost = {} /\ unremoved = {} /\ blind = {}

\* The container of the attempt job j is at.
Current(j) == <<j, attempt[j]>>

Live(j) == pc[j] \notin {"idle", "done", "gone"}

\* A docker run process is attached to the container.
Supervised(c) == c = Current(c[1]) /\ pc[c[1]] \in {"start", "wait"}

-----------------------------------------------------------------------------
(* Outcomes                                                                *)

RecordsSuccess ==
  breaker' = RecordSuccess(breaker) /\ streak' = 0 /\ UNCHANGED ripe

RecordsFailure ==
  breaker' = RecordFailure(breaker) /\ ripe' = FALSE /\ streak' = streak + 1

\* The status and error of the record, from the result of the last attempt: exit
\* codes 124 and 137 come before infra_failure, and a 137 that was not inspected
\* counts as out of memory.  What is left goes to classify_error, which blames the
\* code of the user.
VerdictOf(r) ==
  CASE r = "ok"                                   -> "succeeded"
    [] r \in {"exit124", "timed_out", "infra124"} -> "timeout"
    [] r \in {"oom", "infra137"}                  -> "oom"
    [] r = "killed"                               -> "killed"
    [] r \in {"infra", "refused"}                 -> "service_unavailable"
    [] r = "config"                               -> "config_error"
    [] r \in {"strained", "raised"}               -> "internal_error"
    [] OTHER                                      -> "code_error"

\* Errors and exceptions whose text the loop takes for transient.  (What
\* subprocess.run raises names neither the daemon nor a refused connection.)
Transient(r) == r \in {"infra", "infra124", "infra137", "refused", "strained"}

\* Mutant: the text on stderr decides whatever the exit code.
InfraFailureAnyExit(e, t) == e = "exit125" \/ t = "daemon"

\* classify_docker_run_result: 125 is taken for docker's own exit code, and a non-zero
\* exit with the daemon named on stderr for a failure of the daemon.
InfraFailure(e, t) == e = "exit125" \/ (e # "ok" /\ t = "daemon")

\* What _run_container returns of an infrastructure failure with exit code e.
InfraResult(e) ==
  CASE e = "limit" -> "infra124" [] e \in {"oom", "kill"} -> "infra137" [] OTHER -> "infra"

\* The loop is left with result r: the record is completed, or, when its output
\* cannot be collected, fails with internal_error.
Completes(j, r) ==
  /\ pc' = [pc EXCEPT ![j] = "done"]
  /\ \E v \in {VerdictOf(r), "internal_error"} : verdict' = [verdict EXCEPT ![j] = v]
  /\ UNCHANGED attempt

\* Mutant: a refusal by the breaker is not counted as an attempt.
ConcludesFree(j, r) ==
  /\ result' = [result EXCEPT ![j] = r]
  /\ IF Transient(r) /\ (r = "refused" \/ attempt[j] + 1 < MaxAttempts)
       THEN /\ pc' = [pc EXCEPT ![j] = "clean"]
            /\ attempt' = [attempt EXCEPT ![j] = IF r = "refused" THEN @ ELSE @ + 1]
            /\ UNCHANGED verdict
       ELSE Completes(j, r)

\* Mutant: one attempt too many.
ConcludesLate(j, r) ==
  /\ result' = [result EXCEPT ![j] = r]
  /\ IF Transient(r) /\ attempt[j] + 1 <= MaxAttempts
       THEN /\ pc' = [pc EXCEPT ![j] = "clean"]
            /\ attempt' = [attempt EXCEPT ![j] = @ + 1]
            /\ UNCHANGED verdict
       ELSE Completes(j, r)

\* _run_container has returned r: try again, or complete the record.
Concludes(j, r) ==
  /\ result' = [result EXCEPT ![j] = r]
  /\ IF Transient(r) /\ attempt[j] + 1 < MaxAttempts
       THEN /\ pc' = [pc EXCEPT ![j] = "clean"]
            /\ attempt' = [attempt EXCEPT ![j] = @ + 1]
            /\ UNCHANGED verdict
       ELSE Completes(j, r)

\* The next result and program counter inside _run_container.
Goes(j, p, r) ==
  /\ pc' = [pc EXCEPT ![j] = p] /\ result' = [result EXCEPT ![j] = r]
  /\ UNCHANGED <<attempt, verdict, output>>

-----------------------------------------------------------------------------
(* execute_job_with_record and _run_container                              *)

\* Job type, timeout and workspace: without one of them there is no execution.
Begin(j) ==
  /\ pc[j] = "idle"
  /\ \/ Goes(j, "check", "none")
     \/ \E r \in {"config", "raised"} : Concludes(j, r) /\ UNCHANGED output
  /\ UNCHANGED <<breakerVars, dockerVars, doomed, crashes, historyVars>>

\* is_available; then the image and the requirements are resolved and the command
\* validated, each of which may refuse the job ("config" also when the daemon
\* does not answer the inspection of the image) or raise.
Check(j) ==
  /\ pc[j] = "check"
  /\ breaker' = Probed(breaker, ripe)
  /\ \/ /\ ~IsAvailable(breaker, ripe)
        /\ Concludes(j, "refused") /\ UNCHANGED output
     \/ /\ IsAvailable(breaker, ripe)
        /\ Goes(j, "launch", "none")
     \/ /\ IsAvailable(breaker, ripe)
        /\ \E r \in {"config", "invalid", "strained", "raised"} : Concludes(j, r)
        /\ UNCHANGED output
  /\ UNCHANGED <<ripe, streak, dockerVars, doomed, crashes, historyVars>>

\* docker run starts and has the container created.
Launch(j) ==
  /\ pc[j] = "launch" /\ daemon /\ box[Current(j)] = "absent"
  /\ box' = [box EXCEPT ![Current(j)] = "created"]
  /\ Goes(j, "start", "none")
  /\ UNCHANGED <<breakerVars, cause, says, daemon, outages, doomed, crashes, historyVars>>

\* docker run exits with 125 and no container: no daemon, no image, a bad flag.
LaunchRefused(j) ==
  /\ pc[j] = "launch"
  /\ RecordsFailure
  /\ Goes(j, "remove", "infra")
  /\ UNCHANGED <<dockerVars, doomed, crashes, historyVars>>

\* The docker command is missing, or it cannot be run; the breaker learns of the
\* latter if the text of the exception names docker.
LaunchFails(j) ==
  /\ pc[j] = "launch"
  /\ \/ RecordsFailure /\ Goes(j, "remove", "nodocker")
     \/ (RecordsFailure \/ UNCHANGED breakerVars) /\ Goes(j, "kill", "fault")
  /\ UNCHANGED <<dockerVars, doomed, crashes, historyVars>>

StartContainer(j) ==
  /\ pc[j] = "start" /\ daemon /\ box[Current(j)] = "created"
  /\ box' = [box EXCEPT ![Current(j)] = "running"]
  /\ Goes(j, "wait", "none")
  /\ UNCHANGED <<breakerVars, cause, says, daemon, outages, doomed, crashes, historyVars>>

\* The container is created and cannot be started: 125, or 126 and 127 for an
\* entrypoint that cannot be run, which look like exit codes of the program.
StartFails(j) ==
  /\ pc[j] = "start" /\ daemon /\ box[Current(j)] = "created"
  /\ \/ RecordsFailure /\ Goes(j, "remove", "infra")
     \/ RecordsSuccess /\ Goes(j, "remove", "error")
  /\ UNCHANGED <<dockerVars, doomed, crashes, historyVars>>

\* The container is gone before it was started, or the daemon is lost: 125.
RunLost(j) ==
  /\ \/ pc[j] = "start" /\ box[Current(j)] # "created"
     \/ pc[j] \in {"start", "wait"} /\ Current(j) \in lost
  /\ RecordsFailure
  /\ Goes(j, "remove", "infra")
  /\ UNCHANGED <<dockerVars, doomed, crashes, historyVars>>

\* docker run returns the exit code e of the container with the text t its program
\* wrote, and 137 is looked into unless it counts as an infrastructure failure.  Text
\* that cannot be decoded raises an exception instead, even after exit code 0.  (With
\* exit code 125 it does not matter whether the text names the daemon.)
Returned(j) ==
  /\ pc[j] = "wait" /\ cause[Current(j)] # "none" /\ Current(j) \notin lost
  /\ \E t \in Says : LET e == cause[Current(j)] IN
       /\ e = "exit125" => t # "daemon"
       /\ says' = [says EXCEPT ![Current(j)] = t]
       /\ \/ t = "binary" /\ UNCHANGED breakerVars /\ Goes(j, "kill", "fault")
          \/ /\ t # "binary" /\ InfraFailure(e, t)
             /\ RecordsFailure /\ Goes(j, "remove", InfraResult(e))
          \/ /\ t # "binary" /\ ~InfraFailure(e, t) /\ RecordsSuccess
             /\ \/ e = "ok" /\ Goes(j, "remove", "ok")
                \/ e = "error" /\ Goes(j, "remove", "error")
                \/ e = "limit" /\ Goes(j, "remove", "exit124")
                \/ e \in {"oom", "kill"} /\ Goes(j, "inspect", "exit137")
  /\ UNCHANGED <<box, cause, daemon, outages, doomed, crashes, historyVars>>

\* The host timeout ends docker run, not the container.
HostTimeout(j) ==
  /\ pc[j] \in {"start", "wait"}
  /\ Goes(j, "kill", "timed_out")
  /\ UNCHANGED <<breakerVars, dockerVars, doomed, crashes, historyVars>>

\* Mutant: the OOM killer is believed whatever docker inspect says.
InspectBelieving(j) ==
  /\ pc[j] = "inspect"
  /\ Goes(j, "remove", "oom")
  /\ UNCHANGED <<breakerVars, dockerVars, doomed, crashes, historyVars>>

\* classify_sigkill: without an answer the job counts as out of memory.
Inspect(j) ==
  /\ pc[j] = "inspect"
  /\ IF daemon /\ box[Current(j)] = "exited"
       THEN /\ Goes(j, "remove", IF cause[Current(j)] = "oom" THEN "oom" ELSE "killed")
            /\ UNCHANGED blind
       ELSE Goes(j, "remove", "oom") /\ blind' = blind \cup {j}
  /\ UNCHANGED <<breakerVars, dockerVars, doomed, crashes, lost, unremoved>>

\* The process of a container ends by docker kill or docker rm -f.
Dies(c) == IF box[c] = "running" THEN [cause EXCEPT ![c] = "kill"] ELSE cause

\* kill_container, best effort.
Kill(j) ==
  /\ pc[j] = "kill"
  /\ Goes(j, "remove", result[j])
  /\ IF daemon /\ box[Current(j)] = "running"
       THEN box' = [box EXCEPT ![Current(j)] = "exited"] /\ cause' = Dies(Current(j))
       ELSE UNCHANGED <<box, cause>>
  /\ UNCHANGED <<breakerVars, says, daemon, outages, doomed, crashes, historyVars>>

\* remove_container, best effort.
RemoveContainer(c) ==
  /\ IF daemon THEN box' = [box EXCEPT ![c] = "absent"] /\ cause' = Dies(c)
               ELSE UNCHANGED <<box, cause>>
  /\ unremoved' = IF daemon \/ box[c] = "absent" THEN unremoved \ {c}
                                                 ELSE unremoved \cup {c}
  /\ UNCHANGED <<says, daemon, outages>>

\* Mutant: after a host timeout the container is killed but not removed.
RemoveUnlessTimedOut(j) ==
  /\ pc[j] = "remove"
  /\ IF result[j] = "timed_out" THEN UNCHANGED <<dockerVars, unremoved>>
                                ELSE RemoveContainer(Current(j))
  /\ Concludes(j, result[j])
  /\ UNCHANGED <<breakerVars, output, doomed, crashes, lost, blind>>

\* The `finally` of _run_container, then the decision of the loop.
Remove(j) ==
  /\ pc[j] = "remove"
  /\ RemoveContainer(Current(j))
  /\ Concludes(j, result[j])
  /\ UNCHANGED <<breakerVars, output, doomed, crashes, lost, blind>>

\* Mutant: a retry removes the old container and keeps its output.
CleanContainerOnly(j) ==
  /\ pc[j] = "clean"
  /\ RemoveContainer(<<j, attempt[j] - 1>>)
  /\ pc' = [pc EXCEPT ![j] = "check"]
  /\ UNCHANGED <<breakerVars, attempt, result, verdict, output, doomed, crashes, lost, blind>>

\* A retry removes the container and the output of the attempt before it.
Clean(j) ==
  /\ pc[j] = "clean"
  /\ RemoveContainer(<<j, attempt[j] - 1>>)
  /\ output' = [output EXCEPT ![j] = None]
  /\ pc' = [pc EXCEPT ![j] = "check"]
  /\ UNCHANGED <<breakerVars, attempt, result, verdict, doomed, crashes, lost, blind>>

-----------------------------------------------------------------------------
(* Containers, the daemon and the other callers of docker                  *)

\* The entrypoint of a container ends, having written result.json or not.
ContainerEnds(c) ==
  /\ box[c] = "running"
  /\ box' = [box EXCEPT ![c] = "exited"]
  /\ \E e \in Cause \ {"none"} : cause' = [cause EXCEPT ![c] = e]
  /\ \/ UNCHANGED output
     \/ Live(c[1]) /\ output' = [output EXCEPT ![c[1]] = c[2]]
  /\ UNCHANGED <<breakerVars, pc, attempt, result, verdict, says, daemon, outages, doomed,
                 crashes, historyVars>>

\* The daemon fails: attached CLIs lose it; containers survive it or not.
DaemonDown ==
  /\ daemon /\ outages < MaxOutages
  /\ daemon' = FALSE /\ outages' = outages + 1
  /\ lost' = lost \cup {c \in Containers : Supervised(c)}
  /\ \E D \in SUBSET {c \in Containers : box[c] = "running"} :
       /\ box' = [c \in Containers |-> IF c \in D THEN "exited" ELSE box[c]]
       /\ cause' = [c \in Containers |-> IF c \in D THEN "kill" ELSE cause[c]]
  /\ UNCHANGED <<breakerVars, jobVars, says, doomed, crashes, unremoved, blind>>

DaemonUp ==
  /\ ~daemon /\ daemon' = TRUE
  /\ UNCHANGED <<breakerVars, jobVars, box, cause, says, outages, doomed, crashes, historyVars>>

\* cancel() and the watchdog kill the container of attempt 0.
ExternalKill(j) ==
  /\ Live(j) /\ daemon /\ box[<<j, 0>>] = "running"
  /\ box' = [box EXCEPT ![<<j, 0>>] = "exited"] /\ cause' = Dies(<<j, 0>>)
  /\ UNCHANGED <<breakerVars, jobVars, says, daemon, outages, doomed, crashes, historyVars>>

\* recovery_timeout passes.
TimePasses ==
  /\ breaker.state = "open" /\ ~ripe /\ ripe' = TRUE
  /\ UNCHANGED <<breaker, streak, jobVars, dockerVars, doomed, crashes, historyVars>>

\* check_docker_health: GET /health and start-up.
HealthCheck ==
  /\ \/ daemon /\ RecordsSuccess
     \/ breaker.failures < MaxFailures /\ RecordsFailure
  /\ UNCHANGED <<jobVars, dockerVars, doomed, crashes, historyVars>>

\* A running container that no attempt in progress owns.
Orphaned(c) == box[c] = "running" /\ ~Supervised(c)

\* Mutant: running containers are never considered.
SweepListIdle(old) ==
  /\ daemon /\ doomed = {}
  /\ doomed' = {c \in Containers : box[c] \in {"created", "exited"}}
  /\ UNCHANGED <<breakerVars, jobVars, dockerVars, crashes, historyVars>>

\* cleanup_orphaned_containers lists what it will remove: containers that do not
\* run, and running ones that are old.
SweepList(old) ==
  /\ daemon /\ doomed = {}
  /\ doomed' = {c \in Containers : box[c] \in {"created", "exited"}} \cup old
  /\ UNCHANGED <<breakerVars, jobVars, dockerVars, crashes, historyVars>>

\* A container of a run in progress may be old as well: the age limit covers
\* max_startup_timeout, but the startup_timeout of a request or job type is not held
\* to that.
Sweep == \E old \in SUBSET {c \in Containers : box[c] = "running"} : SweepList(old)

\* docker rm -f of the next listed container, best effort.
SweepRemove(c) ==
  /\ c \in doomed /\ doomed' = doomed \ {c}
  /\ IF daemon THEN box' = [box EXCEPT ![c] = "absent"] /\ cause' = Dies(c)
               ELSE UNCHANGED <<box, cause>>
  /\ UNCHANGED <<breakerVars, jobVars, says, daemon, outages, crashes, historyVars>>

\* The server process dies: its threads and docker CLIs with it.
Crash ==
  /\ crashes < MaxCrashes /\ crashes' = crashes + 1
  /\ lost' = lost \cup {c \in Containers : Supervised(c)}
  /\ pc' = [j \in Jobs |-> IF Live(j) THEN "gone" ELSE pc[j]]
  /\ breaker' = NewBreaker /\ ripe' = FALSE /\ streak' = 0
  /\ doomed' = {}
  /\ UNCHANGED <<attempt, result, verdict, output, dockerVars, unremoved, blind>>

-----------------------------------------------------------------------------

\* The code of the thread of job j, its docker CLI included.
JobStep(j) ==
  \/ Check(j) \/ Launch(j) \/ LaunchRefused(j) \/ StartContainer(j) \/ StartFails(j)
  \/ RunLost(j) \/ Returned(j) \/ HostTimeout(j) \/ Inspect(j) \/ Kill(j) \/ Remove(j) \/ Clean(j)

Next ==
  \/ \E j \in Jobs : Begin(j) \/ JobStep(j) \/ LaunchFails(j) \/ ExternalKill(j)
  \/ \E c \in Containers : ContainerEnds(c) \/ SweepRemove(c)
  \/ DaemonDown \/ DaemonUp \/ TimePasses \/ HealthCheck \/ Sweep \/ Crash

Spec == Init /\ [][Next]_vars

\* A sweep for which every orphan has become old.
SweepAll == SweepList({c \in Containers : Orphaned(c)})

\* Threads go on: every call of the docker CLI has a timeout.  The daemon comes
\* back, orphans grow old between the hourly sweeps, and a sweep works off its
\* list.  Containers may run for ever; jobs, polls, kills and crashes are free.
Fairness ==
  /\ \A j \in Jobs : WF_vars(JobStep(j))
  /\ \A c \in Containers : WF_vars(SweepRemove(c))
  /\ SF_vars(SweepAll) /\ WF_vars(DaemonUp)

FairSpec == Spec /\ Fairness

-----------------------------------------------------------------------------
(* Properties                                                              *)

\* "5 consecutive failures opens the circuit" (docs/deployment/production.md): a
\* closed circuit opens only after that many failures with no success between
\* them, whichever jobs and health polls report them, and whatever was counted
\* while the circuit was open or half open.
OpensAfterConsecutive ==
  [][breaker.state = "closed" /\ breaker'.state = "open"
       => streak' >= FailureThreshold]_vars

\* The circuit closes on successes in a row, not on successes interspersed with
\* failures.
ClosesAfterConsecutive ==
  [][breaker.state = "half_open" /\ breaker'.state = "closed" /\ breaker' # NewBreaker
       => streak' = 0 /\ (SuccessThreshold > 1 => streak = 0)]_vars

\* The process of the container of an attempt has ended, and docker run was there
\* to report it.
Reported(c) == cause[c] # "none" /\ c \notin lost

Started(c) == box[c] # "absent" \/ cause[c] # "none"

\* Code is not executed twice: once docker run could report how the container of
\* an attempt ended (by itself, by a limit, by cancel or the watchdog), no later
\* attempt gets a container.  Two kinds of end are excepted, which the classification
\* cannot tell from docker's own failures: exit code 125, and a non-zero exit after the
\* program has named the daemon on stderr.  An exit code 0 is final whatever it wrote.
NoReexecution ==
  \A c, d \in Containers :
    /\ c[1] = d[1] /\ c[2] < d[2]
    /\ Reported(c) /\ cause[c] # "exit125" /\ (says[c] = "daemon" => cause[c] = "ok")
    => ~Started(d)

\* The output a record is completed with was written by its last attempt, although
\* earlier containers may survive their docker run, unless the daemon refused to
\* remove the container of an earlier attempt.
OutputIsOwn ==
  \A j \in Jobs :
    pc[j] = "done" => \/ output[j] \in {None, attempt[j]}
                      \/ <<j, output[j]>> \in unremoved

\* Every way out of an execution removes the containers of all its attempts,
\* except those the daemon refused to remove.
JobLeavesNothing ==
  \A c \in Containers :
    pc[c[1]] = "done" /\ c \notin unremoved => box[c] = "absent"

\* The verdict of a record agrees with what happened to the last container: a
\* success ran to its end, and a run that ended with 0 is a success, unless it used up
\* its time, its output could not be collected, was not text or was lost with the
\* daemon; only an OOM kill, or a kill that could not be inspected or was taken for a
\* failure of docker, is reported as one; a job that was killed is reported killed; and
\* Docker is not blamed for a run that docker run reported, except one that exited
\* with 125 or failed after it had named the daemon.
RecordMatchesRun ==
  \A j \in Jobs : LET c == Current(j)  e == cause[c] IN
    /\ verdict[j] = "succeeded" => e = "ok"
    /\ pc[j] = "done" /\ e = "ok" =>
         \/ verdict[j] \in {"succeeded", "timeout", "internal_error"}
         \/ says[c] = "binary" \/ c \in lost
    /\ verdict[j] = "oom" => \/ e = "oom"
                             \/ e = "kill" /\ (j \in blind \/ says[c] = "daemon")
    /\ verdict[j] = "killed" => e = "kill"
    /\ verdict[j] = "service_unavailable" =>
         \/ e \in {"none", "exit125"} \/ c \in lost
         \/ e = "error" /\ says[c] = "daemon"

\* Every execution ends, whatever the daemon, the breaker and user code do.
JobsFinish == \A j \in Jobs : pc[j] = "check" ~> pc[j] \in {"done", "gone"}

\* No container outlives its job for ever: what failed removals and crashes leave
\* behind, running or not, the reaper removes.
LeaksReclaimed ==
  \A j \in Jobs :
    ~Live(j) ~> \A c \in {j} \X Attempts : box[c] = "absent"

\* The claim of the comment in _periodic_cleanup ("reaping it never kills in-flight
\* work"): no container is removed from under its docker run before it ended.
ReaperSparesLive ==
  [][\A c \in doomed \ doomed' :
       Supervised(c) /\ box[c] \in {"created", "running"} => box'[c] # "absent"]_vars
=============================================================================
