----------------------- MODULE JobExecutionOutcomeProofs -----------------------
(***************************************************************************)
(* Proofs about what an execution leaves behind: its containers, its       *)
(* output and the verdict of its record; for every set of jobs, number of  *)
(* attempts, thresholds of the circuit breaker and bounds on faults.       *)
(***************************************************************************)
EXTENDS JobExecutionProofs

-----------------------------------------------------------------------------
(* The inductive invariant                                                 *)

\* Nothing is left under the name of container c, unless its removal failed.
Swept(c) == c \in unremoved \/ box[c] = "absent"

\* The attempts before the current one are swept, and the last one is when the job
\* is done.
AttemptsSwept(j) ==
  /\ \A k \in Attempts : k < attempt[j] => Swept(<<j, k>>)
  /\ pc[j] = "done" => Swept(Current(j))

\* Between the end of an attempt and Clean the output is that of any attempt;
\* otherwise only a container that could not be removed may have written over it.
OutputKept(j) ==
  \/ pc[j] \in {"clean", "gone"}
  \/ output[j] \in {None, attempt[j]}
  \/ <<j, output[j]>> \in unremoved

\* Why an attempt does not end with exit code 0 of container c: it was not started, it
\* failed, what it wrote is not text, or docker run lost it.
Failed(c) ==
  Unstarted(c) \/ cause[c] \notin {"none", "ok"} \/ says[c] = "binary" \/ c \in lost

\* Why docker is blamed for the attempt with container c.
Unavailable(c) ==
  \/ Unstarted(c) \/ c \in lost \/ cause[c] = "exit125"
  \/ cause[c] = "error" /\ says[c] = "daemon"

\* What a result of _run_container says of container c of the attempt.
Truth(j, c, r) ==
  /\ r = "ok" => cause[c] = "ok"
  /\ r = "oom" => cause[c] = "oom" \/ (cause[c] = "kill" /\ j \in blind)
  /\ r = "infra137" => cause[c] \in {"oom", "kill"} /\ says[c] = "daemon"
  /\ r = "killed" => cause[c] = "kill"
  /\ r \in {"infra", "refused"} => Unavailable(c)
  /\ r \in {"error", "config", "invalid", "nodocker", "fault", "none", "exit137"} => Failed(c)

\* The result is truthful from the point where it is settled; on the way there, the
\* OOM inspection has a killed process to inspect, and only what gets no verdict of
\* its container is killed.
ResultPhased(j) ==
  /\ pc[j] \in {"kill", "remove", "done"} => Truth(j, Current(j), result[j])
  /\ pc[j] = "inspect" => cause[Current(j)] \in {"oom", "kill"}
  /\ pc[j] = "kill" => result[j] \in {"timed_out", "fault"}

\* A record has a verdict when the job is done, the one of its result.
VerdictGiven(j) ==
  /\ verdict[j] # "none" <=> pc[j] = "done"
  /\ verdict[j] # "none" => verdict[j] \in {VerdictOf(result[j]), "internal_error"}

Concluded(j) == AttemptsSwept(j) /\ OutputKept(j) /\ ResultPhased(j) /\ VerdictGiven(j)

OInv == Typed /\ Retriable /\ \A j \in Jobs : Concluded(j)

-----------------------------------------------------------------------------
(* Containers                                                              *)

\* What every step but the creation of container c preserves about it: swept, it
\* stays so, and the end of its process is not rewritten.
Settled(c) ==
  /\ Swept(c) => Swept(c)'
  /\ cause[c] # "none" => cause'[c] = cause[c]

\* remove_container leaves nothing behind that is not known to be left.
LEMMA RemovalSweeps ==
  ASSUME Typed, NEW d \in Containers, Consistent(d), RemoveContainer(d)
  PROVE  /\ Swept(d)'
         /\ \A c \in Containers : Consistent(c) => Settled(c)
         /\ \A c \in unremoved : c # d => c \in unremoved'
<1>0. /\ box \in [Containers -> {"absent", "created", "running", "exited"}]
      /\ cause \in [Containers -> Cause] /\ daemon \in BOOLEAN
  BY DEF Typed, TypeOK
<1>1. CASE daemon
  <2>1. box' = [box EXCEPT ![d] = "absent"] /\ unremoved' = unremoved \ {d} /\ cause' = Dies(d)
    BY <1>1 DEF RemoveContainer
  <2>2. QED
    BY <1>0, <2>1 DEF Settled, Swept, Dies, Consistent
<1>2. CASE ~daemon
  <2>1. /\ box' = box /\ cause' = cause
        /\ box[d] = "absent" => unremoved' = unremoved \ {d}
        /\ box[d] # "absent" => unremoved' = unremoved \cup {d}
    BY <1>2 DEF RemoveContainer
  <2>2. QED
    BY <1>0, <2>1 DEF Settled, Swept
<1>3. QED
  BY <1>0, <1>1, <1>2

\* The container a retry removes is that of the attempt before.
LEMMA CleanedContainer ==
  ASSUME Typed, NEW j \in Jobs, Clean(j)
  PROVE  /\ attempt[j] - 1 \in Attempts /\ <<j, attempt[j] - 1>> \in Containers
         /\ attempt[j] - 1 < attempt[j]
  BY ExecutionAssumption DEF Clean, Typed, RetryCounted, TypeOK, Attempts, Containers

\* A step removes one container in remove_container, or leaves the history of
\* removals alone.
LEMMA RemovalsAlone ==
  ASSUME Typed, [Next]_vars
  PROVE  \/ unremoved' = unremoved
         \/ \E j \in Jobs : Remove(j) \/ Clean(j)
<1>1. CASE UNCHANGED vars
  BY <1>1 DEF vars, historyVars
<1>2. ASSUME (\/ \E j \in Jobs : Begin(j) \/ Check(j) \/ Launch(j) \/ LaunchRefused(j)
                 \/ LaunchFails(j) \/ StartContainer(j) \/ StartFails(j) \/ RunLost(j)
                 \/ Returned(j) \/ HostTimeout(j) \/ Inspect(j) \/ Kill(j) \/ ExternalKill(j)
              \/ \E c \in Containers : ContainerEnds(c) \/ SweepRemove(c)
              \/ DaemonDown \/ DaemonUp \/ TimePasses \/ HealthCheck \/ Sweep \/ Crash)
      PROVE  unremoved' = unremoved
  <2>1. UNCHANGED historyVars \/ UNCHANGED unremoved
    BY <1>2, Zenon DEF Begin, Check, Launch, LaunchRefused, LaunchFails, StartContainer,
       StartFails, RunLost, Returned, HostTimeout, Inspect, Kill, ExternalKill, ContainerEnds, SweepRemove,
       DaemonDown, DaemonUp, TimePasses, HealthCheck, Sweep, SweepList, Crash
  <2>2. QED
    BY <2>1 DEF historyVars
<1>3. QED
  BY <1>1, <1>2, Zenon DEF Next, JobStep

\* Containers settle: only its own docker run brings one back.
LEMMA ContainersSettle ==
  ASSUME Typed, Retriable, [Next]_vars, NEW c \in Containers,
         \A j \in Jobs : Launch(j) => c # Current(j)
  PROVE  Settled(c)
<1> USE DEF Settled, Swept, Consistent
<1>0. /\ box \in [Containers -> {"absent", "created", "running", "exited"}]
      /\ cause \in [Containers -> Cause] /\ Consistent(c)
  BY DEF Typed, TypeOK, Retriable
<1>b. ASSUME NEW j \in Jobs PROVE Current(j) \in Containers
  BY DEF Typed, TypeOK, Current, Containers
<1>1. CASE UNCHANGED vars
  BY <1>1 DEF vars, dockerVars, historyVars
<1>2. ASSUME (\/ \E j \in Jobs : Begin(j) \/ Check(j) \/ LaunchRefused(j) \/ LaunchFails(j)
                                 \/ StartFails(j) \/ RunLost(j) \/ Returned(j)
                                 \/ HostTimeout(j) \/ Inspect(j)
              \/ DaemonUp \/ TimePasses \/ HealthCheck \/ Sweep \/ Crash)
      PROVE  Settled(c)
  <2>1. UNCHANGED <<box, cause, unremoved>>
    <3>1. CASE \E j \in Jobs : Begin(j) \/ Check(j) \/ LaunchRefused(j) \/ LaunchFails(j)
                               \/ StartFails(j) \/ RunLost(j) \/ Returned(j)
                               \/ HostTimeout(j) \/ Inspect(j)
      <4>1. /\ UNCHANGED dockerVars \/ UNCHANGED <<box, cause, daemon, outages, doomed,
                                                   crashes, historyVars>>
            /\ UNCHANGED historyVars \/ UNCHANGED unremoved
               \/ UNCHANGED <<box, cause, daemon, outages, doomed, crashes, historyVars>>
        BY <3>1, Zenon DEF Begin, Check, LaunchRefused, LaunchFails, StartFails, RunLost,
                           Returned, HostTimeout, Inspect
      <4>2. QED
        BY <4>1 DEF dockerVars, historyVars
    <3>2. CASE DaemonUp \/ TimePasses \/ HealthCheck \/ Sweep \/ Crash
      BY <3>2 DEF DaemonUp, TimePasses, HealthCheck, Sweep, SweepList, Crash, dockerVars,
                  historyVars
    <3>3. QED
      BY <1>2, <3>1, <3>2
  <2>2. QED
    BY <2>1
<1>3. ASSUME NEW j \in Jobs, Launch(j) \/ StartContainer(j)
      PROVE  Settled(c)
  <2>1. CASE Launch(j)
    <3>1. c # Current(j)
      BY <2>1
    <3>2. QED
      BY <1>0, <1>b, <2>1, <3>1 DEF Launch, historyVars
  <2>2. CASE StartContainer(j)
    BY <1>0, <1>b, <2>2 DEF StartContainer, historyVars
  <2>3. QED
    BY <1>3, <2>1, <2>2
<1>4. ASSUME NEW j \in Jobs, Kill(j) \/ ExternalKill(j)
      PROVE  Settled(c)
  BY <1>0, <1>b, <1>4 DEF Kill, ExternalKill, Dies, historyVars
<1>5. ASSUME NEW j \in Jobs, Remove(j) \/ Clean(j)
      PROVE  Settled(c)
  <2>1. \E d \in Containers : RemoveContainer(d)
    <3>1. CASE Remove(j)
      BY <1>b, <3>1 DEF Remove
    <3>2. CASE Clean(j)
      BY <3>2, CleanedContainer DEF Clean
    <3>3. QED
      BY <1>5, <3>1, <3>2
  <2>2. PICK d \in Containers : RemoveContainer(d)
    BY <2>1
  <2>3. Consistent(d)
    BY DEF Retriable
  <2>4. QED
    BY <1>0, <2>2, <2>3, RemovalSweeps
<1>6. ASSUME NEW d \in Containers, ContainerEnds(d) \/ SweepRemove(d)
      PROVE  Settled(c)
  BY <1>0, <1>6 DEF ContainerEnds, SweepRemove, Dies, historyVars
<1>7. ASSUME DaemonDown
      PROVE  Settled(c)
  <2>1. PICK D \in SUBSET {d \in Containers : box[d] = "running"} :
          /\ box' = [d \in Containers |-> IF d \in D THEN "exited" ELSE box[d]]
          /\ cause' = [d \in Containers |-> IF d \in D THEN "kill" ELSE cause[d]]
    BY <1>7, Zenon DEF DaemonDown
  <2>2. unremoved' = unremoved
    BY <1>7, Zenon DEF DaemonDown
  <2>3. QED
    BY <1>0, <2>1, <2>2
<1>8. QED
  BY <1>1, <1>2, <1>3, <1>4, <1>5, <1>6, <1>7, Zenon DEF Next, JobStep

\* An inspection that found nothing is not forgotten.
LEMMA BlindForGood ==
  ASSUME Typed, [Next]_vars
  PROVE  blind \subseteq blind'
<1>1. CASE UNCHANGED vars
  BY <1>1 DEF vars, historyVars
<1>2. ASSUME NEW j \in Jobs, Inspect(j)
      PROVE  blind \subseteq blind'
  BY <1>2 DEF Inspect
<1>3. ASSUME (\/ \E j \in Jobs : Begin(j) \/ Check(j) \/ Launch(j) \/ LaunchRefused(j)
                 \/ LaunchFails(j) \/ StartContainer(j) \/ StartFails(j) \/ RunLost(j)
                 \/ Returned(j) \/ HostTimeout(j) \/ Kill(j) \/ ExternalKill(j) \/ Remove(j) \/ Clean(j)
              \/ \E c \in Containers : ContainerEnds(c) \/ SweepRemove(c)
              \/ DaemonDown \/ DaemonUp \/ TimePasses \/ HealthCheck \/ Sweep \/ Crash)
      PROVE  blind' = blind
  <2>1. UNCHANGED historyVars \/ UNCHANGED blind
    BY <1>3, Zenon DEF Begin, Check, Launch, LaunchRefused, LaunchFails, StartContainer,
       StartFails, RunLost, Returned, HostTimeout, Kill, ExternalKill, Remove, Clean, ContainerEnds,
       SweepRemove, DaemonDown, DaemonUp, TimePasses, HealthCheck, Sweep, SweepList, Crash
  <2>2. QED
    BY <2>1 DEF historyVars
<1>4. QED
  BY <1>1, <1>2, <1>3, Zenon DEF Next, JobStep

-----------------------------------------------------------------------------
(* Jobs                                                                    *)

\* A job that stays at its attempt has swept the ones before, whatever else happens.
LEMMA SweptOn ==
  ASSUME Typed, Retriable, [Next]_vars, NEW j \in Jobs, AttemptsSwept(j),
         NEW k \in Attempts, k < attempt[j]
  PROVE  Swept(<<j, k>>)'
<1>1. k # attempt[j] /\ <<j, k>> \in Containers
  BY DEF Typed, TypeOK, Attempts, Containers
<1>2. \A i \in Jobs : Launch(i) => <<j, k>> # Current(i)
  BY <1>1 DEF Current
<1>3. Settled(<<j, k>>)
  BY <1>1, <1>2, ContainersSettle
<1>4. Swept(<<j, k>>)
  BY DEF AttemptsSwept
<1>5. QED
  BY <1>3, <1>4 DEF Settled

\* What is said of a container stays true until its job touches it.
LEMMA TruthLasts ==
  ASSUME Typed, Retriable, [Next]_vars, NEW j \in Jobs, NEW c \in Containers,
         c = Current(j), ~Touches(j), NEW r \in Result, Truth(j, c, r)
  PROVE  Truth(j, c, r)'
<1>1. \A i \in Jobs : Touches(i) => c # Current(i)
  BY DEF Current
<1>2. Stable(c) /\ Settled(c) /\ blind \subseteq blind'
  BY <1>1, ContainersDecay, ContainersSettle, BlindForGood DEF Touches
<1>3. (Failed(c) => Failed(c)') /\ (Unavailable(c) => Unavailable(c)')
  BY <1>2 DEF Stable, Settled, Failed, Unavailable
<1>4. QED
  BY <1>2, <1>3 DEF Truth, Settled, Stable

\* The output is written by the container of the attempt the job is at, or by one
\* that could not be removed.
LEMMA OutputStays ==
  ASSUME Typed, Retriable, [Next]_vars, NEW j \in Jobs, AttemptsSwept(j), OutputKept(j),
         pc[j] \notin {"clean", "gone"}, attempt'[j] = attempt[j]
  PROVE  OutputKept(j)'
<1>0. /\ output \in [Jobs -> Attempts \cup {None}] /\ attempt[j] \in Attempts
      /\ box \in [Containers -> {"absent", "created", "running", "exited"}]
  BY DEF Typed, TypeOK
<1>1. ASSUME NEW d \in Containers, ContainerEnds(d)
      PROVE  OutputKept(j)'
  <2>1. /\ d[1] \in Jobs /\ d[2] \in Attempts /\ d = <<d[1], d[2]>>
        /\ box[d] = "running" /\ unremoved' = unremoved
        /\ output' = output \/ output' = [output EXCEPT ![d[1]] = d[2]]
    BY <1>1 DEF ContainerEnds, Containers, historyVars
  <2>2. CASE d[1] = j /\ output'[j] = d[2]
    <3>1. d = <<j, d[2]>> /\ ~Fresh(d)
      BY <2>1, <2>2 DEF Fresh
    <3>2. ~(d[2] > attempt[j])
      BY <2>1, <3>1 DEF Retriable, AttemptsOrdered
    <3>3. CASE d[2] = attempt[j]
      BY <2>2, <3>3 DEF OutputKept
    <3>4. CASE d[2] < attempt[j]
      <4>1. Swept(d)
        BY <2>1, <3>1, <3>4 DEF AttemptsSwept
      <4>2. d \in unremoved'
        BY <2>1, <4>1 DEF Swept
      <4>3. QED
        BY <2>2, <3>1, <4>2 DEF OutputKept
    <3>5. QED
      BY <1>0, <2>1, <3>2, <3>3, <3>4 DEF Attempts
  <2>3. CASE output'[j] = output[j]
    BY <2>1, <2>3 DEF OutputKept
  <2>4. QED
    BY <1>0, <2>1, <2>2, <2>3
<1>2. ASSUME NEW i \in Jobs, Remove(i) \/ Clean(i)
      PROVE  OutputKept(j)'
  <2>1. output'[j] = output[j]
    BY <1>0, <1>2 DEF Remove, Clean
  <2>2. CASE output[j] \in {None, attempt[j]}
    BY <2>1, <2>2 DEF OutputKept
  <2>3. CASE <<j, output[j]>> \in unremoved /\ output[j] # attempt[j]
    <3>1. \E d \in Containers : RemoveContainer(d) /\ <<j, output[j]>> # d
      <4>1. CASE Remove(i)
        BY <2>3, <4>1 DEF Remove, Current, Typed, TypeOK, Containers
      <4>2. CASE Clean(i)
        <5>1. i # j
          BY <4>2 DEF Clean
        <5>2. QED
          BY <4>2, <5>1, CleanedContainer DEF Clean
      <4>3. QED
        BY <1>2, <4>1, <4>2
    <3>2. <<j, output[j]>> \in unremoved'
      BY <2>3, <3>1, RemovalSweeps DEF Retriable
    <3>3. QED
      BY <2>1, <3>2 DEF OutputKept
  <2>4. QED
    BY <2>2, <2>3 DEF OutputKept
<1>3. CASE /\ ~\E d \in Containers : ContainerEnds(d)
           /\ ~\E i \in Jobs : Remove(i) \/ Clean(i)
  <2>1. unremoved' = unremoved
    BY <1>3, RemovalsAlone
  <2>2. output' = output
    <3>1. CASE \/ UNCHANGED vars
               \/ \E i \in Jobs : ExternalKill(i)
               \/ \E c \in Containers : SweepRemove(c)
               \/ DaemonDown \/ DaemonUp \/ TimePasses \/ HealthCheck \/ Sweep \/ Crash
      BY <3>1, Zenon DEF vars, jobVars, ExternalKill, SweepRemove, DaemonDown, DaemonUp,
                         TimePasses, HealthCheck, Sweep, SweepList, Crash
    <3>2. CASE \E i \in Jobs : Begin(i) \/ Check(i) \/ Launch(i) \/ LaunchRefused(i)
                               \/ LaunchFails(i) \/ StartContainer(i)
      BY <3>2, Zenon DEF Begin, Check, Launch, LaunchRefused, LaunchFails, StartContainer, Goes
    <3>3. CASE \E i \in Jobs : StartFails(i) \/ RunLost(i) \/ Returned(i) \/ HostTimeout(i) \/ Inspect(i)
                               \/ Kill(i)
      BY <3>3, Zenon DEF StartFails, RunLost, Returned, HostTimeout, Inspect, Kill, Goes
    <3>4. QED
      BY <1>3, <3>1, <3>2, <3>3, Zenon DEF Next, JobStep
  <2>3. QED
    BY <2>1, <2>2 DEF OutputKept
<1>4. QED
  BY <1>1, <1>2, <1>3

\* A job that does not take part in a step.
LEMMA QuietConcluded ==
  ASSUME Typed, Retriable, [Next]_vars, NEW j \in Jobs, Concluded(j),
         pc'[j] = pc[j], attempt'[j] = attempt[j], result'[j] = result[j],
         verdict'[j] = verdict[j]
  PROVE  Concluded(j)'
<1>0. Current(j) \in Containers /\ Current(j)' = Current(j) /\ result[j] \in Result
  BY DEF Typed, TypeOK, Current, Containers
<1>1. ~Touches(j)
  <2>1. ~(Launch(j) \/ StartContainer(j))
    BY DEF Launch, StartContainer, Goes, Typed, TypeOK
  <2>2. Returned(j) => pc[j] = "wait" /\ pc'[j] \in {"remove", "inspect", "kill"}
    BY ReturnedGoes DEF Returned, Goes, Typed, TypeOK
  <2>3. QED
    BY <2>1, <2>2 DEF Touches
<1>2. Settled(Current(j))
  <2>1. \A i \in Jobs : Launch(i) => Current(j) # Current(i)
    BY <1>1 DEF Current, Touches
  <2>2. QED
    BY <1>0, <2>1, ContainersSettle
<1>3. AttemptsSwept(j)'
  <2>1. \A k \in Attempts : k < attempt[j] => Swept(<<j, k>>)'
    BY SweptOn DEF Concluded
  <2>2. pc[j] = "done" => Swept(Current(j))'
    BY <1>0, <1>2 DEF Concluded, AttemptsSwept, Settled, Swept
  <2>3. QED
    BY <2>1, <2>2 DEF AttemptsSwept
<1>4. OutputKept(j)'
  <2>1. CASE pc[j] \in {"clean", "gone"}
    BY <2>1 DEF OutputKept
  <2>2. CASE pc[j] \notin {"clean", "gone"}
    BY <2>2, OutputStays DEF Concluded
  <2>3. QED
    BY <2>1, <2>2
<1>5. ResultPhased(j)'
  <2>1. pc[j] \in {"kill", "remove", "done"} => Truth(j, Current(j), result[j])'
    <3>1. SUFFICES ASSUME pc[j] \in {"kill", "remove", "done"}, NEW c, c = Current(j),
                          NEW r, r = result[j]
                   PROVE  Truth(j, c, r)'
      BY <1>0 DEF Truth, Failed, Unavailable, Unstarted
    <3>2. Truth(j, c, r)
      BY <3>1 DEF Concluded, ResultPhased
    <3>3. QED
      BY <1>0, <1>1, <3>1, <3>2, TruthLasts
  <2>2. pc[j] = "inspect" => cause'[Current(j)] \in {"oom", "kill"}
    BY <1>2 DEF Settled, Concluded, ResultPhased
  <2>3. QED
    BY <1>0, <2>1, <2>2 DEF Concluded, ResultPhased
<1>6. VerdictGiven(j)'
  BY DEF Concluded, VerdictGiven, VerdictOf
<1>7. QED
  BY <1>3, <1>4, <1>5, <1>6 DEF Concluded

\* A job that goes on with its attempt, when what it found out is true.
LEMMA GoingConcluded ==
  ASSUME Typed, Retriable, [Next]_vars, NEW j \in Jobs, Concluded(j),
         NEW p \in Pc, NEW r \in Result, Goes(j, p, r), NEW c \in Containers, c = Current(j),
         pc[j] \notin {"clean", "done", "gone"}, p \notin {"clean", "done", "gone"},
         p \in {"kill", "remove"} => Truth(j, c, r)',
         p = "inspect" => cause'[c] \in {"oom", "kill"},
         p = "kill" => r \in {"timed_out", "fault"}
  PROVE  Concluded(j)'
<1>1. /\ pc'[j] = p /\ result'[j] = r /\ attempt'[j] = attempt[j] /\ verdict'[j] = verdict[j]
      /\ Current(j)' = c
  BY DEF Goes, Typed, TypeOK, Current
<1>2. AttemptsSwept(j)'
  BY <1>1, SweptOn DEF Concluded, AttemptsSwept
<1>3. OutputKept(j)'
  BY <1>1, OutputStays DEF Concluded
<1>4. ResultPhased(j)'
  <2>1. p \in {"kill", "remove"} => Truth(j, Current(j), result[j])'
    BY <1>1 DEF Truth, Failed, Unavailable, Unstarted
  <2>2. QED
    BY <1>1, <2>1 DEF ResultPhased
<1>5. VerdictGiven(j)'
  BY <1>1 DEF Concluded, VerdictGiven
<1>6. QED
  BY <1>2, <1>3, <1>4, <1>5 DEF Concluded

\* A job whose attempt has returned, when its container is swept and the result true.
LEMMA ConcludingConcluded ==
  ASSUME Typed, Retriable, [Next]_vars, NEW j \in Jobs, Concluded(j),
         NEW r \in Result, Concludes(j, r), NEW c \in Containers, c = Current(j),
         pc[j] \notin {"clean", "done", "gone"}, Swept(c)', Truth(j, c, r)'
  PROVE  Concluded(j)'
<1>0. /\ pc \in [Jobs -> Pc] /\ attempt \in [Jobs -> Attempts] /\ attempt[j] \in Nat
      /\ result \in [Jobs -> Result] /\ verdict \in [Jobs -> Verdict]
      /\ result'[j] = r /\ verdict[j] = "none" /\ c = <<j, attempt[j]>>
  BY DEF Typed, TypeOK, Attempts, Concludes, Concluded, VerdictGiven, Current
<1>1. CASE Transient(r) /\ attempt[j] + 1 < MaxAttempts
  <2>1. pc'[j] = "clean" /\ attempt'[j] = attempt[j] + 1 /\ verdict' = verdict
    BY <1>0, <1>1 DEF Concludes
  <2>2. ASSUME NEW k \in Attempts, k < attempt'[j]
        PROVE  Swept(<<j, k>>)'
    <3>1. k < attempt[j] \/ k = attempt[j]
      BY <1>0, <2>1, <2>2 DEF Attempts
    <3>2. CASE k < attempt[j]
      BY <3>2, SweptOn DEF Concluded
    <3>3. CASE k = attempt[j]
      <4>1. c = <<j, k>>
        BY <1>0, <3>3
      <4>2. QED
        BY <4>1 DEF Swept
    <3>4. QED
      BY <3>1, <3>2, <3>3
  <2>3. AttemptsSwept(j)'
    BY <2>1, <2>2 DEF AttemptsSwept
  <2>4. QED
    BY <1>0, <2>1, <2>3 DEF Concluded, OutputKept, ResultPhased, VerdictGiven
<1>2. CASE ~(Transient(r) /\ attempt[j] + 1 < MaxAttempts)
  <2>1. Completes(j, r)
    BY <1>2, Zenon DEF Concludes
  <2>2. pc'[j] = "done" /\ attempt' = attempt
    BY <1>0, <2>1 DEF Completes
  <2>3. verdict'[j] \in {VerdictOf(r), "internal_error"}
    <3>1. PICK v \in {VerdictOf(r), "internal_error"} : verdict' = [verdict EXCEPT ![j] = v]
      BY <2>1, Zenon DEF Completes
    <3>2. verdict'[j] = v
      BY <1>0, <3>1
    <3>3. QED
      BY <3>1, <3>2
  <2>4. Current(j)' = c
    BY <2>2 DEF Current
  <2>5. AttemptsSwept(j)'
    <3>1. \A k \in Attempts : k < attempt[j] => Swept(<<j, k>>)'
      BY SweptOn DEF Concluded
    <3>2. Swept(Current(j))'
      BY <2>4 DEF Swept
    <3>3. QED
      BY <2>2, <3>1, <3>2 DEF AttemptsSwept
  <2>6. OutputKept(j)'
    BY <2>2, OutputStays DEF Concluded
  <2>7. ResultPhased(j)'
    <3>1. Truth(j, Current(j), result[j])'
      BY <1>0, <2>4 DEF Truth, Failed, Unavailable, Unstarted
    <3>2. QED
      BY <2>2, <3>1 DEF ResultPhased
  <2>8. VerdictGiven(j)'
    <3>1. VerdictOf(result[j])' = VerdictOf(r)
      BY <1>0, Zenon DEF VerdictOf
    <3>2. VerdictOf(r) # "none"
      BY DEF VerdictOf, Result
    <3>3. verdict'[j] # "none"
      BY <2>3, <3>2
    <3>4. QED
      BY <2>2, <2>3, <3>1, <3>3 DEF VerdictGiven
  <2>9. QED
    BY <2>5, <2>6, <2>7, <2>8 DEF Concluded
<1>3. QED
  BY <1>1, <1>2

\* The job that takes a step.
LEMMA MovingConcluded ==
  ASSUME Typed, Retriable, [Next]_vars, NEW j \in Jobs, Concluded(j),
         Begin(j) \/ JobStep(j) \/ LaunchFails(j)
  PROVE  Concluded(j)'
<1> DEFINE c == Current(j)
<1>0. /\ pc \in [Jobs -> Pc] /\ attempt[j] \in Attempts /\ result[j] \in Result
      /\ c \in Containers /\ AttemptPhased(j) /\ Consistent(c)
      /\ box \in [Containers -> {"absent", "created", "running", "exited"}]
      /\ cause \in [Containers -> Cause]
  BY DEF Typed, TypeOK, Retriable, Current, Containers
<1>a. ASSUME NEW d, d = c, Fresh(d), ~Touches(j)
      PROVE  Swept(d)' /\ Unstarted(d)'
  <2>1. \A i \in Jobs : Touches(i) => d # Current(i)
    BY <1>a DEF Current
  <2>2. Settled(d) /\ Stable(d)
    BY <1>0, <1>a, <2>1, ContainersDecay, ContainersSettle DEF Touches
  <2>3. QED
    BY <1>a, <2>2 DEF Settled, Stable, Swept, Fresh, Unstarted
<1>b. ASSUME NEW d, d = c, UNCHANGED <<box, cause, says, lost, blind>>, NEW r, Truth(j, d, r)
      PROVE  Truth(j, d, r)'
  BY <1>b DEF Truth, Failed, Unavailable, Unstarted
<1>c. pc[j] \notin {"launch", "start", "wait"} => ~Touches(j)
  BY DEF Touches, Launch, StartContainer, Returned
<1>d. ASSUME NEW d, Unstarted(d)', NEW r \in {"infra", "error", "refused", "config", "invalid",
                                             "nodocker", "fault", "strained", "raised"}
      PROVE  Truth(j, d, r)'
  BY <1>d DEF Truth, Failed, Unavailable
<1> HIDE DEF c
<1>1. CASE Begin(j)
  <2>1. pc[j] = "idle" /\ Fresh(c) /\ ~Touches(j)
    BY <1>0, <1>1, <1>c DEF Begin, AttemptPhased, c
  <2>2. CASE Goes(j, "check", "none")
    BY <1>0, <2>1, <2>2, GoingConcluded DEF Pc, Result, c
  <2>3. CASE \E r \in {"config", "raised"} : Concludes(j, r)
    BY <1>0, <1>a, <1>d, <2>1, <2>3, ConcludingConcluded DEF Result, c
  <2>4. QED
    BY <1>1, <2>2, <2>3, Zenon DEF Begin
<1>2. CASE Check(j)
  <2>1. pc[j] = "check" /\ Fresh(c) /\ ~Touches(j)
    BY <1>0, <1>2, <1>c DEF Check, AttemptPhased, c
  <2>2. CASE Goes(j, "launch", "none")
    BY <1>0, <2>1, <2>2, GoingConcluded DEF Pc, Result, c
  <2>3. CASE \E r \in {"refused", "config", "invalid", "strained", "raised"} : Concludes(j, r)
    BY <1>0, <1>a, <1>d, <2>1, <2>3, ConcludingConcluded DEF Result, c
  <2>4. QED
    BY <1>2, <2>2, <2>3, Zenon DEF Check
<1>3. CASE Launch(j) \/ StartContainer(j) \/ HostTimeout(j)
  <2>1. /\ pc[j] \in {"launch", "start", "wait"}
        /\ \/ Goes(j, "start", "none") \/ Goes(j, "wait", "none")
           \/ Goes(j, "kill", "timed_out")
    BY <1>3, Zenon DEF Launch, StartContainer, HostTimeout
  <2>2. \A d \in {c} : Truth(j, d, "timed_out")'
    BY DEF Truth
  <2>3. QED
    BY <1>0, <2>1, <2>2, GoingConcluded DEF Pc, Result, c
<1>4. CASE LaunchRefused(j) \/ LaunchFails(j) \/ StartFails(j)
  <2>1. /\ pc[j] \in {"launch", "start"} /\ Unstarted(c) /\ UNCHANGED <<dockerVars, historyVars>>
        /\ \/ \E r \in {"infra", "error", "nodocker"} : Goes(j, "remove", r)
           \/ Goes(j, "kill", "fault")
    BY <1>0, <1>4, Zenon
    DEF LaunchRefused, LaunchFails, StartFails, AttemptPhased, Fresh, Unstarted, c
  <2>2. \A d \in {c} : Unstarted(d)'
    BY <2>1 DEF Unstarted, dockerVars
  <2>3. CASE \E r \in {"infra", "error", "nodocker"} : Goes(j, "remove", r)
    <3>1. PICK r \in {"infra", "error", "nodocker"} : Goes(j, "remove", r)
      BY <2>3
    <3>2. \A d \in {c} : Truth(j, d, r)'
      BY <1>d, <2>2
    <3>3. QED
      BY <1>0, <2>1, <3>1, <3>2, GoingConcluded DEF Pc, Result, c
  <2>4. CASE Goes(j, "kill", "fault")
    <3>1. \A d \in {c} : Truth(j, d, "fault")'
      BY <1>d, <2>2
    <3>2. QED
      BY <1>0, <2>1, <2>4, <3>1, GoingConcluded DEF Pc, Result, c
  <2>5. QED
    BY <2>1, <2>3, <2>4
<1>6. CASE RunLost(j)
  <2>1. /\ pc[j] \in {"start", "wait"} /\ Goes(j, "remove", "infra")
        /\ UNCHANGED <<box, cause, says, lost, blind>>
    BY <1>6 DEF RunLost, dockerVars, historyVars
  <2>2. Truth(j, c, "infra")
    BY <1>0, <1>6 DEF RunLost, AttemptPhased, Unavailable, Truth, c
  <2>3. \A d \in {c} : Truth(j, d, "infra")'
    BY <1>b, <2>1, <2>2
  <2>4. QED
    BY <1>0, <2>1, <2>3, GoingConcluded DEF Pc, Result, c
<1>7. CASE Returned(j)
  <2>1. PICK t \in Says : LET e == cause[c] IN
          /\ says' = [says EXCEPT ![c] = t]
          /\ \/ t = "binary" /\ Goes(j, "kill", "fault")
             \/ InfraFailure(e, t) /\ Goes(j, "remove", InfraResult(e))
             \/ e = "ok" /\ Goes(j, "remove", "ok")
             \/ e = "error" /\ Goes(j, "remove", "error")
             \/ e = "limit" /\ Goes(j, "remove", "exit124")
             \/ e \in {"oom", "kill"} /\ Goes(j, "inspect", "exit137")
    BY <1>7, Zenon DEF Returned, c
  <2>2. /\ pc[j] = "wait" /\ cause[c] # "none"
        /\ UNCHANGED <<box, cause, lost, blind>>
    BY <1>7 DEF Returned, historyVars, c
  <2>3. says'[c] = t /\ cause[c] \in Cause
    BY <1>0, <2>1 DEF Typed, TypeOK
  <2>4. CASE t = "binary" /\ Goes(j, "kill", "fault")
    <3>1. \A d \in {c} : Truth(j, d, "fault")'
      BY <2>3, <2>4 DEF Truth, Failed
    <3>2. QED
      BY <1>0, <2>2, <2>4, <3>1, GoingConcluded DEF Pc, Result, c
  <2>5. CASE InfraFailure(cause[c], t) /\ Goes(j, "remove", InfraResult(cause[c]))
    <3>1. ASSUME NEW r, r = InfraResult(cause[c])
          PROVE  /\ r \in {"infra", "infra124", "infra137"}
                 /\ r = "infra" => \/ cause[c] = "exit125"
                                   \/ cause[c] = "error" /\ t = "daemon"
                 /\ r = "infra137" => cause[c] \in {"oom", "kill"} /\ t = "daemon"
      BY <2>2, <2>3, <2>5, <3>1 DEF InfraResult, InfraFailure, Cause
    <3>2. PICK r \in {"infra", "infra124", "infra137"} :
            /\ Goes(j, "remove", r)
            /\ r = "infra" => cause[c] = "exit125" \/ (cause[c] = "error" /\ t = "daemon")
            /\ r = "infra137" => cause[c] \in {"oom", "kill"} /\ t = "daemon"
      BY <2>5, <3>1
    <3>3. \A d \in {c} : Truth(j, d, r)'
      BY <2>2, <2>3, <3>2 DEF Truth, Unavailable
    <3>4. QED
      BY <1>0, <2>2, <3>2, <3>3, GoingConcluded DEF Pc, Result, c
  <2>6. CASE \/ cause[c] = "ok" /\ Goes(j, "remove", "ok")
             \/ cause[c] = "error" /\ Goes(j, "remove", "error")
             \/ cause[c] = "limit" /\ Goes(j, "remove", "exit124")
    <3>1. PICK r \in {"ok", "error", "exit124"} :
            /\ Goes(j, "remove", r)
            /\ r = "ok" => cause[c] = "ok"
            /\ r = "error" => cause[c] = "error"
      BY <2>6
    <3>2. \A d \in {c} : Truth(j, d, r)'
      BY <2>2, <3>1 DEF Truth, Failed
    <3>3. QED
      BY <1>0, <2>2, <3>1, <3>2, GoingConcluded DEF Pc, Result, c
  <2>7. CASE cause[c] \in {"oom", "kill"} /\ Goes(j, "inspect", "exit137")
    BY <1>0, <2>2, <2>7, GoingConcluded DEF Pc, Result, c
  <2>8. QED
    BY <2>1, <2>4, <2>5, <2>6, <2>7
<1>8. CASE Inspect(j)
  <2>1. pc[j] = "inspect" /\ cause[c] \in {"oom", "kill"} /\ UNCHANGED <<box, cause, lost>>
    BY <1>8 DEF Inspect, Concluded, ResultPhased, dockerVars, c
  <2>2. \E r \in {"oom", "killed"} :
          /\ Goes(j, "remove", r)
          /\ r = "oom" => cause[c] = "oom" \/ (cause[c] = "kill" /\ j \in blind')
          /\ r = "killed" => cause[c] = "kill"
    <3>1. CASE daemon /\ box[c] = "exited"
      BY <1>8, <2>1, <3>1 DEF Inspect, c
    <3>2. CASE ~(daemon /\ box[c] = "exited")
      <4>1. Goes(j, "remove", "oom") /\ blind' = blind \cup {j}
        BY <1>8, <3>2, Zenon DEF Inspect, c
      <4>2. QED
        BY <2>1, <4>1
    <3>3. QED
      BY <3>1, <3>2
  <2>3. PICK r \in {"oom", "killed"} :
          /\ Goes(j, "remove", r)
          /\ r = "oom" => cause[c] = "oom" \/ (cause[c] = "kill" /\ j \in blind')
          /\ r = "killed" => cause[c] = "kill"
    BY <2>2
  <2>4. \A d \in {c} : Truth(j, d, r)'
    BY <2>1, <2>3 DEF Truth
  <2>5. QED
    BY <1>0, <2>1, <2>3, <2>4, GoingConcluded DEF Pc, Result, c
<1>9. CASE Kill(j)
  <2>1. /\ pc[j] = "kill" /\ result[j] \in {"timed_out", "fault"}
        /\ Goes(j, "remove", result[j]) /\ Truth(j, c, result[j])
    BY <1>9 DEF Kill, Concluded, ResultPhased, c
  <2>2. ASSUME NEW d \in Containers, d = c, NEW r \in Result, r = result[j]
        PROVE  Truth(j, d, r)'
    BY <1>c, <2>1, <2>2, TruthLasts DEF c
  <2>3. QED
    BY <1>0, <2>1, <2>2, GoingConcluded DEF Pc, c
<1>10. CASE Remove(j)
  <2>1. /\ pc[j] = "remove" /\ Concludes(j, result[j]) /\ RemoveContainer(c)
        /\ Truth(j, c, result[j]) /\ ~Touches(j)
    BY <1>10, <1>c DEF Remove, Concluded, ResultPhased, c
  <2>2. ASSUME NEW d \in Containers, d = c, NEW r \in Result, r = result[j]
        PROVE  Swept(d)' /\ Truth(j, d, r)'
    <3>1. Swept(d)'
      BY <1>0, <2>1, <2>2, RemovalSweeps
    <3>2. Truth(j, d, r)'
      BY <2>1, <2>2, TruthLasts DEF c
    <3>3. QED
      BY <3>1, <3>2
  <2>3. QED
    BY <1>0, <2>1, <2>2, ConcludingConcluded DEF c
<1>11. CASE Clean(j)
  <2>1. /\ pc[j] = "clean" /\ pc'[j] = "check" /\ output'[j] = None
        /\ UNCHANGED <<attempt, result, verdict>>
    BY <1>0, <1>11 DEF Clean, Typed, TypeOK
  <2>2. AttemptsSwept(j)'
    BY <2>1, SweptOn DEF Concluded, AttemptsSwept
  <2>3. QED
    BY <2>1, <2>2 DEF Concluded, OutputKept, ResultPhased, VerdictGiven
<1>12. QED
  BY <1>1, <1>2, <1>3, <1>4, <1>6, <1>7, <1>8, <1>9, <1>10, <1>11, Zenon DEF JobStep

\* OInv is the inductive invariant.
LEMMA ConcludedInvariant == Spec => []OInv
<1>1. Init => OInv
  <2> SUFFICES ASSUME Init PROVE Retriable /\ \A j \in Jobs : Concluded(j)
    BY InitTyped DEF OInv
  <2>1. Retriable
    BY InitRetriable
  <2>2. ASSUME NEW j \in Jobs PROVE Concluded(j)
    <3>1. AttemptsSwept(j)
      BY DEF Init, AttemptsSwept, Attempts
    <3>2. OutputKept(j) /\ ResultPhased(j) /\ VerdictGiven(j)
      BY DEF Init, OutputKept, ResultPhased, VerdictGiven
    <3>3. QED
      BY <3>1, <3>2 DEF Concluded
  <2>3. QED
    BY <2>1, <2>2
<1>2. OInv /\ [Next]_vars => OInv'
  <2> SUFFICES ASSUME OInv, [Next]_vars, Typed' PROVE OInv'
    BY TypedStep DEF OInv
  <2>1. Retriable'
    BY RetriableStep DEF OInv
  <2>2. ASSUME NEW j \in Jobs PROVE Concluded(j)'
    <3>1. CASE Begin(j) \/ JobStep(j) \/ LaunchFails(j)
      BY <3>1, MovingConcluded DEF OInv
    <3>2. CASE /\ pc'[j] = pc[j] /\ attempt'[j] = attempt[j]
               /\ result'[j] = result[j] /\ verdict'[j] = verdict[j]
      BY <3>2, QuietConcluded DEF OInv
    <3>3. CASE Crash
      <4>1. /\ pc'[j] = IF Live(j) THEN "gone" ELSE pc[j]
            /\ UNCHANGED <<attempt, result, verdict>>
        BY <3>3 DEF Crash, OInv, Typed, TypeOK
      <4>2. CASE Live(j)
        <5>1. AttemptsSwept(j)'
          BY <4>1, <4>2, SweptOn DEF OInv, Concluded, AttemptsSwept
        <5>2. QED
          BY <4>1, <4>2, <5>1
          DEF OInv, Concluded, OutputKept, ResultPhased, VerdictGiven, Live
      <4>3. CASE ~Live(j)
        BY <4>1, <4>3, <3>2
      <4>4. QED
        BY <4>2, <4>3
    <3>4. QED
      BY <3>1, <3>2, <3>3, JobsMoveAlone DEF OInv
  <2>3. QED
    BY <2>1, <2>2 DEF OInv
<1>3. QED
  BY <1>1, <1>2, PTL DEF Spec

-----------------------------------------------------------------------------
(* What an execution leaves behind                                         *)

\* Every way out of an execution removes the containers of all its attempts, except
\* those the daemon refused to remove: a retry starts only behind a removal, and no
\* container comes back after one.
THEOREM ContainersRemoved == Spec => []JobLeavesNothing
<1>1. OInv => JobLeavesNothing
  <2> SUFFICES ASSUME OInv, NEW c \in Containers, pc[c[1]] = "done", c \notin unremoved
               PROVE  box[c] = "absent"
    BY DEF JobLeavesNothing
  <2> DEFINE j == c[1]
             k == c[2]
  <2>1. j \in Jobs /\ k \in Attempts /\ c = <<j, k>> /\ attempt[j] \in Attempts
    BY DEF Containers, OInv, Typed, TypeOK
  <2>2. CASE k < attempt[j]
    BY <2>1, <2>2 DEF OInv, Concluded, AttemptsSwept, Swept
  <2>3. CASE k = attempt[j]
    BY <2>1, <2>3 DEF OInv, Concluded, AttemptsSwept, Swept, Current
  <2>4. CASE k > attempt[j]
    BY <2>1, <2>4 DEF OInv, Retriable, AttemptsOrdered, Fresh
  <2>5. QED
    BY <2>1, <2>2, <2>3, <2>4 DEF Attempts
<1>2. QED
  BY <1>1, ConcludedInvariant, PTL

\* The output a record is completed with is that of its last attempt, or of a
\* container that the daemon refused to remove, although containers go on writing
\* after their docker run is gone.
THEOREM OutputOfLastAttempt == Spec => []OutputIsOwn
<1>1. OInv => OutputIsOwn
  BY DEF OInv, Concluded, OutputKept, OutputIsOwn
<1>2. QED
  BY <1>1, ConcludedInvariant, PTL

\* The verdict of a record agrees with what happened to the last container, for every
\* interleaving of kills, outages, limits and the reaper with docker run and whatever
\* the program writes: a success ran to its end, an end with 0 is no failure of the
\* program, an OOM or a kill was one, and docker is blamed only for what looks like
\* its own failure.
THEOREM VerdictIsTrue == Spec => []RecordMatchesRun
<1>1. OInv => RecordMatchesRun
  <2> SUFFICES ASSUME OInv, NEW j \in Jobs, NEW c, c = Current(j), NEW e, e = cause[c]
               PROVE  /\ verdict[j] = "succeeded" => e = "ok"
                      /\ pc[j] = "done" /\ e = "ok" =>
                           \/ verdict[j] \in {"succeeded", "timeout", "internal_error"}
                           \/ says[c] = "binary" \/ c \in lost
                      /\ verdict[j] = "oom" =>
                           e = "oom" \/ (e = "kill" /\ (j \in blind \/ says[c] = "daemon"))
                      /\ verdict[j] = "killed" => e = "kill"
                      /\ verdict[j] = "service_unavailable" =>
                           \/ e \in {"none", "exit125"} \/ c \in lost
                           \/ e = "error" /\ says[c] = "daemon"
    BY DEF RecordMatchesRun
  <2>1. VerdictGiven(j) /\ ResultPhased(j) /\ result[j] \in Result
    BY DEF OInv, Concluded, Typed, TypeOK
  <2>2. CASE pc[j] = "done" /\ verdict[j] # "none"
    <3>1. Truth(j, c, result[j]) /\ verdict[j] \in {VerdictOf(result[j]), "internal_error"}
      BY <2>1, <2>2 DEF ResultPhased, VerdictGiven
    <3>2. /\ verdict[j] = "succeeded" => result[j] = "ok"
          /\ verdict[j] = "oom" => result[j] \in {"oom", "infra137"}
          /\ verdict[j] = "killed" => result[j] = "killed"
          /\ verdict[j] = "service_unavailable" => result[j] \in {"infra", "refused"}
          /\ verdict[j] \in {"config_error", "code_error"} =>
               result[j] \in {"error", "config", "invalid", "nodocker", "fault", "none",
                              "exit137"}
      BY <2>1, <3>1 DEF VerdictOf, Result
    <3>3. verdict[j] \in Verdict
      BY DEF OInv, Typed, TypeOK
    <3>4. QED
      BY <2>2, <3>1, <3>2, <3>3 DEF Truth, Failed, Unavailable, Unstarted, Verdict
  <2>3. CASE verdict[j] = "none" /\ pc[j] # "done"
    BY <2>3
  <2>4. QED
    BY <2>1, <2>2, <2>3 DEF VerdictGiven
<1>2. QED
  BY <1>1, ConcludedInvariant, PTL
=============================================================================
