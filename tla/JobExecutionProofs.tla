------------------------- MODULE JobExecutionProofs -------------------------
(***************************************************************************)
(* Proofs about JobExecution for every set of jobs, number of attempts,    *)
(* thresholds of the circuit breaker and bounds on faults.                 *)
(***************************************************************************)
EXTENDS JobExecution, TLAPS

-----------------------------------------------------------------------------
(* Types                                                                   *)

\* What the type of unremoved rests on: a retry has an attempt before it to clean up.
RetryCounted == \A j \in Jobs : pc[j] = "clean" => attempt[j] > 0

\* The loop never starts an attempt past the last one, and completes with a
\* verdict of its own.
LEMMA ConcludesTypes ==
  ASSUME TypeOK, RetryCounted, NEW j \in Jobs, NEW r \in Result, Concludes(j, r)
  PROVE  /\ pc' \in [Jobs -> Pc] /\ attempt' \in [Jobs -> Attempts]
         /\ result' \in [Jobs -> Result] /\ verdict' \in [Jobs -> Verdict]
         /\ RetryCounted'
<1>1. VerdictOf(r) \in Verdict
  BY SMT DEF VerdictOf, Verdict, Result
<1>2. result' \in [Jobs -> Result]
  BY DEF Concludes, TypeOK
<1>3. CASE Transient(r) /\ attempt[j] + 1 < MaxAttempts
  <2>1. attempt[j] + 1 \in Attempts /\ attempt[j] + 1 > 0
    BY <1>3, ExecutionAssumption DEF TypeOK, Attempts
  <2>2. QED
    BY <1>2, <1>3, <2>1 DEF Concludes, TypeOK, Pc, RetryCounted
<1>4. CASE ~(Transient(r) /\ attempt[j] + 1 < MaxAttempts)
  <2>1. \E v \in Verdict : verdict' = [verdict EXCEPT ![j] = v]
    BY <1>1, <1>4 DEF Concludes, Completes, Verdict
  <2>2. QED
    BY <1>2, <1>4, <2>1 DEF Concludes, Completes, TypeOK, Pc, RetryCounted
<1>5. QED
  BY <1>3, <1>4

\* A breaker stays a breaker.
LEMMA BreakerTypes ==
  ASSUME NEW b \in Breaker, NEW r \in BOOLEAN
  PROVE  /\ Probed(b, r) \in Breaker /\ RecordSuccess(b) \in Breaker
         /\ RecordFailure(b) \in Breaker /\ NewBreaker \in Breaker
<1>1. Probed(b, r) \in Breaker /\ NewBreaker \in Breaker
  BY DEF Probed, Breaker, NewBreaker
<1>2. RecordSuccess(b) \in Breaker
  BY SMT DEF RecordSuccess, Breaker
<1>3. RecordFailure(b) \in Breaker
  <2> DEFINE n == b.failures + 1
             opens == b.state = "half_open" \/ (b.state = "closed" /\ n >= FailureThreshold)
  <2>1. n \in Nat
    BY DEF Breaker
  <2>2. CASE opens
    <3>1. RecordFailure(b) = [b EXCEPT !.failures = n, !.state = "open"]
      BY <2>2, Zenon DEF RecordFailure
    <3>2. QED
      BY <2>1, <3>1 DEF Breaker
  <2>3. CASE ~opens
    <3>1. RecordFailure(b) = [b EXCEPT !.failures = n, !.state = @]
      BY <2>3, Zenon DEF RecordFailure
    <3>2. QED
      BY <2>1, <3>1 DEF Breaker
  <2>4. QED
    BY <2>2, <2>3
<1>4. QED
  BY <1>1, <1>2, <1>3

\* The part of the type invariant each group of variables has to itself.
BreakerOK ==
  breaker \in Breaker /\ ripe \in BOOLEAN /\ streak \in Nat

JobsOK ==
  /\ pc \in [Jobs -> Pc] /\ attempt \in [Jobs -> Attempts]
  /\ result \in [Jobs -> Result] /\ verdict \in [Jobs -> Verdict]
  /\ output \in [Jobs -> Attempts \cup {None}]
  /\ RetryCounted

DockerOK ==
  /\ box \in [Containers -> {"absent", "created", "running", "exited"}]
  /\ cause \in [Containers -> Cause] /\ says \in [Containers -> Says]
  /\ daemon \in BOOLEAN /\ doomed \subseteq Containers
  /\ outages \in Nat /\ crashes \in Nat
  /\ lost \subseteq Containers /\ unremoved \subseteq Containers /\ blind \subseteq Jobs

\* Every step leaves the breaker, probes it, records an outcome, or is a crash.
BreakerStep ==
  \/ UNCHANGED <<breaker, streak>> /\ ripe' \in BOOLEAN
  \/ breaker' = Probed(breaker, ripe) /\ UNCHANGED <<ripe, streak>>
  \/ RecordsSuccess
  \/ RecordsFailure
  \/ breaker' = NewBreaker /\ ripe' = FALSE /\ streak' = 0

\* No action touches the breaker in any other way.
LEMMA StepOfBreaker ==
  ASSUME TypeOK, [Next]_vars
  PROVE  BreakerStep
<1>1. CASE UNCHANGED vars
  BY <1>1 DEF vars, breakerVars, BreakerStep, TypeOK
<1>2. ASSUME NEW j \in Jobs, Begin(j) \/ JobStep(j) \/ LaunchFails(j) \/ ExternalKill(j)
      PROVE  BreakerStep
  <2>1. CASE Begin(j) \/ ExternalKill(j)
    BY <2>1 DEF Begin, ExternalKill, breakerVars, BreakerStep, TypeOK
  <2>2. CASE Check(j)
    BY <2>2 DEF Check, BreakerStep, TypeOK
  <2>3. CASE Launch(j) \/ StartContainer(j) \/ HostTimeout(j)
    BY <2>3 DEF Launch, StartContainer, HostTimeout, breakerVars, BreakerStep, TypeOK
  <2>4. CASE LaunchRefused(j) \/ RunLost(j)
    BY <2>4 DEF LaunchRefused, RunLost, BreakerStep
  <2>5. CASE LaunchFails(j)
    BY <2>5 DEF LaunchFails, breakerVars, BreakerStep, TypeOK
  <2>6. CASE StartFails(j) \/ Returned(j)
    BY <2>6, Zenon DEF StartFails, Returned, breakerVars, BreakerStep, TypeOK
  <2>7. CASE Inspect(j) \/ Kill(j) \/ Remove(j) \/ Clean(j)
    BY <2>7 DEF Inspect, Kill, Remove, Clean, breakerVars, BreakerStep, TypeOK
  <2>8. QED
    BY <1>2, <2>1, <2>2, <2>3, <2>4, <2>5, <2>6, <2>7 DEF JobStep
<1>3. ASSUME NEW c \in Containers, ContainerEnds(c) \/ SweepRemove(c)
      PROVE  BreakerStep
  BY <1>3 DEF ContainerEnds, SweepRemove, breakerVars, BreakerStep, TypeOK
<1>4. CASE DaemonDown \/ DaemonUp \/ TimePasses \/ Sweep
  BY <1>4 DEF DaemonDown, DaemonUp, TimePasses, Sweep, SweepList, breakerVars,
              BreakerStep, TypeOK
<1>5. CASE HealthCheck \/ Crash
  BY <1>5 DEF HealthCheck, Crash, BreakerStep
<1>6. QED
  BY <1>1, <1>2, <1>3, <1>4, <1>5 DEF Next

\* Every step keeps the types of the breaker and of its history variables.
LEMMA StepTypesBreaker ==
  ASSUME TypeOK, [Next]_vars
  PROVE  BreakerOK'
<1>1. BreakerStep
  BY StepOfBreaker
<1>2. breaker \in Breaker /\ ripe \in BOOLEAN /\ streak \in Nat
  BY DEF TypeOK
<1>3. ripe' \in BOOLEAN /\ streak' \in Nat
  <2>1. ripe' \in BOOLEAN
    BY <1>1, <1>2, Zenon DEF BreakerStep, RecordsSuccess, RecordsFailure
  <2>2. streak' \in {streak, 0, streak + 1}
    BY <1>1, Zenon DEF BreakerStep, RecordsSuccess, RecordsFailure
  <2>3. streak' \in Nat
    BY <1>2, <2>2
  <2>4. QED
    BY <2>1, <2>3
<1>4. breaker' \in Breaker
  <2>1. breaker' \in {breaker, Probed(breaker, ripe), RecordSuccess(breaker),
                      RecordFailure(breaker), NewBreaker}
    BY <1>1, Zenon DEF BreakerStep, RecordsSuccess, RecordsFailure
  <2>2. QED
    BY <1>2, <2>1, BreakerTypes
<1>5. QED
  BY <1>3, <1>4 DEF BreakerOK

\* docker run has returned: what is captured, and where the thread goes with what.
LEMMA ReturnedGoes ==
  ASSUME NEW j \in Jobs, Returned(j)
  PROVE  \E r \in Result : Goes(j, "remove", r) \/ Goes(j, "inspect", r) \/ Goes(j, "kill", r)
<1>1. InfraResult(cause[Current(j)]) \in Result
  BY DEF InfraResult, Result
<1>2. QED
  BY <1>1, Zenon DEF Returned, Result

\* Each action of the thread of a job keeps the types of the jobs' variables.
LEMMA StepTypesJobs ==
  ASSUME TypeOK, RetryCounted, [Next]_vars
  PROVE  JobsOK'
<1> USE DEF JobsOK, RetryCounted
<1>0. JobsOK
  BY DEF TypeOK
<1>1. CASE UNCHANGED vars
  BY <1>0, <1>1 DEF vars, jobVars
<1>2. ASSUME NEW j \in Jobs, NEW p \in Pc \ {"clean"}, NEW r \in Result, Goes(j, p, r)
      PROVE  JobsOK'
  BY <1>0, <1>2 DEF Goes
<1>3. ASSUME NEW j \in Jobs, NEW r \in Result, Concludes(j, r), UNCHANGED output
      PROVE  JobsOK'
  BY <1>0, <1>3, ConcludesTypes
<1>4. ASSUME NEW j \in Jobs, Begin(j) \/ Check(j)
      PROVE  JobsOK'
  <2>1. \/ \E p \in Pc \ {"clean"}, r \in Result : Goes(j, p, r)
        \/ \E r \in Result : Concludes(j, r) /\ UNCHANGED output
    BY <1>4, Zenon DEF Begin, Check, Pc, Result
  <2>2. QED
    BY <2>1, <1>2, <1>3
<1>5. ASSUME NEW j \in Jobs,
             \/ Launch(j) \/ LaunchRefused(j) \/ LaunchFails(j) \/ StartContainer(j)
             \/ StartFails(j) \/ RunLost(j) \/ Returned(j) \/ HostTimeout(j) \/ Inspect(j) \/ Kill(j)
      PROVE  JobsOK'
  <2>1. result[j] \in Result
    BY <1>0
  <2>2. \E p \in Pc \ {"clean"}, r \in Result : Goes(j, p, r)
    <3>1. CASE Kill(j)
      BY <2>1, <3>1, Zenon DEF Kill, Pc
    <3>2. CASE Inspect(j)
      <4>1. \E r \in Result : Goes(j, "remove", r)
        BY <3>2, Zenon DEF Inspect, Result
      <4>2. QED
        BY <4>1, Zenon DEF Pc
    <3>3. CASE Launch(j) \/ LaunchRefused(j) \/ LaunchFails(j) \/ StartContainer(j)
      BY <3>3, Zenon DEF Launch, LaunchRefused, LaunchFails, StartContainer, Pc, Result
    <3>4. CASE StartFails(j) \/ RunLost(j) \/ HostTimeout(j)
      BY <3>4, Zenon DEF StartFails, RunLost, HostTimeout, Pc, Result
    <3>5. CASE Returned(j)
      BY <3>5, ReturnedGoes, Zenon DEF Pc
    <3>6. QED
      BY <1>5, <3>1, <3>2, <3>3, <3>4, <3>5
  <2>3. QED
    BY <2>2, <1>2
<1>6. ASSUME NEW j \in Jobs, Remove(j)
      PROVE  JobsOK'
  <2>1. result[j] \in Result
    BY <1>0
  <2>2. QED
    BY <1>6, <2>1, <1>3 DEF Remove
<1>7. ASSUME NEW j \in Jobs, Clean(j)
      PROVE  JobsOK'
  BY <1>0, <1>7 DEF Clean, Pc
<1>8. ASSUME NEW c \in Containers, ContainerEnds(c)
      PROVE  JobsOK'
  <2>1. c[1] \in Jobs /\ c[2] \in Attempts
    BY DEF Containers
  <2>2. output' = output \/ output' = [output EXCEPT ![c[1]] = c[2]]
    BY <1>8, Zenon DEF ContainerEnds
  <2>3. QED
    BY <1>0, <1>8, <2>1, <2>2 DEF ContainerEnds
<1>9. ASSUME Crash
      PROVE  JobsOK'
  BY <1>0, <1>9 DEF Crash, Pc
<1>10. ASSUME (\/ \E j \in Jobs : ExternalKill(j)
               \/ \E c \in Containers : SweepRemove(c)
               \/ DaemonDown \/ DaemonUp \/ TimePasses \/ HealthCheck \/ Sweep)
       PROVE  JobsOK'
  BY <1>0, <1>10, Zenon DEF ExternalKill, SweepRemove, DaemonDown, DaemonUp, TimePasses,
                     HealthCheck, Sweep, SweepList, jobVars
<1>11. QED
  BY <1>1, <1>4, <1>5, <1>6, <1>7, <1>8, <1>9, <1>10, Zenon DEF Next, JobStep

\* Each action keeps the types of the daemon's, the reaper's and the history
\* variables.
LEMMA StepTypesDocker ==
  ASSUME TypeOK, RetryCounted, [Next]_vars
  PROVE  DockerOK'
<1> USE DEF DockerOK
<1>0. DockerOK
  BY DEF TypeOK
<1>a. ASSUME NEW c \in Containers, RemoveContainer(c), UNCHANGED <<doomed, crashes, lost, blind>>
      PROVE  DockerOK'
  BY <1>0, <1>a DEF RemoveContainer, Dies, Cause
<1>b. ASSUME NEW j \in Jobs PROVE Current(j) \in Containers
  BY DEF TypeOK, Current, Containers
<1>1. CASE UNCHANGED vars
  BY <1>0, <1>1 DEF vars, dockerVars, historyVars
<1>2. ASSUME (\/ \E j \in Jobs : Begin(j) \/ Check(j) \/ LaunchRefused(j) \/ LaunchFails(j)
                                 \/ StartFails(j) \/ RunLost(j) \/ HostTimeout(j)
              \/ TimePasses \/ HealthCheck)
      PROVE  DockerOK'
  <2>1. UNCHANGED <<dockerVars, doomed, crashes, historyVars>>
    BY <1>2, Zenon DEF Begin, Check, LaunchRefused, LaunchFails, StartFails, RunLost,
                       HostTimeout, TimePasses, HealthCheck
  <2>2. QED
    BY <1>0, <2>1 DEF dockerVars, historyVars
<1>3. ASSUME NEW j \in Jobs, Launch(j) \/ StartContainer(j) \/ Inspect(j) \/ Returned(j)
      PROVE  DockerOK'
  <2>1. CASE Launch(j) \/ StartContainer(j) \/ Inspect(j)
    BY <1>0, <1>b, <2>1 DEF Launch, StartContainer, Inspect, dockerVars, historyVars
  <2>2. CASE Returned(j)
    <3>1. /\ \E t \in Says : says' = [says EXCEPT ![Current(j)] = t]
          /\ UNCHANGED <<box, cause, daemon, outages, doomed, crashes, historyVars>>
      BY <2>2, Zenon DEF Returned
    <3>2. QED
      BY <1>0, <1>b, <3>1 DEF historyVars
  <2>3. QED
    BY <1>3, <2>1, <2>2
<1>4. ASSUME NEW j \in Jobs, Kill(j) \/ ExternalKill(j)
      PROVE  DockerOK'
  <2>1. <<j, 0>> \in Containers
    BY ExecutionAssumption DEF Containers, Attempts
  <2>2. QED
    BY <1>0, <1>b, <1>4, <2>1 DEF Kill, ExternalKill, Dies, Cause, historyVars
<1>5. ASSUME NEW j \in Jobs, Remove(j)
      PROVE  DockerOK'
  BY <1>a, <1>b, <1>5 DEF Remove
<1>6. ASSUME NEW j \in Jobs, Clean(j)
      PROVE  DockerOK'
  <2>1. <<j, attempt[j] - 1>> \in Containers
    BY <1>6, ExecutionAssumption DEF Clean, RetryCounted, TypeOK, Attempts, Containers
  <2>2. QED
    BY <1>a, <1>6, <2>1 DEF Clean
<1>7. ASSUME NEW c \in Containers, ContainerEnds(c)
      PROVE  DockerOK'
  BY <1>0, <1>7 DEF ContainerEnds, historyVars
<1>8. ASSUME DaemonDown
      PROVE  DockerOK'
  <2>1. PICK D \in SUBSET {c \in Containers : box[c] = "running"} :
          /\ box' = [c \in Containers |-> IF c \in D THEN "exited" ELSE box[c]]
          /\ cause' = [c \in Containers |-> IF c \in D THEN "kill" ELSE cause[c]]
    BY <1>8, Zenon DEF DaemonDown
  <2>2. box' \in [Containers -> {"absent", "created", "running", "exited"}]
    BY <1>0, <2>1
  <2>3. cause' \in [Containers -> Cause]
    BY <1>0, <2>1 DEF Cause
  <2>4. lost' \subseteq Containers
    BY <1>0, <1>8 DEF DaemonDown
  <2>5. daemon' = FALSE /\ outages' = outages + 1
        /\ UNCHANGED <<says, doomed, crashes, unremoved, blind>>
    BY <1>8, Zenon DEF DaemonDown
  <2>6. outages' \in Nat /\ crashes' \in Nat
    BY <1>0, <2>5
  <2>7. UNCHANGED says /\ UNCHANGED doomed /\ UNCHANGED unremoved /\ UNCHANGED blind
    BY <2>5
  <2>8. QED
    BY <1>0, <2>2, <2>3, <2>4, <2>5, <2>6, <2>7, Zenon
<1>9. ASSUME DaemonUp \/ Sweep
      PROVE  DockerOK'
  BY <1>0, <1>9 DEF DaemonUp, Sweep, SweepList, dockerVars, historyVars
<1>10. ASSUME NEW c \in Containers, SweepRemove(c)
       PROVE  DockerOK'
  BY <1>0, <1>10 DEF SweepRemove, Dies, Cause, historyVars
<1>11. ASSUME Crash
       PROVE  DockerOK'
  BY <1>0, <1>11 DEF Crash, dockerVars
<1>12. QED
  BY <1>1, <1>2, <1>3, <1>4, <1>5, <1>6, <1>7, <1>8, <1>9, <1>10, <1>11, Zenon
     DEF Next, JobStep

\* The inductive invariant behind TypeOK.
Typed == TypeOK /\ RetryCounted

\* The initial state is typed ...
LEMMA InitTyped == Init => Typed
<1>1. ASSUME Init PROVE BreakerOK /\ JobsOK /\ DockerOK
  <2>1. BreakerOK
    BY <1>1, BreakerTypes DEF Init, BreakerOK, NewBreaker, Breaker
  <2>2. JobsOK
    BY <1>1, ExecutionAssumption
    DEF Init, JobsOK, RetryCounted, Pc, Result, Verdict, Attempts
  <2>3. DockerOK
    BY <1>1 DEF Init, DockerOK, Cause, Says
  <2>4. QED
    BY <2>1, <2>2, <2>3
<1>2. QED
  BY <1>1 DEF Typed, TypeOK, BreakerOK, JobsOK, DockerOK

\* ... and every step keeps it so.
LEMMA TypedStep == Typed /\ [Next]_vars => Typed'
<1> SUFFICES ASSUME Typed, [Next]_vars PROVE Typed'
  OBVIOUS
<1>1. BreakerOK' /\ JobsOK' /\ DockerOK'
  BY StepTypesBreaker, StepTypesJobs, StepTypesDocker DEF Typed
<1>2. QED
  BY <1>1 DEF Typed, TypeOK, BreakerOK, JobsOK, DockerOK

\* Typed holds in every reachable state.
LEMMA TypedInvariant == Spec => []Typed
BY InitTyped, TypedStep, PTL DEF Spec

\* Type correctness: in particular the retry loop never runs an attempt past
\* max_retry_attempts, and every verdict is one the code can give.
THEOREM ExecutionTypes == Spec => []TypeOK
<1>1. Typed => TypeOK
  BY DEF Typed
<1>2. QED
  BY <1>1, TypedInvariant, PTL

-----------------------------------------------------------------------------
(* The circuit breaker                                                     *)

\* While the circuit is closed it has counted no more failures than there were in
\* a row; successes counted in the half-open state were the last events.
Counted ==
  /\ breaker.state = "closed" => breaker.failures <= streak
  /\ breaker.state = "half_open" /\ breaker.successes > 0 => streak = 0

\* What each kind of step does to Counted, and to the circuit when Counted holds.
LEMMA CountedStep ==
  ASSUME Typed, Counted, BreakerStep
  PROVE  /\ Counted'
         /\ breaker.state = "closed" /\ breaker'.state = "open"
              => streak' >= FailureThreshold
         /\ breaker.state = "half_open" /\ breaker'.state = "closed"
              /\ breaker' # NewBreaker
              => streak' = 0 /\ (SuccessThreshold > 1 => streak = 0)
<1> USE ThresholdAssumption DEF Counted
<1>0. /\ breaker \in Breaker /\ streak \in Nat
      /\ breaker.failures \in Nat /\ breaker.successes \in Nat
  BY DEF Typed, TypeOK, Breaker
<1>1. CASE UNCHANGED <<breaker, streak>>
  BY <1>0, <1>1
<1>2. CASE breaker' = Probed(breaker, ripe) /\ streak' = streak
  BY <1>0, <1>2 DEF Probed, Breaker
<1>3. CASE RecordsSuccess
  <2>1. breaker' = RecordSuccess(breaker) /\ streak' = 0
    BY <1>3, Zenon DEF RecordsSuccess
  <2>2. QED
    BY <1>0, <2>1 DEF RecordSuccess, Breaker
<1>4. CASE RecordsFailure
  <2>1. breaker' = RecordFailure(breaker) /\ streak' = streak + 1
    BY <1>4, Zenon DEF RecordsFailure
  <2>2. QED
    BY <1>0, <2>1 DEF RecordFailure, Breaker
<1>5. CASE breaker' = NewBreaker /\ streak' = 0
  BY <1>0, <1>5 DEF NewBreaker
<1>6. QED
  BY <1>1, <1>2, <1>3, <1>4, <1>5, Zenon DEF BreakerStep

\* Counted is inductive relative to the types.
LEMMA CountedInvariant == Spec => [](Typed /\ Counted)
<1>1. Init => Counted
  BY DEF Init, NewBreaker, Counted
<1>2. Typed /\ Counted /\ [Next]_vars => Counted'
  BY StepOfBreaker, CountedStep DEF Typed
<1>3. QED
  BY <1>1, <1>2, TypedInvariant, PTL DEF Spec

\* The circuit never opens on fewer failures in a row than configured, whatever
\* the interleaving of the jobs and health polls that report to it, the outcomes
\* that arrive while it is open or half open, and the crashes in between.
THEOREM BreakerOpensLate == Spec => OpensAfterConsecutive
<1>1. Typed /\ Counted /\ [Next]_vars =>
        [breaker.state = "closed" /\ breaker'.state = "open"
           => streak' >= FailureThreshold]_vars
  BY StepOfBreaker, CountedStep DEF Typed
<1>2. QED
  BY <1>1, CountedInvariant, PTL DEF Spec, OpensAfterConsecutive

\* The circuit never closes on successes that were not in a row.
THEOREM BreakerClosesLate == Spec => ClosesAfterConsecutive
<1>1. Typed /\ Counted /\ [Next]_vars =>
        [breaker.state = "half_open" /\ breaker'.state = "closed" /\ breaker' # NewBreaker
           => streak' = 0 /\ (SuccessThreshold > 1 => streak = 0)]_vars
  BY StepOfBreaker, CountedStep DEF Typed
<1>2. QED
  BY <1>1, CountedInvariant, PTL DEF Spec, ClosesAfterConsecutive

-----------------------------------------------------------------------------
(* No code is executed twice                                               *)

\* A container that never existed; one that was never started; one whose end counts
\* as a failure of docker.
Fresh(c)     == box[c] = "absent" /\ cause[c] = "none"
Unstarted(c) == box[c] \in {"absent", "created"} /\ cause[c] = "none"
Blamed(c)    == box[c] # "running" /\ cause[c] # "none" /\ InfraFailure(cause[c], says[c])

\* A process that runs has not ended.
Consistent(c) == box[c] = "running" => cause[c] = "none"

\* What allows the loop another attempt after the one with container c.
Excused(c) == Unstarted(c) \/ Blamed(c) \/ c \in lost

\* The steps of the thread of job j that add to what there is of its container.
Touches(j) == Launch(j) \/ StartContainer(j) \/ Returned(j)

\* Where the thread of job j is decides what there can be under the name of its
\* current attempt; earlier attempts are excused and later ones do not exist.
AttemptsOrdered ==
  \A j \in Jobs, k \in Attempts :
    /\ k > attempt[j] => Fresh(<<j, k>>)
    /\ k < attempt[j] => Excused(<<j, k>>)

AttemptPhased(j) ==
  /\ pc[j] \in {"idle", "check", "launch", "clean"} => Fresh(Current(j))
  /\ pc[j] = "start" => Unstarted(Current(j))
  /\ pc[j] = "remove" /\ Transient(result[j]) => Excused(Current(j))
  /\ pc[j] = "kill" => ~Transient(result[j])

Retriable ==
  /\ AttemptsOrdered
  /\ \A j \in Jobs : AttemptPhased(j)
  /\ \A c \in Containers : Consistent(c)

\* What a step that does not touch container c preserves about it.
Stable(c) ==
  /\ Fresh(c) => Fresh(c)'
  /\ Unstarted(c) => Unstarted(c)'
  /\ Blamed(c) => Blamed(c)'
  /\ Consistent(c) => Consistent(c)'
  /\ c \in lost => c \in lost'
  /\ says'[c] = says[c]

\* Containers change without their docker run only for good.
LEMMA ContainersDecay ==
  ASSUME Typed, [Next]_vars, NEW c \in Containers,
         \A j \in Jobs : Touches(j) => c # Current(j)
  PROVE  Stable(c)
<1> USE DEF Stable, Fresh, Unstarted, Blamed, Consistent
<1>0. /\ box \in [Containers -> {"absent", "created", "running", "exited"}]
      /\ cause \in [Containers -> Cause] /\ says \in [Containers -> Says]
  BY DEF Typed, TypeOK
<1>a. ASSUME NEW d \in Containers, RemoveContainer(d), UNCHANGED lost
      PROVE  Stable(c)
  BY <1>0, <1>a DEF RemoveContainer, Dies
<1>b. ASSUME NEW j \in Jobs PROVE Current(j) \in Containers
  BY DEF Typed, TypeOK, Current, Containers
<1>1. CASE UNCHANGED vars
  BY <1>1 DEF vars, dockerVars, historyVars
<1>2. ASSUME (\/ \E j \in Jobs : Begin(j) \/ Check(j) \/ LaunchRefused(j) \/ LaunchFails(j)
                                 \/ StartFails(j) \/ RunLost(j) \/ HostTimeout(j)
              \/ TimePasses \/ HealthCheck)
      PROVE  Stable(c)
  <2>1. UNCHANGED <<dockerVars, historyVars>>
    BY <1>2, Zenon DEF Begin, Check, LaunchRefused, LaunchFails, StartFails, RunLost,
                       HostTimeout, TimePasses, HealthCheck
  <2>2. QED
    BY <2>1 DEF dockerVars, historyVars
<1>3. ASSUME NEW j \in Jobs, Touches(j)
      PROVE  Stable(c)
  <2>1. c # Current(j)
    BY <1>3
  <2>2. CASE Launch(j) \/ StartContainer(j)
    BY <1>0, <1>b, <2>1, <2>2 DEF Launch, StartContainer, historyVars
  <2>3. CASE Returned(j)
    <3>1. /\ \E t \in Says : says' = [says EXCEPT ![Current(j)] = t]
          /\ UNCHANGED <<box, cause, daemon, outages, doomed, crashes, historyVars>>
      BY <2>3, Zenon DEF Returned
    <3>2. says'[c] = says[c]
      BY <1>0, <1>b, <2>1, <3>1
    <3>3. QED
      BY <3>1, <3>2 DEF historyVars
  <2>4. QED
    BY <1>3, <2>2, <2>3 DEF Touches
<1>4. ASSUME NEW j \in Jobs, Inspect(j)
      PROVE  Stable(c)
  BY <1>4 DEF Inspect, dockerVars
<1>5. ASSUME NEW j \in Jobs, Kill(j) \/ ExternalKill(j)
      PROVE  Stable(c)
  BY <1>0, <1>b, <1>5 DEF Kill, ExternalKill, Dies, historyVars
<1>6. ASSUME NEW j \in Jobs, Remove(j) \/ Clean(j)
      PROVE  Stable(c)
  <2>1. UNCHANGED lost /\ \E d \in Containers : RemoveContainer(d)
    <3>1. CASE Remove(j)
      BY <1>b, <3>1 DEF Remove
    <3>2. CASE Clean(j)
      <4>1. <<j, attempt[j] - 1>> \in Containers
        BY <3>2, ExecutionAssumption
        DEF Clean, Typed, RetryCounted, TypeOK, Attempts, Containers
      <4>2. QED
        BY <3>2, <4>1 DEF Clean
    <3>3. QED
      BY <1>6, <3>1, <3>2
  <2>2. QED
    BY <1>a, <2>1
<1>7. ASSUME NEW d \in Containers, ContainerEnds(d) \/ SweepRemove(d)
      PROVE  Stable(c)
  BY <1>0, <1>7 DEF ContainerEnds, SweepRemove, Dies, historyVars
<1>8. ASSUME DaemonDown
      PROVE  Stable(c)
  <2>1. PICK D \in SUBSET {d \in Containers : box[d] = "running"} :
          /\ box' = [d \in Containers |-> IF d \in D THEN "exited" ELSE box[d]]
          /\ cause' = [d \in Containers |-> IF d \in D THEN "kill" ELSE cause[d]]
    BY <1>8, Zenon DEF DaemonDown
  <2>2. lost \subseteq lost' /\ says' = says
    BY <1>8 DEF DaemonDown
  <2>3. QED
    BY <1>0, <2>1, <2>2
<1>9. ASSUME DaemonUp \/ Sweep
      PROVE  Stable(c)
  BY <1>9 DEF DaemonUp, Sweep, SweepList, dockerVars, historyVars
<1>10. ASSUME Crash
       PROVE  Stable(c)
  BY <1>10 DEF Crash, dockerVars
<1>11. QED
  BY <1>1, <1>2, <1>3, <1>4, <1>5, <1>6, <1>7, <1>8, <1>9, <1>10, Zenon
     DEF Next, JobStep, Touches

\* Only a job itself touches one of its containers, and only the one of its current
\* attempt.
LEMMA OwnContainers ==
  ASSUME Typed, [Next]_vars, NEW j \in Jobs, NEW k \in Attempts,
         k # attempt[j] \/ ~Touches(j)
  PROVE  Stable(<<j, k>>)
<1>1. <<j, k>> \in Containers
  BY DEF Containers
<1>2. \A i \in Jobs : Touches(i) => <<j, k>> # Current(i)
  BY DEF Current
<1>3. QED
  BY <1>1, <1>2, ContainersDecay

\* The order of the attempts of a job in the next state, when it stays at its
\* attempt.
LEMMA SameAttempt ==
  ASSUME Typed, Retriable, [Next]_vars, NEW j \in Jobs, attempt'[j] = attempt[j],
         NEW k \in Attempts
  PROVE  /\ k > attempt'[j] => Fresh(<<j, k>>)'
         /\ k < attempt'[j] => Excused(<<j, k>>)'
<1>1. CASE k = attempt[j]
  BY <1>1 DEF Typed, TypeOK, Attempts
<1>2. CASE k # attempt[j]
  <2>1. Stable(<<j, k>>)
    BY <1>2, OwnContainers
  <2>2. /\ k > attempt[j] => Fresh(<<j, k>>)
        /\ k < attempt[j] => Excused(<<j, k>>)
    BY DEF Retriable, AttemptsOrdered
  <2>3. QED
    BY <2>1, <2>2 DEF Stable, Excused
<1>3. QED
  BY <1>1, <1>2

\* ... and when the loop goes on to the next one.
LEMMA NextAttempt ==
  ASSUME Typed, Retriable, [Next]_vars, NEW j \in Jobs, attempt'[j] = attempt[j] + 1,
         Excused(Current(j)), ~Touches(j), NEW k \in Attempts
  PROVE  /\ k > attempt[j] => Fresh(<<j, k>>)'
         /\ k < attempt'[j] => Excused(<<j, k>>)'
<1>0. attempt[j] \in Attempts /\ attempt[j] \in Nat /\ k \in Nat
  BY ExecutionAssumption DEF Typed, TypeOK, Attempts
<1>1. Stable(<<j, k>>)
  BY OwnContainers
<1>2. /\ k > attempt[j] => Fresh(<<j, k>>)
      /\ k < attempt[j] => Excused(<<j, k>>)
      /\ k = attempt[j] => Excused(<<j, k>>)
  BY DEF Retriable, AttemptsOrdered, Current
<1>3. k < attempt'[j] => k < attempt[j] \/ k = attempt[j]
  BY <1>0
<1>4. QED
  BY <1>1, <1>2, <1>3 DEF Stable, Excused

\* A job in the next state, with respect to Retriable.
JobRetriable(j) ==
  /\ \A k \in Attempts : /\ k > attempt[j] => Fresh(<<j, k>>)
                         /\ k < attempt[j] => Excused(<<j, k>>)
  /\ AttemptPhased(j)

\* A job that does not take part in a step.
LEMMA QuietJob ==
  ASSUME Typed, Retriable, [Next]_vars, NEW j \in Jobs,
         pc'[j] = pc[j], attempt'[j] = attempt[j], result'[j] = result[j]
  PROVE  JobRetriable(j)'
<1>1. ~Touches(j)
  <2>1. ~(Launch(j) \/ StartContainer(j))
    BY DEF Launch, StartContainer, Goes, Typed, TypeOK
  <2>2. Returned(j) => pc[j] = "wait" /\ pc'[j] \in {"remove", "inspect", "kill"}
    BY ReturnedGoes DEF Returned, Goes, Typed, TypeOK
  <2>3. QED
    BY <2>1, <2>2 DEF Touches
<1>2. attempt[j] \in Attempts
  BY DEF Typed, TypeOK
<1>3. Stable(Current(j)) /\ Current(j)' = Current(j)
  BY <1>1, <1>2, OwnContainers DEF Current
<1>4. AttemptPhased(j)
  BY DEF Retriable
<1>5. AttemptPhased(j)'
  BY <1>3, <1>4 DEF AttemptPhased, Stable, Excused, Transient
<1>6. QED
  BY <1>5, SameAttempt DEF JobRetriable

\* A job whose attempt has returned: another attempt only after an excused one.
LEMMA ConcludingJob ==
  ASSUME Typed, Retriable, [Next]_vars, NEW j \in Jobs, NEW r \in Result, Concludes(j, r),
         ~Touches(j), Transient(r) => Excused(Current(j))
  PROVE  JobRetriable(j)'
<1>0. /\ pc \in [Jobs -> Pc] /\ attempt \in [Jobs -> Attempts]
      /\ attempt[j] \in Nat /\ MaxAttempts \in Nat
  BY ExecutionAssumption DEF Typed, TypeOK, Attempts
<1>1. CASE Transient(r) /\ attempt[j] + 1 < MaxAttempts
  <2>1. pc'[j] = "clean" /\ attempt'[j] = attempt[j] + 1
    BY <1>0, <1>1 DEF Concludes
  <2>2. attempt[j] + 1 \in Attempts
    BY <1>0, <1>1 DEF Attempts
  <2>3. \A k \in Attempts : /\ k > attempt[j] => Fresh(<<j, k>>)'
                            /\ k < attempt'[j] => Excused(<<j, k>>)'
    BY <1>1, <2>1, NextAttempt
  <2>4. attempt'[j] \in Attempts /\ attempt'[j] > attempt[j]
    BY <1>0, <2>1, <2>2
  <2>5. AttemptPhased(j)'
    <3>1. Fresh(Current(j))'
      BY <2>3, <2>4 DEF Current, Fresh
    <3>2. QED
      BY <2>1, <3>1 DEF AttemptPhased
  <2>6. \A k \in Attempts : k > attempt'[j] => k > attempt[j]
    BY <1>0, <2>1 DEF Attempts
  <2>7. QED
    BY <2>3, <2>5, <2>6 DEF JobRetriable
<1>2. CASE ~(Transient(r) /\ attempt[j] + 1 < MaxAttempts)
  <2>1. pc'[j] = "done" /\ attempt'[j] = attempt[j]
    BY <1>0, <1>2 DEF Concludes, Completes
  <2>2. AttemptPhased(j)'
    BY <2>1 DEF AttemptPhased
  <2>3. QED
    BY <2>1, <2>2, SameAttempt DEF JobRetriable
<1>3. QED
  BY <1>1, <1>2

\* A job that stays at its attempt, when the phase it gets to is justified.
LEMMA GoingJob ==
  ASSUME Typed, Retriable, [Next]_vars, NEW j \in Jobs, NEW p \in Pc, NEW r \in Result,
         Goes(j, p, r),
         p \in {"check", "launch"} => Fresh(Current(j))',
         p = "start" => Unstarted(Current(j))',
         p = "remove" /\ Transient(r) => Excused(Current(j))',
         p \in {"check", "launch", "start", "wait", "inspect", "kill", "remove"},
         p = "kill" => ~Transient(r)
  PROVE  JobRetriable(j)'
<1>1. pc'[j] = p /\ result'[j] = r /\ attempt'[j] = attempt[j]
  BY DEF Goes, Typed, TypeOK
<1>2. Transient(result[j])' = Transient(r)
  BY <1>1 DEF Transient
<1>3. AttemptPhased(j)'
  BY <1>1, <1>2 DEF AttemptPhased
<1>4. QED
  BY <1>1, <1>3, SameAttempt DEF JobRetriable

\* What the current attempt of a job keeps unless the job creates or starts it.
LEMMA CurrentStable ==
  ASSUME Typed, [Next]_vars, NEW j \in Jobs, ~Touches(j),
         attempt'[j] = attempt[j]
  PROVE  /\ Fresh(Current(j)) => Fresh(Current(j))'
         /\ Excused(Current(j)) => Excused(Current(j))'
<1>1. attempt[j] \in Attempts /\ Current(j)' = Current(j)
  BY DEF Typed, TypeOK, Current
<1>2. Stable(Current(j))
  BY <1>1, OwnContainers DEF Current
<1>3. QED
  BY <1>1, <1>2 DEF Stable, Excused

\* The job that takes a step.
LEMMA MovingJob ==
  ASSUME Typed, Retriable, [Next]_vars, NEW j \in Jobs,
         Begin(j) \/ JobStep(j) \/ LaunchFails(j)
  PROVE  JobRetriable(j)'
<1>0. /\ pc \in [Jobs -> Pc] /\ attempt[j] \in Attempts /\ result[j] \in Result
      /\ Current(j) \in Containers /\ AttemptPhased(j) /\ Consistent(Current(j))
      /\ box \in [Containers -> {"absent", "created", "running", "exited"}]
  BY DEF Typed, TypeOK, Retriable, Current, Containers
<1>a. ASSUME NEW p \in Pc, NEW r \in Result, Goes(j, p, r)
      PROVE  attempt'[j] = attempt[j] /\ Current(j)' = Current(j)
  BY <1>a DEF Goes, Current
<1>b. pc[j] \notin {"launch", "start", "wait"} => ~Touches(j)
  BY DEF Touches, Launch, StartContainer, Returned
<1>1. CASE Begin(j)
  <2>1. Fresh(Current(j)) /\ ~Touches(j)
    BY <1>0, <1>1, <1>b DEF Begin, AttemptPhased
  <2>2. CASE Goes(j, "check", "none")
    BY <1>a, <2>1, <2>2, CurrentStable, GoingJob DEF Pc, Result
  <2>3. CASE \E r \in {"config", "raised"} : Concludes(j, r)
    BY <2>1, <2>3, ConcludingJob DEF Excused, Fresh, Unstarted, Result
  <2>4. QED
    BY <1>1, <2>2, <2>3, Zenon DEF Begin
<1>2. CASE Check(j)
  <2>1. Fresh(Current(j)) /\ ~Touches(j)
    BY <1>0, <1>2, <1>b DEF Check, AttemptPhased
  <2>2. CASE Goes(j, "launch", "none")
    BY <1>a, <2>1, <2>2, CurrentStable, GoingJob DEF Pc, Result
  <2>3. CASE \E r \in {"refused", "config", "invalid", "strained", "raised"} : Concludes(j, r)
    BY <2>1, <2>3, ConcludingJob DEF Excused, Fresh, Unstarted, Result
  <2>4. QED
    BY <1>2, <2>2, <2>3, Zenon DEF Check
<1>3. CASE Launch(j)
  <2>1. Fresh(Current(j)) /\ Goes(j, "start", "none")
    BY <1>0, <1>3 DEF Launch, AttemptPhased
  <2>2. Current(j)' = Current(j)
    BY <1>a, <2>1 DEF Pc, Result
  <2>3. Unstarted(Current(j))'
    BY <1>0, <1>3, <2>1, <2>2 DEF Launch, Fresh, Unstarted
  <2>4. QED
    BY <2>1, <2>3, GoingJob DEF Pc, Result
<1>4. CASE LaunchRefused(j) \/ StartFails(j)
  <2>1. /\ Goes(j, "remove", "infra") \/ Goes(j, "remove", "error")
        /\ Unstarted(Current(j)) /\ UNCHANGED <<dockerVars, historyVars>>
    BY <1>0, <1>4, Zenon DEF LaunchRefused, StartFails, AttemptPhased, Fresh, Unstarted
  <2>2. Excused(Current(j))'
    BY <1>a, <2>1 DEF Excused, Unstarted, dockerVars, historyVars, Pc, Result
  <2>3. QED
    BY <2>1, <2>2, GoingJob DEF Pc, Result
<1>5. CASE LaunchFails(j)
  <2>1. Goes(j, "remove", "nodocker") \/ Goes(j, "kill", "fault")
    BY <1>5, Zenon DEF LaunchFails
  <2>2. QED
    BY <2>1, GoingJob DEF Pc, Result, Transient
<1>6. CASE StartContainer(j) \/ HostTimeout(j)
  <2>1. Goes(j, "wait", "none") \/ Goes(j, "kill", "timed_out")
    BY <1>6, Zenon DEF StartContainer, HostTimeout
  <2>2. QED
    BY <2>1, GoingJob DEF Pc, Result, Transient
<1>7. CASE RunLost(j)
  <2>1. Goes(j, "remove", "infra") /\ UNCHANGED <<dockerVars, historyVars>>
    BY <1>7, Zenon DEF RunLost
  <2>2. Unstarted(Current(j)) \/ Current(j) \in lost
    BY <1>0, <1>7 DEF RunLost, AttemptPhased
  <2>3. Excused(Current(j))'
    BY <1>a, <2>1, <2>2 DEF Excused, Unstarted, dockerVars, historyVars, Pc, Result
  <2>4. QED
    BY <2>1, <2>3, GoingJob DEF Pc, Result
<1>8. CASE Returned(j)
  <2>1. PICK t \in Says : LET e == cause[Current(j)] IN
          /\ says' = [says EXCEPT ![Current(j)] = t]
          /\ \/ \E r \in Result : Goes(j, "remove", r) /\ InfraFailure(e, t)
             \/ \E r \in {"ok", "error", "exit124"} : Goes(j, "remove", r)
             \/ Goes(j, "inspect", "exit137") \/ Goes(j, "kill", "fault")
    <3>1. InfraResult(cause[Current(j)]) \in Result
      BY DEF InfraResult, Result
    <3>2. QED
      BY <1>8, <3>1, Zenon DEF Returned
  <2>2. CASE \E r \in Result : Goes(j, "remove", r) /\ InfraFailure(cause[Current(j)], t)
    <3>1. Current(j)' = Current(j) /\ cause' = cause /\ box' = box
      BY <1>8, <1>a, <2>2 DEF Returned, Pc
    <3>2. says'[Current(j)] = t
      BY <1>0, <2>1 DEF Typed, TypeOK
    <3>3. cause[Current(j)] # "none" /\ box[Current(j)] # "running"
      BY <1>0, <1>8 DEF Returned, Consistent
    <3>4. Blamed(Current(j))'
      BY <2>2, <3>1, <3>2, <3>3 DEF Blamed, InfraFailure
    <3>5. QED
      BY <2>2, <3>4, GoingJob DEF Pc, Excused
  <2>3. CASE \/ \E r \in {"ok", "error", "exit124"} : Goes(j, "remove", r)
             \/ Goes(j, "inspect", "exit137") \/ Goes(j, "kill", "fault")
    BY <2>3, GoingJob DEF Pc, Result, Transient
  <2>4. QED
    BY <2>1, <2>2, <2>3, Zenon
<1>9. CASE Inspect(j)
  <2>1. \E r \in {"oom", "killed"} : Goes(j, "remove", r)
    BY <1>9, Zenon DEF Inspect
  <2>2. QED
    BY <2>1, GoingJob DEF Pc, Result, Transient
<1>10. CASE Kill(j)
  <2>1. Goes(j, "remove", result[j]) /\ ~Transient(result[j])
    BY <1>0, <1>10 DEF Kill, AttemptPhased
  <2>2. QED
    BY <1>0, <2>1, GoingJob DEF Pc
<1>11. CASE Remove(j)
  <2>1. /\ Transient(result[j]) => Excused(Current(j))
        /\ ~Touches(j) /\ Concludes(j, result[j])
    BY <1>0, <1>11, <1>b DEF Remove, AttemptPhased
  <2>2. QED
    BY <1>0, <2>1, ConcludingJob
<1>12. CASE Clean(j)
  <2>1. /\ Fresh(Current(j)) /\ ~Touches(j)
        /\ pc'[j] = "check" /\ attempt' = attempt
    BY <1>0, <1>12, <1>b DEF Clean, AttemptPhased
  <2>2. AttemptPhased(j)'
    BY <2>1, CurrentStable DEF AttemptPhased
  <2>3. QED
    BY <2>1, <2>2, SameAttempt DEF JobRetriable
<1>13. QED
  BY <1>1, <1>2, <1>3, <1>4, <1>5, <1>6, <1>7, <1>8, <1>9, <1>10, <1>11, <1>12, Zenon
     DEF JobStep

\* Jobs take turns: a job takes a step itself, or dies with the server, or stays
\* where it is.
LEMMA JobsMoveAlone ==
  ASSUME Typed, [Next]_vars, NEW i \in Jobs
  PROVE  \/ Begin(i) \/ JobStep(i) \/ LaunchFails(i)
         \/ Crash
         \/ /\ pc'[i] = pc[i] /\ attempt'[i] = attempt[i]
            /\ result'[i] = result[i] /\ verdict'[i] = verdict[i]
<1> DEFINE Still == /\ pc'[i] = pc[i] /\ attempt'[i] = attempt[i]
                    /\ result'[i] = result[i] /\ verdict'[i] = verdict[i]
<1>1. ASSUME NEW j \in Jobs, j # i, Begin(j) \/ JobStep(j) \/ LaunchFails(j)
      PROVE  Still
  <2>1. \/ \E p \in Pc, r \in Result : Goes(j, p, r)
        \/ \E r \in Result : Concludes(j, r)
        \/ Clean(j)
    <3>1. result[j] \in Result
      BY DEF Typed, TypeOK
    <3>2. CASE Begin(j) \/ Check(j)
      BY <3>2, Zenon DEF Begin, Check, Pc, Result
    <3>3. CASE Launch(j) \/ LaunchRefused(j) \/ LaunchFails(j) \/ StartContainer(j)
      BY <3>3, Zenon DEF Launch, LaunchRefused, LaunchFails, StartContainer, Pc, Result
    <3>4. CASE StartFails(j) \/ RunLost(j) \/ HostTimeout(j)
      BY <3>4, Zenon DEF StartFails, RunLost, HostTimeout, Pc, Result
    <3>8. CASE Returned(j)
      BY <3>8, ReturnedGoes, Zenon DEF Pc
    <3>5. CASE Inspect(j)
      <4>1. \E r \in Result : Goes(j, "remove", r)
        BY <3>5, Zenon DEF Inspect, Result
      <4>2. QED
        BY <4>1, Zenon DEF Pc
    <3>6. CASE Kill(j) \/ Remove(j)
      BY <3>1, <3>6, Zenon DEF Kill, Remove, Pc
    <3>7. QED
      BY <1>1, <3>2, <3>3, <3>4, <3>5, <3>6, <3>8, Zenon DEF JobStep
  <2>2. CASE \E p \in Pc, r \in Result : Goes(j, p, r)
    BY <1>1, <2>2 DEF Goes, Typed, TypeOK
  <2>3. CASE \E r \in Result : Concludes(j, r)
    BY <1>1, <2>3 DEF Concludes, Completes, Typed, TypeOK
  <2>4. CASE Clean(j)
    BY <1>1, <2>4 DEF Clean, Typed, TypeOK
  <2>5. QED
    BY <2>1, <2>2, <2>3, <2>4
<1>2. CASE \/ UNCHANGED vars
           \/ \E j \in Jobs : ExternalKill(j)
           \/ \E c \in Containers : ContainerEnds(c) \/ SweepRemove(c)
           \/ DaemonDown \/ DaemonUp \/ TimePasses \/ HealthCheck \/ Sweep
  <2>1. pc' = pc /\ attempt' = attempt /\ result' = result /\ verdict' = verdict
    BY <1>2, Zenon DEF vars, jobVars, ExternalKill, ContainerEnds, SweepRemove, DaemonDown,
                       DaemonUp, TimePasses, HealthCheck, Sweep, SweepList
  <2>2. QED
    BY <2>1
<1>3. QED
  BY <1>1, <1>2, Zenon DEF Next

\* Retriable is inductive relative to the types.
LEMMA RetriableStep ==
  ASSUME Typed, Retriable, [Next]_vars
  PROVE  Retriable'
<1>1. ASSUME NEW i \in Jobs PROVE JobRetriable(i)'
  <2>1. CASE Begin(i) \/ JobStep(i) \/ LaunchFails(i)
    BY <2>1, MovingJob
  <2>2. CASE pc'[i] = pc[i] /\ attempt'[i] = attempt[i] /\ result'[i] = result[i]
    BY <2>2, QuietJob
  <2>3. CASE Crash
    <3>1. pc'[i] \in {pc[i], "gone"} /\ attempt'[i] = attempt[i] /\ result'[i] = result[i]
      BY <2>3 DEF Crash, Typed, TypeOK
    <3>2. CASE pc'[i] = "gone"
      BY <3>1, <3>2, SameAttempt DEF JobRetriable, AttemptPhased
    <3>3. QED
      BY <3>1, <3>2, <2>2
  <2>4. QED
    BY <2>1, <2>2, <2>3, JobsMoveAlone
<1>2. ASSUME NEW c \in Containers PROVE Consistent(c)'
  <2>1. /\ cause \in [Containers -> Cause] /\ Consistent(c)
        /\ box \in [Containers -> {"absent", "created", "running", "exited"}]
    BY DEF Typed, TypeOK, Retriable
  <2>2. CASE \E j \in Jobs : Touches(j) /\ c = Current(j)
    <3>1. PICK j \in Jobs : Touches(j) /\ c = Current(j)
      BY <2>2
    <3>2. AttemptPhased(j)
      BY DEF Retriable
    <3>3. CASE Launch(j) \/ StartContainer(j)
      <4>1. Unstarted(c) /\ cause' = cause
        BY <3>1, <3>2, <3>3 DEF AttemptPhased, Launch, StartContainer, Fresh, Unstarted
      <4>2. QED
        BY <4>1 DEF Unstarted, Consistent
    <3>4. CASE Returned(j)
      BY <2>1, <3>4 DEF Returned, Consistent
    <3>5. QED
      BY <3>1, <3>3, <3>4 DEF Touches
  <2>3. CASE ~\E j \in Jobs : Touches(j) /\ c = Current(j)
    BY <2>1, <2>3, ContainersDecay DEF Stable
  <2>4. QED
    BY <2>2, <2>3
<1>3. QED
  BY <1>1, <1>2 DEF Retriable, AttemptsOrdered, JobRetriable

\* No job has begun, no container exists.
LEMMA InitRetriable == Init => Retriable
<1>1. ASSUME Init, NEW j \in Jobs, NEW k \in Attempts
      PROVE  Fresh(<<j, k>>) /\ ~(k < attempt[j])
  BY <1>1 DEF Init, Fresh, Containers, Attempts
<1>2. ASSUME Init, NEW j \in Jobs
      PROVE  AttemptPhased(j)
  <2>1. attempt[j] \in Attempts /\ pc[j] = "idle"
    BY <1>2, ExecutionAssumption DEF Init, Attempts
  <2>2. QED
    BY <1>1, <1>2, <2>1 DEF AttemptPhased, Current
<1>3. ASSUME Init, NEW c \in Containers
      PROVE  Consistent(c)
  BY <1>3 DEF Init, Consistent
<1>4. QED
  BY <1>1, <1>2, <1>3 DEF Retriable, AttemptsOrdered

\* Once docker run could report how the container of an attempt ended, no later
\* attempt gets a container: the loop tries again only what was not started, what docker
\* lost, and what ended the way docker's own failures look: with 125, or non-zero after
\* it had named the daemon on stderr.
THEOREM ExecutedOnce == Spec => []NoReexecution
<1>1. Init => Retriable
  BY InitRetriable
<1>2. Typed /\ Retriable /\ [Next]_vars => Retriable'
  BY RetriableStep
<1>3. Typed /\ Retriable => NoReexecution
  <2> SUFFICES ASSUME Typed, Retriable, NEW c \in Containers, NEW d \in Containers,
                      c[1] = d[1], c[2] < d[2], Reported(c), cause[c] # "exit125",
                      says[c] = "daemon" => cause[c] = "ok"
               PROVE  ~Started(d)
    BY DEF NoReexecution
  <2> DEFINE j == c[1]
  <2>1. /\ j \in Jobs /\ c[2] \in Attempts /\ d[2] \in Attempts
        /\ c = <<j, c[2]>> /\ d = <<j, d[2]>>
    BY DEF Containers
  <2>2. ~Excused(c)
    BY DEF Excused, Unstarted, Blamed, InfraFailure, Reported
  <2>3. ~(c[2] < attempt[j])
    BY <2>1, <2>2 DEF Retriable, AttemptsOrdered
  <2>4. d[2] > attempt[j]
    BY <2>1, <2>3 DEF Typed, TypeOK, Attempts
  <2>5. Fresh(d)
    BY <2>1, <2>4 DEF Retriable, AttemptsOrdered
  <2>6. QED
    BY <2>5 DEF Fresh, Started
<1>4. QED
  BY <1>1, <1>2, <1>3, TypedInvariant, PTL DEF Spec
=============================================================================
