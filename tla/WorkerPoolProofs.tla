-------------------------- MODULE WorkerPoolProofs --------------------------
(***************************************************************************)
(* Theorems about WorkerPool for any number of jobs, workers and cancel    *)
(* requests, any queue bound, and any number of faults and restarts.       *)
(*                                                                         *)
(* The argument: a row is created before its job can be reached from the   *)
(* queue, a worker, cancel() or stop() (Recorded, Owned), so every later   *)
(* write updates an existing row; a terminal row stays as it is, so the    *)
(* flag "my write has committed" a coroutine holds keeps meaning that the  *)
(* row is terminal (Durable) until it resolves the future.                 *)
(***************************************************************************)
EXTENDS WorkerPool, TLAPS

\* The row of a job exists exactly from the commit in submit() on.
Recorded ==
  \A j \in Jobs : /\ submit[j] \in {"none", "saving"} => rec[j] = "absent"
                  /\ submit[j] \in {"put", "full", "accepted"} => rec[j] # "absent"

Accepted(j) == j \in Jobs /\ submit[j] = "accepted"

\* Whatever refers to a job refers to one that submit() put into the queue.
Owned ==
  /\ \A i \in 1..Len(queue) : Accepted(queue[i])
  /\ \A w \in Workers : wpc[w] \notin {"get", "exited"} => Accepted(wjob[w])
  /\ \A c \in Cancellers : cpc[c] \notin {"idle", "done"} => Accepted(cjob[c])
  /\ stopPc = "drainSave" => Accepted(stopJob)

\* A coroutine whose save has committed refers to a terminal row, and so does
\* every finished future.
Durable ==
  /\ \A w \in Workers : wdone[w] => rec[wjob[w]] \in Terminal
  /\ \A w \in Workers : wpc[w] = "dlq" => wdone[w]
  /\ \A w \in Workers : wpc[w] \in {"get", "exited"} => ~wdone[w]
  /\ \A c \in Cancellers : cpc[c] = "saved" => rec[cjob[c]] \in Terminal
  /\ ResultIsDurable

\* No worker coroutine survives its process.
Down == ~up => \A w \in Workers : wpc[w] = "exited"

IInv == TypeOK /\ Recorded /\ Owned /\ Durable /\ Down

-----------------------------------------------------------------------------
(* The queue                                                               *)

\* Taking the head of a non-empty queue yields an element and leaves the rest.
LEMMA HeadTail ==
  ASSUME NEW S, NEW q \in Seq(S), q # <<>>
  PROVE  /\ Head(q) \in S /\ Head(q) = q[1]
         /\ Len(q) \in Nat /\ 1 \in 1..Len(q)
         /\ Tail(q) \in Seq(S)
         /\ \A i \in 1..Len(Tail(q)) : i + 1 \in 1..Len(q) /\ Tail(q)[i] = q[i + 1]
  OBVIOUS

\* Appending to a queue keeps what is in it.
LEMMA AppendKeeps ==
  ASSUME NEW S, NEW q \in Seq(S), NEW e \in S
  PROVE  /\ Append(q, e) \in Seq(S)
         /\ \A i \in 1..Len(Append(q, e)) :
              Append(q, e)[i] = e \/ (i \in 1..Len(q) /\ Append(q, e)[i] = q[i])
  OBVIOUS

\* Whatever record the executor returns is saved with a final status.
LEMMA OutcomeIsTerminal ==
  ASSUME NEW o \in Outcome \ {"raised"}
  PROVE  OutcomeStatus(o) \in Terminal
  BY DEF Outcome, OutcomeStatus, Terminal

-----------------------------------------------------------------------------
(* Every action preserves IInv, one lemma per group of actions.            *)

\* submit(): the row exists before its job enters the queue.
LEMMA SubmitInv ==
  ASSUME IInv, NEW j \in Jobs,
         SubmitCall(j) \/ SubmitCommit(j) \/ SubmitPut(j) \/ SubmitReject(j) \/ SubmitRaises(j)
  PROVE  IInv'
<1> USE DEF IInv, TypeOK, Recorded, Owned, Accepted, Durable, ResultIsDurable, Down,
            poolVars, workerVars, cancelVars, stopVars, faultVars,
            FutureState, ThreadState, SubmitState, WorkerPc, CancelPc, StopPc, SavePc,
               Outcome, RowStatus, Terminal, InFlight
<1>1. CASE SubmitCall(j)
  BY <1>1 DEF SubmitCall, LoopRuns
<1>2. CASE SubmitCommit(j)
  BY <1>2 DEF SubmitCommit, SaveRecord, StorageOpen
<1>3. CASE SubmitPut(j)
  <2>1. CASE queue' = Append(queue, j)
    <3>1. submit' = [submit EXCEPT ![j] = "accepted"] /\ active' = active \cup {j}
          /\ future' = [future EXCEPT ![j] = "pending"]
      BY <1>3, <2>1 DEF SubmitPut
    <3>2. queue' \in Seq(Jobs)
      BY <2>1, AppendKeeps
    <3>3. \A i \in 1..Len(queue') : Accepted(queue[i])'
      BY <2>1, <3>1, AppendKeeps
    <3> QED BY <1>3, <3>1, <3>2, <3>3 DEF SubmitPut
  <2>2. CASE UNCHANGED queue
    BY <1>3, <2>2 DEF SubmitPut
  <2> QED BY <1>3, <2>1, <2>2 DEF SubmitPut
<1>4. CASE SubmitReject(j)
  BY <1>4 DEF SubmitReject, SaveRecord, StorageOpen, LoopRuns
<1>5. CASE SubmitRaises(j)
  BY <1>5 DEF SubmitRaises, StorageRaises, StorageOpen, LoopRuns, SaveRecord
<1> QED BY <1>1, <1>2, <1>3, <1>4, <1>5

\* A worker resolves a future only after its own write made the row terminal.
LEMMA WorkerInv ==
  ASSUME IInv, NEW w \in Workers,
         \/ WorkerTake(w) \/ WorkerLeave(w) \/ WorkerMark(w) \/ WorkerReturn(w)
         \/ WorkerWatchdog(w) \/ WorkerWatchKill(w) \/ WorkerCommit(w) \/ WorkerSaved(w)
         \/ WorkerFailSaved(w) \/ WorkerDeadLetter(w) \/ WorkerRaises(w) \/ WorkerRecovers(w)
         \/ WorkerWakes(w) \/ WorkerCancelled(w)
  PROVE  IInv'
<1> USE DEF IInv, TypeOK, Recorded, Owned, Accepted, Durable, ResultIsDurable, Down,
            poolVars, workerVars, cancelVars, stopVars, faultVars,
            FutureState, ThreadState, SubmitState, WorkerPc, CancelPc, StopPc, SavePc,
               Outcome, RowStatus, Terminal, InFlight
<1>1. CASE WorkerTake(w)
  <2>1. Head(queue) \in Jobs /\ Tail(queue) \in Seq(Jobs) /\ Accepted(Head(queue))
    BY <1>1, HeadTail DEF WorkerTake
  <2>2. Owned'
    BY <1>1, <2>1, HeadTail DEF WorkerTake, StartSave
  <2>3. Recorded' /\ Down'
    BY <1>1 DEF WorkerTake, StartSave, Resumes, LoopRuns
  <2>4. CASE Head(queue) \in cancelled \/ future[Head(queue)] = "aborted"
    <3>1. StartSave(w, "skipSave", "cancelled") /\ UNCHANGED running
      BY <1>1, <2>4 DEF WorkerTake
    <3>2. TypeOK'
      BY <1>1, <2>1, <3>1 DEF WorkerTake, StartSave
    <3>3. Durable'
      BY <1>1, <2>1, <3>1 DEF WorkerTake, StartSave
    <3> QED BY <2>2, <2>3, <3>2, <3>3
  <2>5. CASE Head(queue) \notin cancelled /\ future[Head(queue)] # "aborted"
    <3>1. /\ running' = running \cup {Head(queue)} /\ wpc' = [wpc EXCEPT ![w] = "mark"]
          /\ UNCHANGED <<wnew, wdone>>
      BY <1>1, <2>5 DEF WorkerTake
    <3>2. TypeOK'
      BY <1>1, <2>1, <3>1 DEF WorkerTake
    <3>3. Durable'
      BY <1>1, <2>1, <3>1 DEF WorkerTake
    <3> QED BY <2>2, <2>3, <3>2, <3>3
  <2> QED BY <1>1, <2>4, <2>5 DEF WorkerTake
<1>2. CASE WorkerLeave(w)
  BY <1>2 DEF WorkerLeave, Shutdown, Resumes, LoopRuns
<1>3. CASE WorkerMark(w)
  <2>1. TypeOK'
    BY <1>3 DEF WorkerMark, MarkRecordRunning, StorageOpen, Resumes, LoopRuns
  <2>2. Recorded'
    BY <1>3 DEF WorkerMark, MarkRecordRunning, StorageOpen, Resumes, LoopRuns
  <2>3. Owned'
    BY <1>3 DEF WorkerMark, MarkRecordRunning, StorageOpen, Resumes, LoopRuns
  <2>4. Durable'
    BY <1>3 DEF WorkerMark, MarkRecordRunning, StorageOpen, Resumes, LoopRuns
  <2>5. Down'
    BY <1>3 DEF WorkerMark, MarkRecordRunning, StorageOpen, Resumes, LoopRuns
  <2> QED BY <2>1, <2>2, <2>3, <2>4, <2>5
<1>4. CASE WorkerReturn(w)
  <2>1. StartSave(w, "save", FinalStatus(wjob[w], OutcomeStatus(thread[wjob[w]]),
                                         ExitedBySignal(thread[wjob[w]])))
        /\ thread[wjob[w]] \in Outcome \ {"raised"}
        => \E s \in Terminal : StartSave(w, "save", s)
    BY OutcomeIsTerminal DEF FinalStatus
  <2>2. \E pc \in SavePc, s \in Terminal : StartSave(w, pc, s)
    BY <1>4, <2>1 DEF WorkerReturn
  <2>3. wpc[w] = "exec" /\ Resumes(w)
        /\ UNCHANGED <<rec, dlq, poolVars, wjob, condemned, thread, cancelVars, stopVars,
           faultVars>>
    BY <1>4 DEF WorkerReturn
  <2> QED BY <2>2, <2>3 DEF StartSave, Resumes, LoopRuns
<1>5. CASE WorkerWatchdog(w)
  BY <1>5 DEF WorkerWatchdog, PoolFull, BusyThreads, Resumes, LoopRuns
<1>6. CASE WorkerWatchKill(w)
  <2>1. TypeOK'
    BY <1>6 DEF WorkerWatchKill, FinalStatus, KillContainer, StartSave, Resumes, LoopRuns
  <2>2. Recorded'
    BY <1>6 DEF WorkerWatchKill, FinalStatus, KillContainer, StartSave, Resumes, LoopRuns
  <2>3. Owned'
    BY <1>6 DEF WorkerWatchKill, FinalStatus, KillContainer, StartSave, Resumes, LoopRuns
  <2>4. Durable'
    BY <1>6 DEF WorkerWatchKill, FinalStatus, KillContainer, StartSave, Resumes, LoopRuns
  <2>5. Down'
    BY <1>6 DEF WorkerWatchKill, FinalStatus, KillContainer, StartSave, Resumes, LoopRuns
  <2> QED BY <2>1, <2>2, <2>3, <2>4, <2>5
<1>7. CASE WorkerCommit(w)
  BY <1>7 DEF WorkerCommit, SaveRecord, StorageOpen
<1>8. CASE WorkerSaved(w)
  BY <1>8 DEF WorkerSaved, EndIteration, LoopTop, Shutdown, Resolved, Resumes, LoopRuns
<1>9. CASE WorkerFailSaved(w)
  BY <1>9 DEF WorkerFailSaved, Resumes, LoopRuns
<1>10. CASE WorkerDeadLetter(w)
  BY <1>10 DEF WorkerDeadLetter, EndIteration, LoopTop, Shutdown, Resolved, StorageOpen,
     Resumes, LoopRuns
<1>11. CASE WorkerRaises(w)
  BY <1>11 DEF WorkerRaises, StartSave, StorageRaises, StorageOpen, Resumes, LoopRuns
<1>12. CASE WorkerRecovers(w)
  <2>1. TypeOK'
    BY <1>12 DEF WorkerRecovers, Resolved, StorageRaises, StorageOpen, Resumes, LoopRuns
  <2>2. Recorded'
    BY <1>12 DEF WorkerRecovers, Resolved, StorageRaises, StorageOpen, Resumes, LoopRuns
  <2>3. Owned'
    BY <1>12 DEF WorkerRecovers, Resolved, StorageRaises, StorageOpen, Resumes, LoopRuns
  <2>4. Durable'
    BY <1>12 DEF WorkerRecovers, Resolved, StorageRaises, StorageOpen, Resumes, LoopRuns
  <2>5. Down'
    BY <1>12 DEF WorkerRecovers, Resolved, StorageRaises, StorageOpen, Resumes, LoopRuns
  <2> QED BY <2>1, <2>2, <2>3, <2>4, <2>5
<1>13. CASE WorkerWakes(w)
  BY <1>13 DEF WorkerWakes, EndIteration, LoopTop, Shutdown, Resumes, LoopRuns
<1>14. CASE WorkerCancelled(w)
  <2>1. CASE StartSave(w, "cancelSave", "cancelled") /\ UNCHANGED <<active, running, wjob>>
             /\ wpc[w] \in {"exec", "watchKill", "save"}
    BY <1>14, <2>1 DEF WorkerCancelled, StartSave, LoopRuns
  <2>2. CASE EndIteration(w)
    BY <1>14, <2>2 DEF WorkerCancelled, EndIteration, LoopTop, LoopRuns
  <2> QED BY <1>14, <2>1, <2>2 DEF WorkerCancelled
<1> QED BY <1>1, <1>2, <1>3, <1>4, <1>5, <1>6, <1>7, <1>8, <1>9, <1>10, <1>11, <1>12, <1>13,
   <1>14

\* The threads touch neither rows nor futures.
LEMMA ThreadInv ==
  ASSUME IInv, NEW j \in Jobs,
         ThreadStart(j) \/ ThreadFinish(j)
  PROVE  IInv'
<1> USE DEF IInv, TypeOK, Recorded, Owned, Accepted, Durable, ResultIsDurable, Down,
            poolVars, workerVars, cancelVars, stopVars, faultVars,
            FutureState, ThreadState, SubmitState, WorkerPc, CancelPc, StopPc, SavePc,
               Outcome, RowStatus, Terminal, InFlight
<1>1. CASE ThreadStart(j)
  BY <1>1 DEF ThreadStart, PoolFull, BusyThreads
<1>2. CASE ThreadFinish(j)
  BY <1>2 DEF ThreadFinish
<1> QED BY <1>1, <1>2

\* cancel() only ever refers to a job that was accepted.
LEMMA CancelCallInv ==
  ASSUME IInv, NEW c \in Cancellers, NEW j \in Jobs,
         CancelCall(c, j)
  PROVE  IInv'
<1> USE DEF IInv, TypeOK, Recorded, Owned, Accepted, Durable, ResultIsDurable, Down,
            poolVars, workerVars, cancelVars, stopVars, faultVars,
            FutureState, ThreadState, SubmitState, WorkerPc, CancelPc, StopPc, SavePc,
               Outcome, RowStatus, Terminal, InFlight
<1>1. CASE CancelCall(c, j)
  BY <1>1 DEF CancelCall, LoopRuns
<1> QED BY <1>1

\* cancel() resolves the future of a job after its row is terminal.
LEMMA CancelInv ==
  ASSUME IInv, NEW c \in Cancellers,
         \/ CancelCommit(c) \/ CancelSaved(c) \/ CancelRaises(c)
         \/ CancelKill(c) \/ CancelSignalled(c)
  PROVE  IInv'
<1> USE DEF IInv, TypeOK, Recorded, Owned, Accepted, Durable, ResultIsDurable, Down,
            poolVars, workerVars, cancelVars, stopVars, faultVars,
            FutureState, ThreadState, SubmitState, WorkerPc, CancelPc, StopPc, SavePc,
               Outcome, RowStatus, Terminal, InFlight
<1>1. CASE CancelCommit(c)
  BY <1>1 DEF CancelCommit, SaveRecord, StorageOpen
<1>2. CASE CancelSaved(c)
  BY <1>2 DEF CancelSaved, Resolved, LoopRuns
<1>3. CASE CancelRaises(c)
  <2>1. TypeOK'
    BY <1>3 DEF CancelRaises, StorageRaises, StorageOpen, LoopRuns
  <2>2. Recorded'
    BY <1>3 DEF CancelRaises, StorageRaises, StorageOpen, LoopRuns
  <2>3. Owned'
    BY <1>3 DEF CancelRaises, StorageRaises, StorageOpen, LoopRuns
  <2>4. Durable'
    BY <1>3 DEF CancelRaises, StorageRaises, StorageOpen, LoopRuns
  <2>5. Down'
    BY <1>3 DEF CancelRaises, StorageRaises, StorageOpen, LoopRuns
  <2> QED BY <2>1, <2>2, <2>3, <2>4, <2>5
<1>4. CASE CancelKill(c)
  <2>1. thread' \in [Jobs -> ThreadState] /\ chit' \in [Cancellers -> BOOLEAN]
    BY <1>4 DEF CancelKill, KillContainer
  <2>2. TypeOK'
    BY <1>4, <2>1 DEF CancelKill
  <2>3. Recorded' /\ Owned' /\ Durable' /\ Down'
    BY <1>4 DEF CancelKill
  <2> QED BY <2>2, <2>3
<1>5. CASE CancelSignalled(c)
  BY <1>5 DEF CancelSignalled, LoopRuns
<1> QED BY <1>1, <1>2, <1>3, <1>4, <1>5

\* Everything but the database goes with the process.
LEMMA ProcessEndsInv ==
  ASSUME IInv, ProcessEnds
  PROVE  IInv'
<1> USE DEF IInv, TypeOK, Recorded, Owned, Accepted, Durable, ResultIsDurable, Down
<1>1. /\ thread' \in [Jobs -> ThreadState] /\ submit' \in [Jobs -> SubmitState]
      /\ cpc' \in [Cancellers -> CancelPc]
  BY DEF ProcessEnds, ThreadState, SubmitState, CancelPc
<1>2. /\ queue' \in Seq(Jobs) /\ Len(queue') = 0
      /\ active' \subseteq Jobs /\ running' \subseteq Jobs
  BY DEF ProcessEnds
<1>3. TypeOK'
  BY <1>1, <1>2 DEF ProcessEnds, faultVars, FutureState, WorkerPc, StopPc, Terminal
<1>4. Recorded' /\ Owned' /\ Durable' /\ Down'
  BY <1>2 DEF ProcessEnds, Terminal
<1> QED BY <1>3, <1>4

\* Shutdown, crash and restart: rows outlive futures, never the other way round.
LEMMA ProcessInv ==
  ASSUME IInv,
         \/ StopCall \/ StopDrain \/ StopDrained \/ StopWaited \/ StopJoined
         \/ StorageClose \/ Exit \/ Crash \/ Restart
  PROVE  IInv'
<1> USE DEF IInv, TypeOK, Recorded, Owned, Accepted, Durable, ResultIsDurable, Down,
            poolVars, workerVars, cancelVars, stopVars, faultVars,
            FutureState, ThreadState, SubmitState, WorkerPc, CancelPc, StopPc, SavePc,
               Outcome, RowStatus, Terminal, InFlight
<1>1. CASE StopCall
  BY <1>1 DEF StopCall
<1>2. CASE StopDrain
  <2>1. CASE queue # <<>> /\ stopJob' = Head(queue) /\ queue' = Tail(queue)
    <3>1. Head(queue) \in Jobs /\ Tail(queue) \in Seq(Jobs) /\ Accepted(Head(queue))
      BY <2>1, HeadTail
    <3>2. \A i \in 1..Len(queue') : Accepted(queue'[i])
      BY <2>1, HeadTail
    <3> QED BY <1>2, <2>1, <3>1, <3>2 DEF StopDrain
  <2>2. CASE queue = <<>> /\ UNCHANGED <<stopJob, queue>> /\ stopPc' = "wait"
    BY <1>2, <2>2 DEF StopDrain
  <2> QED BY <1>2, <2>1, <2>2 DEF StopDrain
<1>3. CASE StopDrained
  <2>1. stopJob \in Jobs
    BY <1>3 DEF StopDrained
  <2>2. /\ rec' \in [Jobs -> RowStatus]
        /\ \A j \in Jobs : rec[j] \in Terminal => rec'[j] \in Terminal
    BY <1>3, <2>1 DEF StopDrained, SaveRecord
  <2>3. faults' \in Nat /\ faulty' \subseteq Jobs
    BY <1>3, <2>1 DEF StopDrained, StorageRaises
  <2>4. TypeOK'
    BY <1>3, <2>2, <2>3 DEF StopDrained, Resolved
  <2>5. Recorded' /\ Owned' /\ Down'
    BY <1>3, <2>1 DEF StopDrained, SaveRecord, Resolved
  <2>6. Durable'
    BY <1>3, <2>1, <2>2 DEF StopDrained, Resolved
  <2> QED BY <2>4, <2>6, <2>5
<1>4. CASE StopWaited
  BY <1>4 DEF StopWaited
<1>5. CASE StopJoined
  BY <1>5 DEF StopJoined, BusyThreads
<1>6. CASE StorageClose
  BY <1>6 DEF StorageClose
<1>7. CASE Exit
  BY <1>7, ProcessEndsInv DEF Exit
<1>8. CASE Crash
  BY <1>8, ProcessEndsInv DEF Crash
<1>9. CASE Restart
  BY <1>9 DEF Restart, ReconcileStale
<1> QED BY <1>1, <1>2, <1>3, <1>4, <1>5, <1>6, <1>7, <1>8, <1>9

-----------------------------------------------------------------------------
(* Invariance                                                              *)

\* The pool starts in the invariant.
LEMMA InitInv == Init => IInv
  BY PoolAssumption DEF Init, IInv, TypeOK, Recorded, Owned, Durable, ResultIsDurable, Down,
     RowStatus, InFlight, Terminal, FutureState, ThreadState, SubmitState, WorkerPc,
     CancelPc, StopPc

\* Every step preserves it.
LEMMA NextInv == IInv /\ [Next]_vars => IInv'
<1> SUFFICES ASSUME IInv, [Next]_vars PROVE IInv'
  OBVIOUS
<1>1. CASE \E j \in Jobs : SubmitCall(j) \/ SubmitStep(j) \/ SubmitRaises(j)
  BY <1>1, SubmitInv DEF SubmitStep
<1>2. CASE \E j \in Jobs : ThreadStep(j)
  BY <1>2, ThreadInv DEF ThreadStep
<1>3. CASE \E w \in Workers : WorkerStep(w) \/ WorkerWatchdog(w) \/ WorkerRaises(w)
  BY <1>3, WorkerInv DEF WorkerStep
<1>4. CASE \E c \in Cancellers :
             CancelStep(c) \/ CancelRaises(c) \/ \E j \in Jobs : CancelCall(c, j)
  <2>1. CASE \E c \in Cancellers, j \in Jobs : CancelCall(c, j)
    BY <2>1, CancelCallInv
  <2>2. CASE \E c \in Cancellers : CancelStep(c) \/ CancelRaises(c)
    BY <2>2, CancelInv DEF CancelStep
  <2> QED BY <1>4, <2>1, <2>2
<1>5. CASE StopCall \/ StopStep \/ Crash \/ Restart
  BY <1>5, ProcessInv DEF StopStep
<1>6. CASE UNCHANGED vars
  BY <1>6 DEF IInv, TypeOK, Recorded, Owned, Accepted, Durable, ResultIsDurable, Down, vars,
     poolVars, workerVars, cancelVars, stopVars, faultVars
<1> QED BY <1>1, <1>2, <1>3, <1>4, <1>5, <1>6 DEF Next

\* IInv is an inductive invariant of the pool.
LEMMA Inductive == Spec => []IInv
  BY InitInv, NextInv, PTL DEF Spec

\* Every variable keeps its type: no coroutine ever refers to a job it does not
\* have, whatever the interleaving of workers, clients, faults and restarts.
THEOREM TypeCorrect == Spec => []TypeOK
<1>1. IInv => TypeOK
  BY DEF IInv
<1> QED BY Inductive, <1>1, PTL

\* A waiter is never handed a final record the database does not back.
THEOREM DurableResults == Spec => []ResultIsDurable
<1>1. IInv => ResultIsDurable
  BY DEF IInv, Durable
<1> QED BY Inductive, <1>1, PTL

-----------------------------------------------------------------------------
(* Refinement of JobLifecycle                                              *)

\* save_record of a final status, on a row that exists, settles it or is refused.
LEMMA SavesSettle ==
  ASSUME TypeOK, NEW j \in Jobs, NEW s \in Terminal, rec[j] # "absent",
         rec' = [rec EXCEPT ![j] = SaveRecord(@, s)]
  PROVE  Lifecycle!Settle(j, s) \/ UNCHANGED rec
  BY DEF TypeOK, RowStatus, SaveRecord, InFlight, Lifecycle!Settle, Lifecycle!InFlight

\* Every step of the pool is a step of the lifecycle of one row, the settling of
\* all interrupted rows, or a stutter.
LEMMA StepRefines == IInv /\ [Next]_vars => [Lifecycle!Next]_rec
<1> SUFFICES ASSUME IInv, [Next]_vars PROVE Lifecycle!Next \/ UNCHANGED rec
  BY DEF vars
<1>i. TypeOK /\ Recorded /\ Owned
  BY DEF IInv
<1>1. ASSUME NEW j \in Jobs, SubmitCommit(j) PROVE Lifecycle!Next
  <2>1. rec[j] = "absent" /\ rec' = [rec EXCEPT ![j] = "queued"]
    BY <1>1, <1>i DEF SubmitCommit, Recorded, SaveRecord, Terminal
  <2> QED BY <2>1 DEF Lifecycle!Next, Lifecycle!Record
<1>2. ASSUME NEW j \in Jobs, SubmitReject(j) \/ SubmitRaises(j)
      PROVE  Lifecycle!Next \/ UNCHANGED rec
  <2>1. \/ UNCHANGED rec
        \/ submit[j] = "full" /\ rec' = [rec EXCEPT ![j] = SaveRecord(@, "failed")]
    BY <1>2 DEF SubmitReject, SubmitRaises
  <2>2. submit[j] = "full" => rec[j] # "absent"
    BY <1>i DEF Recorded
  <2> QED BY <1>i, <2>1, <2>2, SavesSettle DEF Lifecycle!Next, Terminal, Lifecycle!Terminal
<1>3. ASSUME NEW w \in Workers, WorkerMark(w) PROVE Lifecycle!Next \/ UNCHANGED rec
  <2>1. wjob[w] \in Jobs
    BY <1>3, <1>i DEF WorkerMark, Owned, Accepted
  <2> QED BY <1>3, <1>i, <2>1
          DEF WorkerMark, MarkRecordRunning, TypeOK, Lifecycle!Next, Lifecycle!Start
<1>4. ASSUME NEW w \in Workers, WorkerCommit(w) PROVE Lifecycle!Next \/ UNCHANGED rec
  <2>1. wjob[w] \in Jobs /\ rec[wjob[w]] # "absent" /\ wnew[w] \in Terminal
    BY <1>4, <1>i DEF WorkerCommit, Owned, Accepted, Recorded, TypeOK, SavePc
  <2> QED BY <1>4, <1>i, <2>1, SavesSettle DEF WorkerCommit, Lifecycle!Next, Terminal,
     Lifecycle!Terminal
<1>5. ASSUME NEW c \in Cancellers, CancelCommit(c) PROVE Lifecycle!Next \/ UNCHANGED rec
  <2>1. cjob[c] \in Jobs /\ rec[cjob[c]] # "absent" /\ "cancelled" \in Terminal
    BY <1>5, <1>i DEF CancelCommit, Owned, Accepted, Recorded, Terminal
  <2> QED BY <1>5, <1>i, <2>1, SavesSettle DEF CancelCommit, Lifecycle!Next, Terminal,
     Lifecycle!Terminal
<1>6. ASSUME StopDrained PROVE Lifecycle!Next \/ UNCHANGED rec
  <2>1. stopJob \in Jobs /\ rec[stopJob] # "absent" /\ "cancelled" \in Terminal
    BY <1>6, <1>i DEF StopDrained, Owned, Accepted, Recorded, Terminal
  <2> QED BY <1>6, <1>i, <2>1, SavesSettle DEF StopDrained, Lifecycle!Next, Terminal,
     Lifecycle!Terminal
<1>7. ASSUME Restart PROVE Lifecycle!Next
  BY <1>7 DEF Restart, ReconcileStale, InFlight, Lifecycle!Next, Lifecycle!Interrupt,
     Lifecycle!ReconcileStale, Lifecycle!InFlight
<1>8. ASSUME NEW j \in Jobs, SubmitCall(j) \/ SubmitPut(j) \/ ThreadStep(j)
      PROVE  UNCHANGED rec
  BY <1>8 DEF SubmitCall, SubmitPut, ThreadStep, ThreadStart, ThreadFinish
<1>9. ASSUME NEW w \in Workers,
             \/ WorkerTake(w) \/ WorkerLeave(w) \/ WorkerReturn(w) \/ WorkerWatchKill(w)
             \/ WorkerSaved(w) \/ WorkerFailSaved(w) \/ WorkerDeadLetter(w) \/ WorkerRecovers(w)
             \/ WorkerWakes(w) \/ WorkerCancelled(w) \/ WorkerWatchdog(w) \/ WorkerRaises(w)
      PROVE  UNCHANGED rec
  BY <1>9 DEF WorkerTake, WorkerLeave, WorkerReturn, WorkerWatchKill, WorkerSaved,
     WorkerFailSaved, WorkerDeadLetter, WorkerRecovers, WorkerWakes, WorkerCancelled,
     WorkerWatchdog, WorkerRaises
<1>10. ASSUME NEW c \in Cancellers,
              \/ CancelSaved(c) \/ CancelKill(c) \/ CancelSignalled(c) \/ CancelRaises(c)
              \/ \E j \in Jobs : CancelCall(c, j)
       PROVE  UNCHANGED rec
  BY <1>10 DEF CancelSaved, CancelKill, CancelSignalled, CancelRaises, CancelCall
<1>11. ASSUME StopCall \/ StopDrain \/ StopWaited \/ StopJoined \/ StorageClose \/ Exit \/ Crash
       PROVE  UNCHANGED rec
  BY <1>11 DEF StopCall, StopDrain, StopWaited, StopJoined, StorageClose, Exit, Crash,
     ProcessEnds
<1>12. CASE UNCHANGED vars
  BY <1>12 DEF vars
<1> QED BY <1>1, <1>2, <1>3, <1>4, <1>5, <1>6, <1>7, <1>8, <1>9, <1>10, <1>11, <1>12
        DEF Next, SubmitStep, WorkerStep, CancelStep, StopStep

\* The pool implements the promised lifecycle of execution records.
THEOREM Refinement == Spec => LifecycleSpec
<1>1. Init => Lifecycle!Init
  BY DEF Init, Lifecycle!Init
<1> QED BY <1>1, Inductive, StepRefines, PTL DEF Spec, LifecycleSpec, Lifecycle!Spec

\* A terminal row is never changed by any of its writers.
THEOREM TerminalForever == Spec => TerminalIsFinal
<1>1. ASSUME TypeOK, Lifecycle!Next, NEW j \in Jobs, rec[j] \in Terminal
      PROVE  rec'[j] = rec[j]
  BY <1>1 DEF TypeOK, Lifecycle!Next, Lifecycle!Record, Lifecycle!Start, Lifecycle!Settle,
     Lifecycle!Interrupt, Lifecycle!ReconcileStale, Lifecycle!InFlight, Terminal
<1>2. TypeOK /\ [Lifecycle!Next]_rec
      => [\A j \in Jobs : rec[j] \in Terminal => rec'[j] = rec[j]]_rec
  BY <1>1
<1> QED BY <1>2, TypeCorrect, Refinement, PTL DEF LifecycleSpec, Lifecycle!Spec, TerminalIsFinal
=============================================================================
