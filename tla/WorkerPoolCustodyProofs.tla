----------------------- MODULE WorkerPoolCustodyProofs -----------------------
(***************************************************************************)
(* Who has a job, what its row may say meanwhile, and which dictionary     *)
(* knows of it, for any number of jobs, workers, cancel requests, faults   *)
(* and restarts.                                                           *)
(*                                                                         *)
(* The invariant of WorkerPoolProofs is extended in three layers, each     *)
(* proved on top of those before it: Places (a job is in one place at a    *)
(* time), Rows (what the row of a job in that place may say) and Entries   *)
(* (what _active_jobs, _running_jobs and the future say of it).            *)
(***************************************************************************)
EXTENDS WorkerPoolProofs

\* The stop() that empties the queue is over: the dictionaries were cleared and
\* the worker tasks that were left have been cancelled.
Stopped == stopPc \in {"closing", "closed"}

\* A job is in hand while it is in the queue, with a worker or with the drain.
InHand(j) == InQueue(j) \/ Held(j) \/ stopJob = j

\* No job is in two places of custody, and one in the queue was not handed on.
Custody ==
  /\ \A i, k \in 1..Len(queue) : queue[i] = queue[k] => i = k
  /\ \A j \in Jobs : InQueue(j) => ~Held(j) /\ stopJob # j /\ thread[j] = "none"
  /\ \A v, w \in Workers : wjob[v] = wjob[w] /\ wjob[v] # NoJob => v = w
  /\ \A w \in Workers : wjob[w] # NoJob => stopJob # wjob[w]

\* Workers and the drain have a job exactly while they work on one.
Vacant ==
  /\ \A w \in Workers : wjob[w] = NoJob <=> wpc[w] \in {"get", "exited"}
  /\ stopJob = NoJob <=> stopPc # "drainSave"

\* Whatever happened to a job in this process happened after it was accepted, and
\* there is somebody to tell as long as it is in hand.
Reached ==
  /\ \A j \in Jobs : thread[j] # "none" \/ future[j] # "none" \/ j \in cancelled
                       => submit[j] = "accepted"
  /\ \A j \in Jobs : InHand(j) => future[j] # "none"

\* A process that is down has nothing in memory.
Lost ==
  ~up => /\ queue = <<>> /\ stopPc = "no"
         /\ \A j \in Jobs : /\ submit[j] \notin {"saving", "put", "full"}
                            /\ future[j] = "none"

\* Cancelled tasks are those that stop() did not wait for; no other task is left
\* except in the handlers that save a last record.
Condemned ==
  /\ condemned # {} => stopPc \in {"join", "closing", "closed"}
  /\ stopPc \in {"join", "closing", "closed"} =>
       \A w \in Workers : w \in condemned
                            \/ wpc[w] \in {"exited", "cancelSave", "recoverSave", "sleep"}

Places == Custody /\ Vacant /\ Reached /\ Lost /\ Condemned

\* What the save of an outcome may find in the row of a job.
Open(j) == rec[j] \in {"queued", "running", "cancelled"} \/ j \in faulty

\* What may make a row differ from what the waiters are told.
Excused(j) == j \in cancelled \/ j \in faulty \/ Shutdown

\* Rows between submit() and the queue, and of the jobs in hand.
OpenRows ==
  /\ \A j \in Jobs : submit[j] \in {"put", "full"} => rec[j] = "queued"
  /\ \A j \in Jobs : InQueue(j) \/ stopJob = j => Open(j)
  /\ \A w \in Workers :
       wpc[w] \in {"mark", "exec", "watchKill", "skipSave", "save", "failSave"} /\ ~wdone[w]
         => Open(wjob[w])

\* What each save of a worker is for, and what it has achieved once it committed.
Saves ==
  /\ \A w \in Workers : wpc[w] \in {"mark", "exec", "watchKill"} => ~wdone[w]
  /\ \A w \in Workers : wpc[w] \in {"failSave", "dlq"} => wnew[w] = "failed"
  /\ \A w \in Workers : wpc[w] \in {"failSave", "dlq"} /\ wdone[w]
       => rec[wjob[w]] \in {"failed", "cancelled"} \/ wjob[w] \in faulty
  /\ \A w \in Workers : wpc[w] = "recoverSave" => wjob[w] \in faulty
  /\ \A w \in Workers : wpc[w] = "cancelSave" => Shutdown
  /\ \A w \in Workers : wpc[w] = "sleep"
       => rec[wjob[w]] \in Terminal \/ wjob[w] \in faulty

\* A row that says something else than a worker's record has an excuse.
Told ==
  /\ \A w \in Workers : wdone[w] => rec[wjob[w]] = wnew[w] \/ Excused(wjob[w])
  /\ \A w \in Workers : wpc[w] \in SavePc /\ wnew[w] = "cancelled" => Excused(wjob[w])
  /\ \A j \in Jobs : future[j] # "none" /\ rec[j] = "cancelled" => Excused(j)
  /\ \A c \in Cancellers : cpc[c] \notin {"idle", "done"} => cjob[c] \in cancelled

\* A row in flight is somebody's.
Backed ==
  \A j \in Jobs : up /\ ~Stopped /\ rec[j] \in InFlight /\ j \notin faulty
    => submit[j] \in {"put", "full"} \/ InHand(j)

Rows ==
  /\ OpenRows /\ Saves /\ Told /\ Backed
  /\ ResultMatchesRow /\ AbortedAfterRow /\ DeadLettersFailed

\* A job that waits is in _active_jobs unless it was cancelled; nobody has run it
\* and, unless cancel() did, nobody has told its waiters anything.
Waiting ==
  /\ \A j \in Jobs : InQueue(j) \/ stopJob = j =>
       /\ j \notin running
       /\ j \in active => j \notin cancelled /\ future[j] = "pending"
       /\ j \in active \/ j \in cancelled \/ Shutdown
       /\ future[j] \in {"pending", "cancelled"}
  /\ \A c \in Cancellers : cpc[c] \in {"save", "saved"} => cjob[c] \notin active

\* A job that a worker executes is in _running_jobs, and one it does not execute
\* is not in _active_jobs, until stop() clears both.
Tracked ==
  /\ \A w \in Workers : wpc[w] = "mark" => wjob[w] \in running \/ w \in condemned
  /\ \A w \in Workers : wjob[w] # NoJob /\ ~Shutdown
       => wjob[w] \in running \/ wjob[w] \notin active

\* A worker that pauses after a failure has released the waiters.
Released == \A w \in Workers : wpc[w] = "sleep" => future[wjob[w]] # "pending"

Entries == Waiting /\ Tracked /\ Released /\ NoStrandedEntry /\ WaiterServed

-----------------------------------------------------------------------------
(* The queue as a set of jobs.                                             *)

\* Who is in the queue depends on the queue only.
LEMMA SameQueue ==
  ASSUME UNCHANGED queue
  PROVE  \A j : InQueue(j)' <=> InQueue(j)
BY DEF InQueue

\* Taking the head takes that job out of the queue and no other.
LEMMA Dequeue ==
  ASSUME queue \in Seq(Jobs), queue # <<>>, queue' = Tail(queue), Custody
  PROVE  /\ Head(queue) \in Jobs /\ InQueue(Head(queue))
         /\ \A j : InQueue(j)' <=> InQueue(j) /\ j # Head(queue)
         /\ \A i, k \in 1..Len(queue') : queue'[i] = queue'[k] => i = k
<1>1. /\ Head(queue) \in Jobs /\ Head(queue) = queue[1] /\ Len(queue) \in Nat
      /\ 1 \in 1..Len(queue)
  BY HeadTail
<1>2. /\ Len(queue') = Len(queue) - 1
      /\ \A i \in 1..Len(queue') : i + 1 \in 1..Len(queue) /\ queue'[i] = queue[i + 1]
  BY HeadTail
<1>3. \A i, k \in 1..Len(queue) : queue[i] = queue[k] => i = k
  BY DEF Custody
<1>4. \A i, k \in 1..Len(queue') : queue'[i] = queue'[k] => i = k
  BY <1>1, <1>2, <1>3
<1>5. ASSUME NEW j, InQueue(j)' PROVE InQueue(j) /\ j # Head(queue)
  BY <1>1, <1>2, <1>3, <1>5 DEF InQueue
<1>6. ASSUME NEW j, InQueue(j), j # Head(queue) PROVE InQueue(j)'
  <2>1. PICK i \in 1..Len(queue) : queue[i] = j
    BY <1>6 DEF InQueue
  <2>2. i - 1 \in 1..Len(queue') /\ queue'[i - 1] = j
    BY <1>1, <1>2, <1>6, <2>1
  <2> QED BY <2>2 DEF InQueue
<1>7. InQueue(Head(queue))
  BY <1>1 DEF InQueue
<1> QED BY <1>1, <1>4, <1>5, <1>6, <1>7

\* Putting a job in that was not there keeps the queue free of duplicates.
LEMMA Enqueue ==
  ASSUME queue \in Seq(Jobs), NEW e \in Jobs, ~InQueue(e), queue' = Append(queue, e), Custody
  PROVE  /\ \A j : InQueue(j)' <=> InQueue(j) \/ j = e
         /\ \A i, k \in 1..Len(queue') : queue'[i] = queue'[k] => i = k
<1>1. /\ Len(queue) \in Nat /\ Len(queue') = Len(queue) + 1
      /\ \A i \in 1..Len(queue) : queue'[i] = queue[i]
      /\ queue'[Len(queue) + 1] = e
  OBVIOUS
<1>2. \A i \in 1..Len(queue') : i \in 1..Len(queue) \/ i = Len(queue) + 1
  BY <1>1
<1>3. \A i \in 1..Len(queue) : queue[i] # e
  BY DEF InQueue
<1>4. \A i, k \in 1..Len(queue) : queue[i] = queue[k] => i = k
  BY DEF Custody
<1>5. \A i, k \in 1..Len(queue') : queue'[i] = queue'[k] => i = k
  BY <1>1, <1>2, <1>3, <1>4
<1>6. ASSUME NEW j, InQueue(j)' PROVE InQueue(j) \/ j = e
  BY <1>1, <1>2, <1>6 DEF InQueue
<1>7. ASSUME NEW j, InQueue(j) \/ j = e PROVE InQueue(j)'
  <2>1. Len(queue) + 1 \in 1..Len(queue') /\ 1..Len(queue) \subseteq 1..Len(queue')
    BY <1>1
  <2> QED BY <1>1, <1>7, <2>1 DEF InQueue
<1> QED BY <1>5, <1>6, <1>7

\* A job in hand was accepted.
LEMMA InHandAccepted ==
  ASSUME IInv, Vacant PROVE \A j \in Jobs : InHand(j) => submit[j] = "accepted"
BY PoolAssumption DEF IInv, Owned, Accepted, Vacant, InHand, InQueue, Held

-----------------------------------------------------------------------------
(* Places: a job is in one place at a time.                                *)

\* submit() puts a job into the queue that is nowhere else.
LEMMA SubmitPlaces ==
  ASSUME IInv, Places, NEW j \in Jobs,
         SubmitCall(j) \/ SubmitCommit(j) \/ SubmitPut(j) \/ SubmitReject(j) \/ SubmitRaises(j)
  PROVE  Places'
<1> USE DEF IInv, TypeOK, Owned, Accepted, Places, Custody, Vacant, Reached, Lost, Condemned,
            Held, InHand, Shutdown, LoopRuns, Resumes,
            workerVars, cancelVars, stopVars, faultVars
<1>1. CASE SubmitCall(j)
  BY <1>1, SameQueue DEF SubmitCall
<1>2. CASE SubmitCommit(j)
  BY <1>2, SameQueue DEF SubmitCommit
<1>3. CASE SubmitPut(j)
  <2>1. CASE queue' = Append(queue, j)
    <3>1. ~InQueue(j) /\ ~Held(j) /\ stopJob # j /\ thread[j] = "none"
      BY <1>3, PoolAssumption DEF SubmitPut, InQueue
    <3>2. /\ submit' = [submit EXCEPT ![j] = "accepted"]
          /\ future' = [future EXCEPT ![j] = "pending"] /\ up
          /\ UNCHANGED <<wpc, wjob, stopJob, stopPc, thread, cancelled, up>>
      BY <1>3, <2>1 DEF SubmitPut
    <3>3. Custody'
      BY <2>1, <3>1, <3>2, Enqueue
    <3>4. \A k : InQueue(k)' <=> InQueue(k) \/ k = j
      BY <2>1, <3>1, Enqueue
    <3>5. Vacant' /\ Lost' /\ Condemned'
      BY <1>3, <3>2 DEF SubmitPut
    <3>6. Reached'
      BY <3>2, <3>4
    <3> QED BY <3>3, <3>5, <3>6
  <2>2. CASE UNCHANGED <<queue, future>> /\ submit' = [submit EXCEPT ![j] = "full"]
    BY <1>3, <2>2, SameQueue DEF SubmitPut
  <2> QED BY <1>3, <2>1, <2>2 DEF SubmitPut
<1>4. CASE SubmitReject(j)
  BY <1>4, SameQueue DEF SubmitReject
<1>5. CASE SubmitRaises(j)
  BY <1>5, SameQueue DEF SubmitRaises
<1> QED BY <1>1, <1>2, <1>3, <1>4, <1>5

\* A worker takes a job out of the queue and has it until its iteration ends.
LEMMA WorkerPlaces ==
  ASSUME IInv, Places, NEW w \in Workers, WorkerStep(w) \/ WorkerWatchdog(w) \/ WorkerRaises(w)
  PROVE  Places'
<1> USE DEF IInv, TypeOK, Owned, Accepted, Places, Custody, Vacant, Reached, Lost, Condemned,
            Held, InHand, Shutdown, LoopRuns, Resumes,
            poolVars, cancelVars, stopVars, faultVars, StartSave, EndIteration, SavePc
<1>1. CASE WorkerTake(w)
  <2> DEFINE j == Head(queue)
  <2>1. /\ queue # <<>> /\ queue' = Tail(queue) /\ wjob' = [wjob EXCEPT ![w] = j]
        /\ wpc[w] = "get" /\ wpc' \in {[wpc EXCEPT ![w] = "skipSave"], [wpc EXCEPT ![w] = "mark"]}
        /\ UNCHANGED <<thread, future, cancelled, submit, stopPc, stopJob, up>>
    BY <1>1 DEF WorkerTake
  <2>2. /\ j \in Jobs /\ InQueue(j) /\ (\A k : InQueue(k)' <=> InQueue(k) /\ k # j)
        /\ \A i, k \in 1..Len(queue') : queue'[i] = queue'[k] => i = k
    BY <2>1, Dequeue
  <2>3. wjob[w] = NoJob /\ \A v \in Workers : wjob[v] # j
    BY <2>1, <2>2
  <2> HIDE DEF j
  <2>4. Custody'
    BY <2>1, <2>2, <2>3
  <2>5. Vacant' /\ Reached'
    BY <2>1, <2>2, PoolAssumption
  <2>6. Lost' /\ Condemned'
    BY <1>1 DEF WorkerTake
  <2> QED BY <2>4, <2>5, <2>6
<1>2. CASE WorkerLeave(w)
  BY <1>2, SameQueue DEF WorkerLeave
<1>3. CASE WorkerMark(w)
  BY <1>3, SameQueue DEF WorkerMark
<1>4. CASE WorkerReturn(w)
  BY <1>4, SameQueue DEF WorkerReturn
<1>5. CASE WorkerWatchdog(w)
  BY <1>5, SameQueue DEF WorkerWatchdog
<1>6. CASE WorkerWatchKill(w)
  BY <1>6, SameQueue DEF WorkerWatchKill, KillContainer
<1>7. CASE WorkerCommit(w)
  BY <1>7, SameQueue DEF WorkerCommit
<1>8. CASE WorkerSaved(w)
  BY <1>8, SameQueue, PoolAssumption DEF WorkerSaved, LoopTop, Resolved
<1>9. CASE WorkerFailSaved(w)
  BY <1>9, SameQueue DEF WorkerFailSaved
<1>10. CASE WorkerDeadLetter(w)
  BY <1>10, SameQueue, PoolAssumption DEF WorkerDeadLetter, LoopTop, Resolved
<1>11. CASE WorkerRaises(w)
  BY <1>11, SameQueue DEF WorkerRaises
<1>12. CASE WorkerRecovers(w)
  BY <1>12, SameQueue DEF WorkerRecovers, Resolved
<1>13. CASE WorkerWakes(w)
  BY <1>13, SameQueue, PoolAssumption DEF WorkerWakes, LoopTop
<1>14. CASE WorkerCancelled(w)
  BY <1>14, SameQueue, PoolAssumption DEF WorkerCancelled, LoopTop
<1> QED BY <1>1, <1>2, <1>3, <1>4, <1>5, <1>6, <1>7, <1>8, <1>9, <1>10, <1>11, <1>12, <1>13,
   <1>14 DEF WorkerStep

\* A work item has been handed to the thread pool before a thread moves it.
LEMMA ThreadPlaces ==
  ASSUME IInv, Places, NEW j \in Jobs, ThreadStep(j) PROVE Places'
BY SameQueue DEF ThreadStep, ThreadStart, ThreadFinish, Outcome, poolVars, workerVars,
                 cancelVars, stopVars,
   IInv, TypeOK, Places, Custody, Vacant, Reached, Lost, Condemned, Held, InHand, Shutdown,
   LoopRuns, Resumes

\* cancel() moves no job.
LEMMA CancelPlaces ==
  ASSUME IInv, Places, NEW c \in Cancellers,
         CancelStep(c) \/ CancelRaises(c) \/ \E j \in Jobs : CancelCall(c, j)
  PROVE  Places'
<1> USE SameQueue
        DEF IInv, TypeOK, Places, Custody, Vacant, Reached, Lost, Condemned, Held, InHand,
            Shutdown, LoopRuns, Resumes,
            poolVars, workerVars, stopVars, faultVars
<1>1. CASE CancelCommit(c)
  BY <1>1 DEF CancelCommit
<1>2. CASE CancelSaved(c)
  BY <1>2 DEF CancelSaved, Resolved
<1>3. CASE CancelRaises(c)
  BY <1>3 DEF CancelRaises
<1>4. CASE CancelKill(c)
  BY <1>4 DEF CancelKill, KillContainer
<1>5. CASE CancelSignalled(c)
  BY <1>5 DEF CancelSignalled
<1>6. ASSUME NEW j \in Jobs, CancelCall(c, j) PROVE Places'
  BY <1>6 DEF CancelCall
<1> QED BY <1>1, <1>2, <1>3, <1>4, <1>5, <1>6 DEF CancelStep

\* stop() takes what is left in the queue; the end of the process empties all places.
LEMMA ProcessPlaces ==
  ASSUME IInv, Places, StopCall \/ StopStep \/ Crash \/ Restart PROVE Places'
<1> USE DEF IInv, TypeOK, Places, Custody, Vacant, Reached, Lost, Condemned, Held, InHand,
            Shutdown, LoopRuns, Resumes, Owned, Accepted, Down,
            poolVars, workerVars, cancelVars, stopVars, faultVars
<1>1. CASE StopCall
  BY <1>1, SameQueue DEF StopCall
<1>2. CASE StopDrain
  <2>1. CASE queue # <<>> /\ stopJob' = Head(queue) /\ queue' = Tail(queue) /\ stopPc' = "drainSave"
    <3> DEFINE j == Head(queue)
    <3>1. stopPc = "drain" /\ UNCHANGED <<thread, future, cancelled, submit, wpc, wjob, up>>
      BY <1>2 DEF StopDrain
    <3>2. /\ j \in Jobs /\ InQueue(j) /\ (\A k : InQueue(k)' <=> InQueue(k) /\ k # j)
          /\ \A i, k \in 1..Len(queue') : queue'[i] = queue'[k] => i = k
      BY <2>1, Dequeue
    <3>3. stopJob' = j
      BY <2>1
    <3> HIDE DEF j
    <3>4. Custody'
      BY <3>1, <3>2, <3>3
    <3>5. Vacant' /\ Reached'
      BY <2>1, <3>1, <3>2, <3>3, PoolAssumption
    <3>6. Lost' /\ Condemned'
      BY <1>2, <2>1 DEF StopDrain
    <3> QED BY <3>4, <3>5, <3>6
  <2>2. CASE queue = <<>> /\ UNCHANGED <<stopJob, queue>> /\ stopPc' = "wait"
    BY <1>2, <2>2, SameQueue DEF StopDrain
  <2> QED BY <1>2, <2>1, <2>2 DEF StopDrain
<1>3. CASE StopDrained
  BY <1>3, SameQueue, PoolAssumption DEF StopDrained, Resolved
<1>4. CASE StopWaited
  BY <1>4, SameQueue DEF StopWaited
<1>5. CASE StopJoined
  BY <1>5, SameQueue DEF StopJoined
<1>6. CASE StorageClose
  BY <1>6, SameQueue DEF StorageClose
<1>7. CASE ProcessEnds
  <2>1. Len(queue') = 0 /\ \A j : ~InQueue(j)'
    BY <1>7 DEF ProcessEnds, InQueue
  <2>2. Custody'
    BY <1>7, <2>1 DEF ProcessEnds
  <2>3. \A j \in Jobs : ~InHand(j)'
    BY <1>7, <2>1, PoolAssumption DEF ProcessEnds
  <2>4. Vacant' /\ Lost' /\ Condemned'
    BY <1>7 DEF ProcessEnds
  <2>5. Reached'
    BY <1>7, <2>3 DEF ProcessEnds
  <2> QED BY <2>2, <2>4, <2>5
<1>8. CASE Restart
  BY <1>8, SameQueue DEF Restart
<1> QED BY <1>1, <1>2, <1>3, <1>4, <1>5, <1>6, <1>7, <1>8 DEF StopStep, Exit, Crash
-----------------------------------------------------------------------------
(* Rows: what the row of a job in hand may say.                            *)

\* The row of a job is queued when the job enters the queue, failed when it does not.
LEMMA SubmitRows ==
  ASSUME IInv, IInv', Places, Places', Rows, NEW j \in Jobs,
         SubmitCall(j) \/ SubmitCommit(j) \/ SubmitPut(j) \/ SubmitReject(j) \/ SubmitRaises(j)
  PROVE  Rows'
<1> USE PoolAssumption DEF IInv, TypeOK, Owned, Accepted, Recorded, Durable, ResultIsDurable,
                           Places, Custody, Vacant, Reached, Lost, Held, InHand, Shutdown,
                           Stopped, LoopRuns, Resumes, StorageOpen, Rows, OpenRows, Open,
                           Saves, Told, Excused, Backed, ResultMatchesRow, AbortedAfterRow,
                           DeadLettersFailed, SavePc, Terminal, InFlight, RowStatus,
                           FutureState, workerVars, cancelVars, stopVars, faultVars
<1>0. \A k \in Jobs : InHand(k) => submit[k] = "accepted"
  BY InHandAccepted
<1>1. CASE SubmitCall(j)
  BY <1>1, SameQueue DEF SubmitCall
<1>2. CASE SubmitCommit(j)
  BY <1>2, SameQueue DEF SubmitCommit, SaveRecord
<1>3. CASE SubmitPut(j)
  <2>1. CASE queue' = Append(queue, j)
    <3>1. ~InQueue(j)
      BY <1>3 DEF SubmitPut, InQueue
    <3>2. \A k : InQueue(k)' <=> InQueue(k) \/ k = j
      BY <2>1, <3>1, Enqueue
    <3>3. OpenRows' /\ Backed'
      BY <1>3, <2>1, <3>2 DEF SubmitPut
    <3>4. Saves'
      BY <1>3, <2>1, <3>2 DEF SubmitPut
    <3>5. Told'
      BY <1>3, <2>1, <3>2 DEF SubmitPut
    <3>6. ResultMatchesRow'
      BY <1>3, <2>1 DEF SubmitPut
    <3>7. AbortedAfterRow' /\ DeadLettersFailed'
      BY <1>3, <2>1 DEF SubmitPut
    <3> QED BY <3>3, <3>4, <3>5, <3>6, <3>7
  <2>2. CASE UNCHANGED <<queue, future>> /\ submit' = [submit EXCEPT ![j] = "full"]
    BY <1>3, <2>2, SameQueue DEF SubmitPut
  <2> QED BY <1>3, <2>1, <2>2 DEF SubmitPut
<1>4. CASE SubmitReject(j)
  <2>1. OpenRows'
    BY <1>0, <1>4, SameQueue DEF SubmitReject
  <2>2. Saves'
    BY <1>4, SameQueue DEF SubmitReject, SaveRecord
  <2>3. Told'
    BY <1>4, SameQueue DEF SubmitReject, SaveRecord
  <2>4. Backed'
    BY <1>4, SameQueue DEF SubmitReject, SaveRecord
  <2>5. ResultMatchesRow'
    BY <1>4, SameQueue DEF SubmitReject, SaveRecord
  <2>6. AbortedAfterRow' /\ DeadLettersFailed'
    BY <1>4, SameQueue DEF SubmitReject, SaveRecord
  <2> QED BY <2>1, <2>2, <2>3, <2>4, <2>5, <2>6
<1>5. CASE SubmitRaises(j)
  <2>0. ~InHand(j) /\ faulty' = faulty \cup {j}
        /\ \A k \in Jobs : k # j => rec'[k] = rec[k]
    BY <1>0, <1>5 DEF SubmitRaises, StorageRaises
  <2>1. OpenRows'
    BY <1>5, <2>0, SameQueue DEF SubmitRaises
  <2>2. Saves'
    BY <1>5, <2>0 DEF SubmitRaises
  <2>3. Told'
    BY <1>5, SameQueue DEF SubmitRaises, SaveRecord, StorageRaises
  <2>4. Backed'
    BY <1>5, SameQueue DEF SubmitRaises, SaveRecord, StorageRaises
  <2>5. ResultMatchesRow'
    BY <1>5, SameQueue DEF SubmitRaises, SaveRecord, StorageRaises
  <2>6. AbortedAfterRow' /\ DeadLettersFailed'
    BY <1>5, SameQueue DEF SubmitRaises, SaveRecord, StorageRaises
  <2> QED BY <2>1, <2>2, <2>3, <2>4, <2>5, <2>6
<1> QED BY <1>1, <1>2, <1>3, <1>4, <1>5

\* mark_record_running touches the row of its own job only.
LEMMA MarkRow ==
  ASSUME IInv, NEW w \in Workers, WorkerMark(w)
  PROVE  /\ \A k \in Jobs : k # wjob[w] => rec'[k] = rec[k]
         /\ \/ rec'[wjob[w]] = rec[wjob[w]]
            \/ rec[wjob[w]] = "queued" /\ rec'[wjob[w]] = "running"
<1>1. wjob[w] \in Jobs /\ rec \in [Jobs -> RowStatus]
  BY DEF IInv, TypeOK, Owned, Accepted, WorkerMark
<1>2. CASE rec' = rec
  BY <1>2
<1>3. CASE rec' = [rec EXCEPT ![wjob[w]] = MarkRecordRunning(@)]
  BY <1>1, <1>3 DEF MarkRecordRunning
<1> QED BY <1>2, <1>3 DEF WorkerMark

\* Each save of a worker finds a row it may close, or one closed for a known reason.
LEMMA WorkerRows ==
  ASSUME IInv, IInv', Places, Places', Rows, NEW w \in Workers,
         WorkerStep(w) \/ WorkerWatchdog(w) \/ WorkerRaises(w)
  PROVE  Rows'
<1> USE PoolAssumption DEF IInv, TypeOK, Owned, Accepted, Recorded, Durable, ResultIsDurable,
                           Places, Custody, Vacant, Reached, Lost, Held, InHand, Shutdown,
                           Stopped, LoopRuns, Resumes, StorageOpen, Rows, OpenRows, Open,
                           Saves, Told, Excused, Backed, ResultMatchesRow, AbortedAfterRow,
                           DeadLettersFailed, SavePc, Terminal, InFlight, RowStatus,
                           FutureState, poolVars, cancelVars, stopVars, faultVars, StartSave,
                           EndIteration
<1>1. CASE WorkerTake(w)
  BY <1>1, Dequeue DEF WorkerTake
<1>2. CASE WorkerLeave(w)
  BY <1>2, SameQueue DEF WorkerLeave
<1>3. CASE WorkerMark(w)
  <2>1. /\ wjob[w] \in Jobs /\ \A v \in Workers : v # w => wjob[v] # wjob[w]
        /\ ~InQueue(wjob[w]) /\ stopJob # wjob[w] /\ submit[wjob[w]] = "accepted"
        /\ Open(wjob[w]) /\ wpc[w] = "mark" /\ ~wdone[w]
    BY <1>3 DEF WorkerMark
  <2>2. /\ wpc' = [wpc EXCEPT ![w] = "exec"]
        /\ UNCHANGED <<queue, wjob, wnew, wdone, submit, stopJob, stopPc, up, future, cancelled,
                       cpc, cjob, faulty, dlq>>
    BY <1>3 DEF WorkerMark
  <2>3. wpc \in [Workers -> WorkerPc] /\ wdone \in [Workers -> BOOLEAN]
        /\ wjob \in [Workers -> Jobs \cup {NoJob}] /\ dlq \subseteq Jobs
    OBVIOUS
  <2>4. \A v \in Workers : /\ wdone[v] => wpc[v] \notin {"get", "exited"}
                           /\ wpc[v] \notin {"get", "exited"} => wjob[v] \in Jobs
    OBVIOUS
  <2> HIDE DEF IInv, Places, TypeOK
  <2>5. /\ \A k \in Jobs : k # wjob[w] => rec'[k] = rec[k]
        /\ \/ rec'[wjob[w]] = rec[wjob[w]]
           \/ rec[wjob[w]] = "queued" /\ rec'[wjob[w]] = "running"
    BY <1>3, MarkRow
  <2>6. \A v \in Workers : v # w =>
          wpc'[v] = wpc[v] /\ (wpc[v] \notin {"get", "exited"} => rec'[wjob[v]] = rec[wjob[v]])
    BY <2>1, <2>2, <2>5, <2>3, <2>4
  <2>7. /\ wpc'[w] = "exec" /\ wjob' = wjob /\ wdone' = wdone /\ wnew' = wnew /\ faulty' = faulty
    BY <2>2, <2>3
  <2>8. OpenRows'
    <3>1. \A k \in Jobs : submit'[k] \in {"put", "full"} => rec'[k] = "queued"
      BY <2>1, <2>2, <2>5
    <3>2. \A k \in Jobs : InQueue(k)' \/ stopJob' = k => Open(k)'
      BY <2>1, <2>2, <2>5, SameQueue
    <3>3. Open(wjob[w])'
      BY <2>1, <2>2, <2>5
    <3>4. \A v \in Workers :
            v # w /\ wpc[v] \in {"mark", "exec", "watchKill", "skipSave", "save", "failSave"}
              /\ ~wdone[v] => Open(wjob[v])'
      BY <2>6, <2>7
    <3> QED BY <3>1, <3>2, <3>3, <3>4, <2>6, <2>7
  <2>9. Saves'
    BY <2>1, <2>6, <2>7, <2>2
  <2>10. Told'
    <3>1. ASSUME NEW v \in Workers, wdone'[v] PROVE rec'[wjob'[v]] = wnew'[v] \/ Excused(wjob[v])'
      <4>1. wdone[v] /\ v # w
        BY <3>1, <2>1, <2>7
      <4>2. rec'[wjob[v]] = rec[wjob[v]]
        <5>1. wpc[v] \notin {"get", "exited"}
          BY <4>1, <2>4
        <5> QED BY <4>1, <5>1, <2>6
      <4>3. rec[wjob[v]] = wnew[v] \/ Excused(wjob[v])
        BY <4>1
      <4>4. Excused(wjob[v]) => Excused(wjob[v])'
        BY <2>2
      <4> QED BY <4>2, <4>3, <4>4, <2>7
    <3>2. \A v \in Workers : wpc'[v] \in SavePc /\ wnew'[v] = "cancelled" => Excused(wjob[v])'
      BY <2>6, <2>7, <2>2
    <3>3. \A k \in Jobs : future'[k] # "none" /\ rec'[k] = "cancelled" => Excused(k)'
      BY <2>1, <2>2, <2>5
    <3>4. \A c \in Cancellers : cpc'[c] \notin {"idle", "done"} => cjob'[c] \in cancelled'
      BY <2>2
    <3> QED BY <3>1, <3>2, <3>3, <3>4, <2>7
  <2>11. Backed'
    BY <2>1, <2>2, <2>3, <2>5, SameQueue
  <2>12. ResultMatchesRow'
    BY <2>1, <2>2, <2>3, <2>5
  <2>13. AbortedAfterRow' /\ DeadLettersFailed'
    BY <2>1, <2>2, <2>3, <2>5
  <2> QED BY <2>8, <2>9, <2>10, <2>11, <2>12, <2>13
<1>4. CASE WorkerReturn(w)
  <2>1. OpenRows'
    BY <1>4, SameQueue DEF WorkerReturn, FinalStatus, OutcomeStatus
  <2>2. Saves'
    BY <1>4, SameQueue DEF WorkerReturn, FinalStatus, OutcomeStatus
  <2>0. /\ wpc[w] = "exec" /\ UNCHANGED <<rec, wjob, cancelled, faulty, stopPc, future, cpc, cjob>>
        /\ wdone' = [wdone EXCEPT ![w] = FALSE]
        /\ wnew' = [wnew EXCEPT ![w] = wnew'[w]] /\ wpc' = [wpc EXCEPT ![w] = wpc'[w]]
    BY <1>4 DEF WorkerReturn
  <2>a. wnew'[w] = "cancelled" => wjob[w] \in cancelled
    BY <1>4 DEF WorkerReturn, FinalStatus, OutcomeStatus, Outcome
  <2>3. Told'
    BY <2>0, <2>a
  <2>4. Backed'
    BY <1>4, SameQueue DEF WorkerReturn, FinalStatus, OutcomeStatus
  <2>5. ResultMatchesRow'
    BY <1>4, SameQueue DEF WorkerReturn, FinalStatus, OutcomeStatus
  <2>6. AbortedAfterRow' /\ DeadLettersFailed'
    BY <1>4, SameQueue DEF WorkerReturn, FinalStatus, OutcomeStatus
  <2> QED BY <2>1, <2>2, <2>3, <2>4, <2>5, <2>6
<1>5. CASE WorkerWatchdog(w)
  BY <1>5, SameQueue DEF WorkerWatchdog
<1>6. CASE WorkerWatchKill(w)
  BY <1>6, SameQueue DEF WorkerWatchKill, KillContainer, FinalStatus
<1>7. CASE WorkerCommit(w)
  <2>1. OpenRows'
    BY <1>7, SameQueue DEF WorkerCommit, SaveRecord
  <2>2. Saves'
    BY <1>7, SameQueue DEF WorkerCommit, SaveRecord
  <2>0. /\ wjob[w] \in Jobs /\ \A v \in Workers : v # w => wjob[v] # wjob[w]
        /\ \A k \in Jobs : k # wjob[w] => rec'[k] = rec[k]
        /\ rec'[wjob[w]] = IF rec[wjob[w]] \in Terminal THEN rec[wjob[w]] ELSE wnew[w]
        /\ wdone' = [wdone EXCEPT ![w] = TRUE] /\ wpc[w] \in SavePc /\ ~wdone[w]
        /\ UNCHANGED <<wpc, wjob, wnew, cancelled, faulty, stopPc, future, cpc, cjob>>
    BY <1>7 DEF WorkerCommit, SaveRecord
  <2>a. rec[wjob[w]] \in Terminal => rec[wjob[w]] = "cancelled" \/ Excused(wjob[w])
    BY <2>0
  <2>b. rec[wjob[w]] = "cancelled" => Excused(wjob[w])
    BY <2>0
  <2>3. Told'
    BY <2>0, <2>a, <2>b
  <2>4. Backed'
    BY <1>7, SameQueue DEF WorkerCommit, SaveRecord
  <2>5. ResultMatchesRow'
    BY <1>7, SameQueue DEF WorkerCommit, SaveRecord
  <2>6. AbortedAfterRow' /\ DeadLettersFailed'
    BY <1>7, SameQueue DEF WorkerCommit, SaveRecord
  <2> QED BY <2>1, <2>2, <2>3, <2>4, <2>5, <2>6
<1>8. CASE WorkerSaved(w)
  BY <1>8, SameQueue DEF WorkerSaved, LoopTop, Resolved
<1>9. CASE WorkerFailSaved(w)
  BY <1>9, SameQueue DEF WorkerFailSaved
<1>10. CASE WorkerDeadLetter(w)
  BY <1>10, SameQueue DEF WorkerDeadLetter, LoopTop, Resolved
<1>11. CASE WorkerRaises(w)
  BY <1>11, SameQueue DEF WorkerRaises, StorageRaises
<1>12. CASE WorkerRecovers(w)
  <2>1. OpenRows'
    BY <1>12, SameQueue DEF WorkerRecovers, Resolved, StorageRaises
  <2>2. Saves'
    BY <1>12, SameQueue DEF WorkerRecovers, Resolved, StorageRaises
  <2>3. Told'
    BY <1>12, SameQueue DEF WorkerRecovers, Resolved, StorageRaises
  <2>4. Backed'
    BY <1>12, SameQueue DEF WorkerRecovers, Resolved, StorageRaises
  <2>5. ResultMatchesRow'
    BY <1>12, SameQueue DEF WorkerRecovers, Resolved, StorageRaises
  <2>6. AbortedAfterRow' /\ DeadLettersFailed'
    BY <1>12, SameQueue DEF WorkerRecovers, Resolved, StorageRaises
  <2> QED BY <2>1, <2>2, <2>3, <2>4, <2>5, <2>6
<1>13. CASE WorkerWakes(w)
  BY <1>13, SameQueue DEF WorkerWakes, LoopTop
<1>14. CASE WorkerCancelled(w)
  <2>1. OpenRows'
    BY <1>14, SameQueue DEF WorkerCancelled, LoopTop
  <2>0. /\ stopPc \in {"closing", "closed"}
        /\ UNCHANGED <<rec, future, cancelled, faulty, stopPc, cpc, cjob>>
    BY <1>14 DEF WorkerCancelled, Condemned
  <2>a. \/ /\ wpc' = [wpc EXCEPT ![w] = "cancelSave"] /\ wnew' = [wnew EXCEPT ![w] = "cancelled"]
           /\ wdone' = [wdone EXCEPT ![w] = FALSE] /\ wjob' = wjob
        \/ /\ wpc' = [wpc EXCEPT ![w] = "exited"] /\ wnew' = [wnew EXCEPT ![w] = "failed"]
           /\ wdone' = [wdone EXCEPT ![w] = FALSE] /\ wjob' = [wjob EXCEPT ![w] = NoJob]
    BY <1>14, <2>0 DEF WorkerCancelled, LoopTop
  <2>2. Saves'
    <3>1. wpc \in [Workers -> WorkerPc] /\ wjob \in [Workers -> Jobs \cup {NoJob}]
          /\ wnew \in [Workers -> Terminal] /\ wdone \in [Workers -> BOOLEAN]
      OBVIOUS
    <3> HIDE DEF IInv, Places
    <3> QED BY <2>0, <2>a, <3>1
  <2>3. Told'
    BY <2>0, <2>a
  <2>4. Backed'
    BY <2>0
  <2>5. ResultMatchesRow'
    BY <1>14, SameQueue DEF WorkerCancelled, LoopTop
  <2>6. AbortedAfterRow' /\ DeadLettersFailed'
    BY <1>14, SameQueue DEF WorkerCancelled, LoopTop
  <2> QED BY <2>1, <2>2, <2>3, <2>4, <2>5, <2>6
<1> QED BY <1>1, <1>2, <1>3, <1>4, <1>5, <1>6, <1>7, <1>8, <1>9, <1>10, <1>11, <1>12, <1>13,
   <1>14 DEF WorkerStep

\* Threads write no row.
LEMMA ThreadRows ==
  ASSUME IInv, IInv', Places, Places', Rows, NEW j \in Jobs, ThreadStep(j) PROVE Rows'
BY SameQueue DEF ThreadStep, ThreadStart, ThreadFinish, poolVars, workerVars, cancelVars,
                 stopVars, faultVars, IInv, TypeOK, Owned, Accepted, Recorded, Durable,
                 ResultIsDurable, Places, Custody, Vacant, Reached, Lost, Held, InHand,
                 Shutdown, Stopped, LoopRuns, Resumes, StorageOpen, Rows, OpenRows, Open,
                 Saves, Told, Excused, Backed, ResultMatchesRow, AbortedAfterRow,
                 DeadLettersFailed, SavePc, Terminal, InFlight, RowStatus, FutureState

\* cancel() flags the job before it writes the row.
LEMMA CancelRows ==
  ASSUME IInv, IInv', Places, Places', Rows, NEW c \in Cancellers,
         CancelStep(c) \/ CancelRaises(c) \/ \E j \in Jobs : CancelCall(c, j)
  PROVE  Rows'
<1> USE SameQueue, PoolAssumption
        DEF IInv, TypeOK, Owned, Accepted, Recorded, Durable, ResultIsDurable, Places, Custody,
            Vacant, Reached, Lost, Held, InHand, Shutdown, Stopped, LoopRuns, Resumes,
            StorageOpen, Rows, OpenRows, Open, Saves, Told, Excused, Backed, ResultMatchesRow,
            AbortedAfterRow, DeadLettersFailed, SavePc, Terminal, InFlight, RowStatus,
            FutureState, poolVars, workerVars, stopVars, faultVars
<1>1. CASE CancelCommit(c)
  BY <1>1 DEF CancelCommit, SaveRecord
<1>2. CASE CancelSaved(c)
  BY <1>2 DEF CancelSaved, Resolved
<1>3. CASE CancelRaises(c)
  BY <1>3 DEF CancelRaises, StorageRaises
<1>4. CASE CancelKill(c)
  BY <1>4 DEF CancelKill, KillContainer
<1>5. CASE CancelSignalled(c)
  BY <1>5 DEF CancelSignalled
<1>6. ASSUME NEW j \in Jobs, CancelCall(c, j) PROVE Rows'
  BY <1>6 DEF CancelCall
<1> QED BY <1>1, <1>2, <1>3, <1>4, <1>5, <1>6 DEF CancelStep

\* The drain of stop() and the reconciliation of a restart close what they find open.
LEMMA ProcessRows ==
  ASSUME IInv, IInv', Places, Places', Rows, StopCall \/ StopStep \/ Crash \/ Restart PROVE Rows'
<1> USE PoolAssumption DEF IInv, TypeOK, Owned, Accepted, Recorded, Durable, ResultIsDurable,
                           Places, Custody, Vacant, Reached, Lost, Held, InHand, Shutdown,
                           Stopped, LoopRuns, Resumes, StorageOpen, Rows, OpenRows, Open,
                           Saves, Told, Excused, Backed, ResultMatchesRow, AbortedAfterRow,
                           DeadLettersFailed, SavePc, Terminal, InFlight, RowStatus,
                           FutureState, poolVars, workerVars, cancelVars, stopVars, faultVars
<1>1. CASE StopCall
  BY <1>1, SameQueue DEF StopCall
<1>2. CASE StopDrain
  BY <1>2, Dequeue, SameQueue DEF StopDrain
<1>3. CASE StopDrained
  <2>0. /\ stopPc = "drainSave" /\ stopJob \in Jobs /\ rec[stopJob] \in RowStatus
        /\ \A k \in Jobs : k # stopJob => rec'[k] = rec[k]
        /\ rec'[stopJob] = rec[stopJob] \/ rec'[stopJob] = "cancelled"
        /\ faulty \subseteq faulty' /\ stopJob' = NoJob
        /\ UNCHANGED <<submit, queue, wpc, wdone, wjob, wnew>>
    BY <1>3 DEF StopDrained, StorageRaises, SaveRecord
  <2>a. \A w \in Workers : wjob[w] # stopJob
    BY <2>0
  <2>1. OpenRows'
    <3>1. submit[stopJob] = "accepted" /\ ~InQueue(stopJob)
      BY <2>0, InHandAccepted
    <3>2. \A k \in Jobs : submit'[k] \in {"put", "full"} => rec'[k] = "queued"
      BY <2>0, <3>1
    <3>3. \A k \in Jobs : InQueue(k)' \/ stopJob' = k => Open(k)'
      BY <2>0, <3>1, SameQueue
    <3>4. wjob \in [Workers -> Jobs \cup {NoJob}]
          /\ \A w \in Workers : wpc[w] \notin {"get", "exited"} => wjob[w] \in Jobs
      OBVIOUS
    <3> HIDE DEF IInv, Places
    <3> QED BY <2>0, <2>a, <3>2, <3>3, <3>4
  <2>2. Saves'
    BY <1>3, <2>0, <2>a DEF StopDrained
  <2>3. Told'
    BY <1>3, SameQueue DEF StopDrained, Resolved, StorageRaises, SaveRecord
  <2>4. Backed'
    BY <1>3, SameQueue DEF StopDrained, Resolved, StorageRaises, SaveRecord
  <2>5. ResultMatchesRow'
    BY <1>3, SameQueue DEF StopDrained, Resolved, StorageRaises, SaveRecord
  <2>6. AbortedAfterRow' /\ DeadLettersFailed'
    BY <1>3, SameQueue DEF StopDrained, Resolved, StorageRaises, SaveRecord
  <2> QED BY <2>1, <2>2, <2>3, <2>4, <2>5, <2>6
<1>4. CASE StopWaited
  BY <1>4, SameQueue DEF StopWaited
<1>5. CASE StopJoined
  BY <1>5, SameQueue DEF StopJoined
<1>6. CASE StorageClose
  BY <1>6, SameQueue DEF StorageClose
<1>7. CASE ProcessEnds
  BY <1>7 DEF ProcessEnds, InQueue
<1>8. CASE Restart
  <2>0. /\ \A k \in Jobs : ~InQueue(k)' /\ submit'[k] \notin {"put", "full"}
        /\ \A w \in Workers : wpc'[w] = "get"
        /\ stopJob' = NoJob
    BY <1>8 DEF Restart, InQueue
  <2>1. OpenRows'
    BY <2>0
  <2>2. Saves'
    BY <1>8, SameQueue DEF Restart, ReconcileStale
  <2>3. Told'
    BY <1>8, SameQueue DEF Restart, ReconcileStale
  <2>4. Backed'
    BY <1>8, SameQueue DEF Restart, ReconcileStale
  <2>5. ResultMatchesRow'
    BY <1>8, SameQueue DEF Restart, ReconcileStale
  <2>6. AbortedAfterRow' /\ DeadLettersFailed'
    BY <1>8, SameQueue DEF Restart, ReconcileStale
  <2> QED BY <2>1, <2>2, <2>3, <2>4, <2>5, <2>6
<1> QED BY <1>1, <1>2, <1>3, <1>4, <1>5, <1>6, <1>7, <1>8 DEF StopStep, Exit, Crash

-----------------------------------------------------------------------------
(* Entries: what the dictionaries and the future say of a job.             *)

\* A job enters the queue, _active_jobs and its future in one stretch of code.
LEMMA SubmitEntries ==
  ASSUME IInv, IInv', Places, Places', Entries, NEW j \in Jobs,
         SubmitCall(j) \/ SubmitCommit(j) \/ SubmitPut(j) \/ SubmitReject(j) \/ SubmitRaises(j)
  PROVE  Entries'
<1> USE PoolAssumption DEF IInv, TypeOK, Owned, Accepted, Places, Custody, Vacant, Reached,
                           Lost, Condemned, Held, InHand, Shutdown, LoopRuns, Resumes, Entries,
                           Waiting, Tracked, Released, NoStrandedEntry, WaiterServed, Terminal,
                           workerVars, cancelVars, stopVars, faultVars
<1>1. CASE SubmitCall(j)
  BY <1>1, SameQueue DEF SubmitCall
<1>2. CASE SubmitCommit(j)
  BY <1>2, SameQueue DEF SubmitCommit
<1>3. CASE SubmitPut(j)
  <2>0. ~InHand(j) /\ j \notin running /\ j \notin cancelled /\ stopJob # j
        /\ \A c \in Cancellers : cpc[c] \in {"save", "saved"} => cjob[c] # j
    <3>1. ~InHand(j)
      <4> HIDE DEF IInv, Vacant, Places, InHand
      <4> QED BY <1>3, InHandAccepted DEF SubmitPut, Places
    <3>2. j \notin cancelled /\ future[j] = "none"
      BY <1>3 DEF SubmitPut
    <3>3. j \notin running
      BY <3>1, <3>2
    <3>4. \A c \in Cancellers : cpc[c] \in {"save", "saved"} => cjob[c] # j
      BY <1>3 DEF SubmitPut
    <3> QED BY <3>1, <3>2, <3>3, <3>4
  <2>1. Waiting'
    <3>1. CASE queue' = Append(queue, j)
      <4>1. \A k : InQueue(k)' <=> InQueue(k) \/ k = j
        BY <2>0, <3>1, Enqueue
      <4> QED BY <1>3, <2>0, <3>1, <4>1 DEF SubmitPut
    <3>2. CASE UNCHANGED <<queue, future, active>> /\ submit' = [submit EXCEPT ![j] = "full"]
      BY <1>3, <3>2, SameQueue DEF SubmitPut
    <3> QED BY <1>3, <3>1, <3>2 DEF SubmitPut
  <2>2. Tracked'
    BY <1>3, SameQueue, Enqueue DEF SubmitPut
  <2>3. Released'
    BY <1>3, SameQueue, Enqueue DEF SubmitPut
  <2>4. NoStrandedEntry'
    BY <1>3, SameQueue, Enqueue DEF SubmitPut
  <2>5. WaiterServed'
    BY <1>3, SameQueue, Enqueue DEF SubmitPut
  <2> QED BY <2>1, <2>2, <2>3, <2>4, <2>5
<1>4. CASE SubmitReject(j)
  BY <1>4, SameQueue DEF SubmitReject
<1>5. CASE SubmitRaises(j)
  BY <1>5, SameQueue DEF SubmitRaises
<1> QED BY <1>1, <1>2, <1>3, <1>4, <1>5

\* An iteration resolves the future before its `finally` forgets the job, unless stop()
\* cancelled the task.
LEMMA WorkerEntries ==
  ASSUME IInv, IInv', Places, Places', Entries, NEW w \in Workers,
         WorkerStep(w) \/ WorkerWatchdog(w) \/ WorkerRaises(w)
  PROVE  Entries'
<1> USE PoolAssumption DEF IInv, TypeOK, Owned, Accepted, Places, Custody, Vacant, Reached,
                           Lost, Condemned, Held, InHand, Shutdown, LoopRuns, Resumes, Entries,
                           Waiting, Tracked, Released, NoStrandedEntry, WaiterServed, Terminal,
                           poolVars, cancelVars, stopVars, faultVars
<1>1. CASE WorkerTake(w)
  BY <1>1, Dequeue DEF WorkerTake, StartSave
<1>2. CASE WorkerLeave(w)
  BY <1>2, SameQueue DEF WorkerLeave
<1>3. CASE WorkerMark(w)
  BY <1>3, SameQueue DEF WorkerMark
<1>4. CASE WorkerReturn(w)
  BY <1>4, SameQueue DEF WorkerReturn, StartSave
<1>5. CASE WorkerWatchdog(w)
  BY <1>5, SameQueue DEF WorkerWatchdog
<1>6. CASE WorkerWatchKill(w)
  BY <1>6, SameQueue DEF WorkerWatchKill, StartSave
<1>7. CASE WorkerCommit(w)
  BY <1>7, SameQueue DEF WorkerCommit, SavePc
<1>8. CASE WorkerSaved(w)
  BY <1>8, SameQueue DEF WorkerSaved, EndIteration, Resolved, LoopTop
<1>9. CASE WorkerFailSaved(w)
  BY <1>9, SameQueue DEF WorkerFailSaved
<1>10. CASE WorkerDeadLetter(w)
  BY <1>10, SameQueue DEF WorkerDeadLetter, EndIteration, Resolved, LoopTop
<1>11. CASE WorkerRaises(w)
  BY <1>11, SameQueue DEF WorkerRaises, StartSave, SavePc
<1>12. CASE WorkerRecovers(w)
  BY <1>12, SameQueue DEF WorkerRecovers, Resolved
<1>13. CASE WorkerWakes(w)
  BY <1>13, SameQueue DEF WorkerWakes, EndIteration, LoopTop
<1>14. CASE WorkerCancelled(w)
  BY <1>14, SameQueue DEF WorkerCancelled, EndIteration, LoopTop, StartSave
<1> QED BY <1>1, <1>2, <1>3, <1>4, <1>5, <1>6, <1>7, <1>8, <1>9, <1>10, <1>11, <1>12, <1>13,
   <1>14 DEF WorkerStep

\* Threads touch neither dictionaries nor futures.
LEMMA ThreadEntries ==
  ASSUME IInv, IInv', Places, Places', Entries, NEW j \in Jobs, ThreadStep(j)
  PROVE  Entries'
<1> USE PoolAssumption DEF IInv, TypeOK, Owned, Accepted, Places, Custody, Vacant, Reached,
                           Lost, Condemned, Held, InHand, Shutdown, LoopRuns, Resumes, Entries,
                           Waiting, Tracked, Released, NoStrandedEntry, WaiterServed, Terminal,
                           poolVars, workerVars, cancelVars, stopVars, faultVars
<1>1. CASE ThreadStart(j)
  BY <1>1, SameQueue DEF ThreadStart
<1>2. CASE ThreadFinish(j)
  BY <1>2, SameQueue DEF ThreadFinish
<1> QED BY <1>1, <1>2 DEF ThreadStep

\* cancel() takes a waiting job out of _active_jobs before it tells the waiters.
LEMMA CancelEntries ==
  ASSUME IInv, IInv', Places, Places', Entries, NEW c \in Cancellers,
         CancelStep(c) \/ CancelRaises(c) \/ \E j \in Jobs : CancelCall(c, j)
  PROVE  Entries'
<1> USE PoolAssumption DEF IInv, TypeOK, Owned, Accepted, Places, Custody, Vacant, Reached,
                           Lost, Condemned, Held, InHand, Shutdown, LoopRuns, Resumes, Entries,
                           Waiting, Tracked, Released, NoStrandedEntry, WaiterServed, Terminal,
                           poolVars, workerVars, stopVars, faultVars
<1>1. CASE CancelCommit(c)
  BY <1>1, SameQueue DEF CancelCommit
<1>2. CASE CancelSaved(c)
  BY <1>2, SameQueue DEF CancelSaved, Resolved
<1>3. CASE CancelRaises(c)
  BY <1>3, SameQueue DEF CancelRaises
<1>4. CASE CancelKill(c)
  BY <1>4, SameQueue DEF CancelKill
<1>5. CASE CancelSignalled(c)
  BY <1>5, SameQueue DEF CancelSignalled
<1>6. ASSUME NEW j \in Jobs, CancelCall(c, j) PROVE Entries'
  BY <1>6, SameQueue DEF CancelCall
<1> QED BY <1>1, <1>2, <1>3, <1>4, <1>5, <1>6 DEF CancelStep

\* stop() answers the jobs it drains and clears the dictionaries last.
LEMMA ProcessEntries ==
  ASSUME IInv, IInv', Places, Places', Entries, StopCall \/ StopStep \/ Crash \/ Restart
  PROVE  Entries'
<1> USE PoolAssumption DEF IInv, TypeOK, Owned, Accepted, Places, Custody, Vacant, Reached,
                           Lost, Condemned, Held, InHand, Shutdown, LoopRuns, Resumes, Entries,
                           Waiting, Tracked, Released, NoStrandedEntry, WaiterServed, Terminal,
                           poolVars, workerVars, cancelVars, stopVars, faultVars
<1>1. CASE StopCall
  BY <1>1, SameQueue DEF StopCall
<1>2. CASE StopDrain
  BY <1>2, SameQueue, Dequeue DEF StopDrain
<1>3. CASE StopDrained
  BY <1>3, SameQueue DEF StopDrained, Resolved
<1>4. CASE StopWaited
  BY <1>4, SameQueue DEF StopWaited
<1>5. CASE StopJoined
  BY <1>5, SameQueue DEF StopJoined
<1>6. CASE StorageClose
  BY <1>6, SameQueue DEF StorageClose
<1>7. CASE ProcessEnds
  BY <1>7, PoolAssumption DEF ProcessEnds, InQueue
<1>8. CASE Restart
  BY <1>8, SameQueue DEF Restart
<1> QED BY <1>1, <1>2, <1>3, <1>4, <1>5, <1>6, <1>7, <1>8 DEF StopStep, Exit, Crash
-----------------------------------------------------------------------------
(* The layers together.                                                    *)

CInv == IInv /\ Places /\ Rows /\ Entries

\* The pool starts with every layer in place.
LEMMA InitCustody == Init => CInv
<1> SUFFICES ASSUME Init PROVE CInv
  OBVIOUS
<1>1. IInv
  BY InitInv
<1>2. Len(queue) = 0 /\ \A j : ~InQueue(j)
  BY DEF Init, InQueue
<1>3. Places
  BY <1>2, PoolAssumption
     DEF Init, Places, Custody, Vacant, Reached, Lost, Condemned, Held, InHand
<1>4. Rows
  BY <1>2, PoolAssumption
     DEF Init, Rows, OpenRows, Open, Saves, Told, Backed, InFlight, SavePc, Terminal,
         ResultMatchesRow, AbortedAfterRow, DeadLettersFailed
<1>5. Entries
  BY <1>2, PoolAssumption
     DEF Init, Entries, Waiting, Tracked, Released, NoStrandedEntry, WaiterServed
<1> QED BY <1>1, <1>3, <1>4, <1>5 DEF CInv

\* A step that changes nothing leaves every layer as it is.
LEMMA StutterCustody == CInv /\ UNCHANGED vars => CInv'
<1> SUFFICES ASSUME CInv, UNCHANGED vars PROVE CInv'
  OBVIOUS
<1> USE SameQueue DEF CInv, vars, poolVars, workerVars, cancelVars, stopVars, faultVars
<1>1. IInv'
  BY NextInv
<1>2. Places'
  BY DEF Places, Custody, Vacant, Reached, Lost, Condemned, Held, InHand
<1>3. Rows'
  BY DEF Rows, OpenRows, Open, Saves, Told, Backed, Excused, Shutdown, Stopped, Held, InHand,
         ResultMatchesRow, AbortedAfterRow, DeadLettersFailed
<1>4. Entries'
  BY DEF Entries, Waiting, Tracked, Released, NoStrandedEntry, WaiterServed, Shutdown, Held
<1> QED BY <1>1, <1>2, <1>3, <1>4

\* Every step preserves every layer, each on top of those before it.
LEMMA NextCustody == CInv /\ [Next]_vars => CInv'
<1> SUFFICES ASSUME CInv, [Next]_vars PROVE CInv'
  OBVIOUS
<1>i. IInv /\ IInv' /\ Places /\ Rows /\ Entries
  BY NextInv DEF CInv
<1>1. CASE \E j \in Jobs : SubmitCall(j) \/ SubmitStep(j) \/ SubmitRaises(j)
  BY <1>1, <1>i, SubmitPlaces, SubmitRows, SubmitEntries DEF SubmitStep, CInv
<1>2. CASE \E j \in Jobs : ThreadStep(j)
  BY <1>2, <1>i, ThreadPlaces, ThreadRows, ThreadEntries DEF CInv
<1>3. CASE \E w \in Workers : WorkerStep(w) \/ WorkerWatchdog(w) \/ WorkerRaises(w)
  BY <1>3, <1>i, WorkerPlaces, WorkerRows, WorkerEntries DEF CInv
<1>4. CASE \E c \in Cancellers :
             CancelStep(c) \/ CancelRaises(c) \/ \E j \in Jobs : CancelCall(c, j)
  BY <1>4, <1>i, CancelPlaces, CancelRows, CancelEntries DEF CInv
<1>5. CASE StopCall \/ StopStep \/ Crash \/ Restart
  BY <1>5, <1>i, ProcessPlaces, ProcessRows, ProcessEntries DEF CInv
<1>6. CASE UNCHANGED vars
  BY <1>6, StutterCustody
<1> QED BY <1>1, <1>2, <1>3, <1>4, <1>5, <1>6 DEF Next

\* The layers hold together in every reachable state of the pool.
LEMMA CustodyInvariant == Spec => []CInv
  BY InitCustody, NextCustody, PTL DEF Spec

\* No job is lost or duplicated between submit(), the queue, the workers and the
\* drain of stop(), for any number of each.
THEOREM JobsInOnePlace == Spec => []SingleCustody
<1>1. CInv => SingleCustody
  BY DEF CInv, IInv, TypeOK, Owned, Accepted, Places, Custody, SingleCustody, InQueue
<1> QED BY CustodyInvariant, <1>1, PTL

\* While the process runs, a queued or running row belongs to a job that submit(),
\* the queue, a worker or stop() still has, unless a storage call for it failed.
THEOREM RowsAreBacked == Spec => []RowBacked
<1>1. CInv => RowBacked
  BY DEF CInv, Rows, Backed, Stopped, InHand, RowBacked
<1> QED BY CustodyInvariant, <1>1, PTL

\* What the waiters of a job are told is what its row says, but for cancellation,
\* a failed storage call and shutdown.
THEOREM WaitersAreToldTheRow == Spec => []ResultMatchesRow
<1>1. CInv => ResultMatchesRow
  BY DEF CInv, Rows
<1> QED BY CustodyInvariant, <1>1, PTL

\* A future is cancelled only when the row of its job is terminal, or the storage
\* call that was to make it so has failed.
THEOREM RowBeforeAbort == Spec => []AbortedAfterRow
<1>1. CInv => AbortedAfterRow
  BY DEF CInv, Rows
<1> QED BY CustodyInvariant, <1>1, PTL

\* A dead letter has a failed row, or one that a cancel request closed first, or
\* one that a storage call failed for.
THEOREM DeadLettersAreFailures == Spec => []DeadLettersFailed
<1>1. CInv => DeadLettersFailed
  BY DEF CInv, Rows
<1> QED BY CustodyInvariant, <1>1, PTL

\* No iteration of a worker leaves its job in a dictionary.
THEOREM NothingStranded == Spec => []NoStrandedEntry
<1>1. CInv => NoStrandedEntry
  BY DEF CInv, Entries
<1> QED BY CustodyInvariant, <1>1, PTL

\* An unfinished future always belongs to a job that somebody will finish.
THEOREM WaitersServed == Spec => []WaiterServed
<1>1. CInv => WaiterServed
  BY DEF CInv, Entries
<1> QED BY CustodyInvariant, <1>1, PTL
-----------------------------------------------------------------------------
(* What a step may never do.                                               *)

\* A job flagged before a worker took it is not handed to a worker or a thread.
LEMMA FlaggedStaysOut ==
  ASSUME CInv, Next, NEW j \in Jobs, j \in cancelled, j \notin running, thread[j] = "none"
  PROVE  j \notin running' /\ thread'[j] = "none"
<1> USE DEF CInv, IInv, TypeOK
<1>1. ASSUME NEW w \in Workers, WorkerTake(w) PROVE j \notin running' /\ UNCHANGED thread
  BY <1>1 DEF WorkerTake
<1>2. ASSUME NEW w \in Workers, WorkerMark(w) PROVE UNCHANGED running /\ thread'[j] = "none"
  <2>1. wjob[w] \in running
    BY <1>2 DEF WorkerMark, Resumes, Entries, Tracked
  <2> QED BY <1>2, <2>1 DEF WorkerMark, poolVars
<1>3. ASSUME NEW w \in Workers,
             WorkerLeave(w) \/ WorkerReturn(w) \/ WorkerCommit(w) \/ WorkerFailSaved(w)
             \/ WorkerRecovers(w) \/ WorkerRaises(w)
      PROVE  UNCHANGED <<running, thread>>
  BY <1>3 DEF WorkerLeave, WorkerReturn, WorkerCommit, WorkerFailSaved, WorkerRecovers,
     WorkerRaises, poolVars
<1>4. ASSUME NEW w \in Workers,
             WorkerSaved(w) \/ WorkerDeadLetter(w) \/ WorkerWakes(w) \/ WorkerCancelled(w)
      PROVE  running' \subseteq running /\ UNCHANGED thread
  BY <1>4 DEF WorkerSaved, WorkerDeadLetter, WorkerWakes, WorkerCancelled, EndIteration
<1>5. ASSUME NEW w \in Workers, WorkerWatchdog(w) \/ WorkerWatchKill(w)
      PROVE  UNCHANGED running /\ thread'[j] = "none"
  BY <1>5 DEF WorkerWatchdog, WorkerWatchKill, KillContainer, poolVars
<1>6. ASSUME NEW k \in Jobs, ThreadStep(k) PROVE UNCHANGED running /\ thread'[j] = "none"
  BY <1>6 DEF ThreadStep, ThreadStart, ThreadFinish, poolVars
<1>7. ASSUME NEW k \in Jobs, SubmitCall(k) \/ SubmitStep(k) \/ SubmitRaises(k)
      PROVE  UNCHANGED <<running, thread>>
  BY <1>7 DEF SubmitStep, SubmitCall, SubmitCommit, SubmitPut, SubmitReject, SubmitRaises
<1>8. ASSUME NEW c \in Cancellers,
             CancelStep(c) \/ CancelRaises(c) \/ \E k \in Jobs : CancelCall(c, k)
      PROVE  UNCHANGED running /\ thread'[j] = "none"
  BY <1>8 DEF CancelStep, CancelCommit, CancelSaved, CancelKill, CancelSignalled, CancelRaises,
     CancelCall, KillContainer, poolVars
<1>9. ASSUME StopCall \/ StopStep \/ Crash \/ Restart
      PROVE  running' \subseteq running /\ thread'[j] = "none"
  BY <1>9 DEF StopCall, StopStep, StopDrain, StopDrained, StopWaited, StopJoined, StorageClose,
     Exit, Crash, Restart, ProcessEnds, poolVars
<1> QED BY <1>1, <1>2, <1>3, <1>4, <1>5, <1>6, <1>7, <1>8, <1>9 DEF Next, WorkerStep

\* A job cancelled while it waited is never executed, however cancel(), the worker
\* that takes it and the shutdown interleave.
THEOREM CancelledNeverRuns == Spec => CancelledBeforeStartNeverRuns
<1>1. CInv /\ [Next]_vars
        => [\A j \in Jobs : j \in cancelled /\ j \notin running /\ thread[j] = "none"
                              => j \notin running' /\ thread'[j] = "none"]_vars
  BY FlaggedStaysOut
<1> QED BY CustodyInvariant, <1>1, PTL DEF Spec, CancelledBeforeStartNeverRuns

\* Before shutdown the dictionaries hide a row only while its job is unfinished.
LEMMA DictionariesUnfinished ==
  ASSUME CInv, ~Shutdown, NEW j \in active \ running PROVE future[j] = "pending"
<1>1. j \in Jobs
  BY DEF CInv, IInv, TypeOK
<1>2. InQueue(j) \/ Held(j)
  BY DEF CInv, Entries, NoStrandedEntry
<1>3. ~Held(j)
  BY <1>1, PoolAssumption DEF CInv, Entries, Tracked, Held
<1> QED BY <1>1, <1>2, <1>3 DEF CInv, Entries, Waiting

\* A job with a final row that no dictionary knows stays out of both.
LEMMA FinishedStaysOut ==
  ASSUME CInv, Next, ~Shutdown, ~Shutdown', up', NEW j \in Jobs,
         rec[j] \in Terminal, j \notin active, j \notin running
  PROVE  j \notin active' /\ j \notin running'
<1> USE DEF CInv, IInv, TypeOK
<1>1. ASSUME NEW w \in Workers, WorkerTake(w) PROVE j \notin active' /\ j \notin running'
  <2>1. queue # <<>> /\ InQueue(Head(queue)) /\ Head(queue) \in Jobs
    BY <1>1, HeadTail DEF WorkerTake, InQueue
  <2>2. Head(queue) = j => j \in cancelled
    BY <2>1 DEF Entries, Waiting
  <2> QED BY <1>1, <2>2 DEF WorkerTake
<1>2. ASSUME NEW k \in Jobs, SubmitPut(k) PROVE j \notin active' /\ j \notin running'
  <2>1. k # j
    BY <1>2 DEF SubmitPut, Rows, OpenRows, Terminal
  <2> QED BY <1>2, <2>1 DEF SubmitPut
<1>3. ASSUME NEW k \in Jobs,
             SubmitCall(k) \/ SubmitCommit(k) \/ SubmitReject(k) \/ SubmitRaises(k) \/ ThreadStep(k)
      PROVE  UNCHANGED <<active, running>>
  BY <1>3 DEF SubmitCall, SubmitCommit, SubmitReject, SubmitRaises, ThreadStep, ThreadStart,
     ThreadFinish, poolVars
<1>4. ASSUME NEW w \in Workers,
             \/ WorkerLeave(w) \/ WorkerMark(w) \/ WorkerReturn(w) \/ WorkerWatchKill(w)
             \/ WorkerCommit(w) \/ WorkerSaved(w) \/ WorkerFailSaved(w) \/ WorkerDeadLetter(w)
             \/ WorkerRecovers(w) \/ WorkerWakes(w) \/ WorkerCancelled(w) \/ WorkerWatchdog(w)
             \/ WorkerRaises(w)
      PROVE  active' \subseteq active /\ running' \subseteq running
  BY <1>4 DEF WorkerLeave, WorkerMark, WorkerReturn, WorkerWatchKill, WorkerCommit, WorkerSaved,
     WorkerFailSaved, WorkerDeadLetter, WorkerRecovers, WorkerWakes, WorkerCancelled,
     WorkerWatchdog, WorkerRaises, EndIteration, poolVars
<1>5. ASSUME NEW c \in Cancellers,
             CancelStep(c) \/ CancelRaises(c) \/ \E k \in Jobs : CancelCall(c, k)
      PROVE  active' \subseteq active /\ running' \subseteq running
  BY <1>5 DEF CancelStep, CancelCommit, CancelSaved, CancelKill, CancelSignalled, CancelRaises,
     CancelCall, poolVars
<1>6. ASSUME StopCall \/ StopStep \/ Crash \/ Restart
      PROVE  active' \subseteq active /\ running' \subseteq running
  BY <1>6 DEF StopCall, StopStep, StopDrain, StopDrained, StopWaited, StopJoined, StorageClose,
     Exit, Crash, Restart, ProcessEnds, poolVars
<1> QED BY <1>1, <1>2, <1>3, <1>4, <1>5, <1>6 DEF Next, WorkerStep, SubmitStep

\* A client that polled a final status never polls another one afterwards.
THEOREM PolledStatusIsFinal == Spec => ReportedStatusIsFinal
<1>1. ASSUME CInv, [Next]_vars, [\A j \in Jobs : rec[j] \in Terminal => rec'[j] = rec[j]]_rec,
             NEW j \in Jobs, ReportedStatus(j) \in Terminal, up, up', ~Shutdown
      PROVE  ReportedStatus(j)' = ReportedStatus(j) \/ Shutdown'
  <2> SUFFICES ASSUME ~Shutdown', Next PROVE ReportedStatus(j)' = ReportedStatus(j)
    BY <1>1 DEF vars, poolVars, ReportedStatus
  <2>1. j \notin active /\ j \notin running /\ ReportedStatus(j) = rec[j]
    BY <1>1, DictionariesUnfinished DEF ReportedStatus, Terminal
  <2>2. rec'[j] = rec[j]
    BY <1>1, <2>1
  <2>3. j \notin active' /\ j \notin running'
    BY <1>1, <2>1, FinishedStaysOut
  <2> QED BY <2>1, <2>2, <2>3 DEF ReportedStatus
<1>2. CInv /\ [Next]_vars /\ [\A j \in Jobs : rec[j] \in Terminal => rec'[j] = rec[j]]_rec
        => [\A j \in Jobs : ReportedStatus(j) \in Terminal /\ up /\ up' /\ ~Shutdown
                              => ReportedStatus(j)' = ReportedStatus(j) \/ Shutdown']_vars
  BY <1>1
<1> QED BY CustodyInvariant, TerminalForever, <1>2, PTL
        DEF Spec, TerminalIsFinal, ReportedStatusIsFinal
=============================================================================
