-------------------------- MODULE IdempotentSubmit --------------------------
(***************************************************************************)
(* POST /execute/async with one idempotency key: the retry loop of the     *)
(* SDK's submit_code, the per-key lock of IdempotencyLockManager, the      *)
(* lookup-then-submit of _submit_async_job, and the rows it leaves in      *)
(* execution_records.  Requests with other keys use other locks and other  *)
(* rows; all they share with these is the job queue, which is full or not  *)
(* by choice.                                                              *)
(*                                                                         *)
(* A request is one HTTP attempt.  Its handler keeps running when the      *)
(* client gives up on it.  As in WorkerPool, an action is the code of the  *)
(* event loop from one await to the next.  The names of requests also      *)
(* name the job id a request creates and the asyncio.Lock it creates.      *)
(***************************************************************************)
EXTENDS Naturals, FiniteSets, ExecutionRecords

CONSTANTS
  Clients,      \* callers of submit_code with the same key
  MaxAttempts,  \* SUBMIT_MAX_ATTEMPTS
  Payloads,     \* request bodies that idempotency fingerprints tell apart
  None,         \* Python's None
  MaxFaults,    \* bound: how many storage calls may fail
  MaxBoots      \* bound: how many times the process may crash

Requests == Clients \X (1..MaxAttempts)

ASSUME SubmitAssumption ==
  /\ IsFiniteSet(Clients)
  /\ MaxAttempts \in Nat /\ MaxFaults \in Nat /\ MaxBoots \in Nat
  /\ None \notin Requests

VARIABLES
  payload,   \* what each client submits
  tries,     \* requests each client has sent
  mode,      \* the client's loop
  pc,        \* await at which the handler of each request is suspended
  code,      \* status code of its HTTP response, 0 before there is one
  job,       \* job id in its response
  entry,     \* _locks.get(key)
  waiters,   \* _waiters.get(key, 0)
  lock,      \* the local variable `lock` of each acquire()
  owner,     \* who holds each asyncio.Lock
  rec,       \* status of the row of each job
  keyed,     \* jobs whose row has the idempotency key
  accepted,  \* jobs put into the queue of the worker pool
  up,        \* the server process is alive
  boots, faults,  \* history: crashes and storage failures so far
  faulty     \* history: jobs one of whose save_record calls raised

clientVars == <<payload, tries, mode>>
answerVars == <<code, job>>
lockVars   == <<entry, waiters, lock, owner>>
tableVars  == <<rec, keyed>>
serverVars == <<up, boots>>
faultVars  == <<faults, faulty>>
vars == <<clientVars, pc, answerVars, lockVars, tableVars, accepted, serverVars, faultVars>>

Critical == {"lookup", "save", "put", "reject"}

TypeOK ==
  /\ payload \in [Clients -> Payloads]
  /\ tries \in [Clients -> 0..MaxAttempts]
  /\ mode \in [Clients -> {"ready", "waiting", "done"}]
  /\ pc \in [Requests -> {"none", "sent", "acquire", "answered", "lost"} \cup Critical]
  /\ code \in [Requests -> {0, 200, 409, 500, 503}]
  /\ job \in [Requests -> Requests \cup {None}]
  /\ entry \in Requests \cup {None} /\ waiters \in 0..Cardinality(Requests)
  /\ lock \in [Requests -> Requests \cup {None}]
  /\ owner \in [Requests -> Requests \cup {None}]
  /\ rec \in [Requests -> RowStatus] /\ keyed \subseteq Requests
  /\ accepted \subseteq Requests
  /\ up \in BOOLEAN /\ boots \in 0..MaxBoots
  /\ faults \in 0..MaxFaults /\ faulty \subseteq Requests

Init ==
  /\ payload \in [Clients -> Payloads]
  /\ tries = [c \in Clients |-> 0] /\ mode = [c \in Clients |-> "ready"]
  /\ pc = [r \in Requests |-> "none"]
  /\ code = [r \in Requests |-> 0] /\ job = [r \in Requests |-> None]
  /\ entry = None /\ waiters = 0
  /\ lock = [r \in Requests |-> None] /\ owner = [r \in Requests |-> None]
  /\ rec = [r \in Requests |-> "absent"] /\ keyed = {} /\ accepted = {}
  /\ up = TRUE /\ boots = 0 /\ faults = 0 /\ faulty = {}

PayloadOf(r) == payload[r[1]]

-----------------------------------------------------------------------------
(* submit_code                                                             *)

Send(c) ==
  /\ mode[c] = "ready" /\ tries[c] < MaxAttempts
  /\ tries' = [tries EXCEPT ![c] = @ + 1]
  /\ mode' = [mode EXCEPT ![c] = "waiting"]
  /\ pc' = [pc EXCEPT ![<<c, tries[c] + 1>>] = "sent"]
  /\ UNCHANGED <<payload, answerVars, lockVars, tableVars, accepted, serverVars,
                 faultVars>>

\* Another attempt, or the last error is raised.
Retry(c) == mode' = [mode EXCEPT ![c] = IF tries[c] < MaxAttempts THEN "ready" ELSE "done"]

\* The response arrives: 503 is retried, 409 and 500 are raised.
Receive(c) ==
  /\ mode[c] = "waiting"
  /\ LET r == <<c, tries[c]>> IN
       /\ pc[r] = "answered"
       /\ IF code[r] = 503 THEN Retry(c) ELSE mode' = [mode EXCEPT ![c] = "done"]
  /\ UNCHANGED <<payload, tries, pc, answerVars, lockVars, tableVars, accepted,
                 serverVars, faultVars>>

\* TransportError: no connection, a lost request or response, a read timeout.
GiveUp(c) ==
  /\ mode[c] = "waiting"
  /\ Retry(c)
  /\ UNCHANGED <<payload, tries, pc, answerVars, lockVars, tableVars, accepted,
                 serverVars, faultVars>>

-----------------------------------------------------------------------------
(* IdempotencyLockManager.acquire                                          *)

\* Mutant: the handler does not register as a waiter.
ArriveUnregistered(r) ==
  /\ up /\ pc[r] = "sent"
  /\ entry' = IF entry = None THEN r ELSE entry
  /\ lock' = [lock EXCEPT ![r] = entry']
  /\ pc' = [pc EXCEPT ![r] = "acquire"]
  /\ UNCHANGED <<clientVars, answerVars, waiters, owner, tableVars, accepted,
                 serverVars, faultVars>>

\* The first section under _global_lock.
Arrive(r) ==
  /\ up /\ pc[r] = "sent"
  /\ entry' = IF entry = None THEN r ELSE entry
  /\ lock' = [lock EXCEPT ![r] = entry']
  /\ waiters' = waiters + 1
  /\ pc' = [pc EXCEPT ![r] = "acquire"]
  /\ UNCHANGED <<clientVars, answerVars, owner, tableVars, accepted, serverVars,
                 faultVars>>

\* `async with lock`
Enter(r) ==
  /\ pc[r] = "acquire" /\ owner[lock[r]] = None
  /\ owner' = [owner EXCEPT ![lock[r]] = r]
  /\ pc' = [pc EXCEPT ![r] = "lookup"]
  /\ UNCHANGED <<clientVars, answerVars, entry, waiters, lock, tableVars, accepted,
                 serverVars, faultVars>>

\* Mutant: the lock is evicted although other handlers wait for it.
AnswersEvicting(r, c, j) ==
  /\ owner' = [owner EXCEPT ![lock[r]] = None]
  /\ lock' = [lock EXCEPT ![r] = None]
  /\ waiters' = waiters - 1 /\ entry' = None
  /\ pc' = [pc EXCEPT ![r] = "answered"]
  /\ code' = [code EXCEPT ![r] = c] /\ job' = [job EXCEPT ![r] = j]

\* The handler returns or raises: it leaves `async with lock`, deregisters, and
\* the last one out evicts the lock.
Answers(r, c, j) ==
  /\ owner' = [owner EXCEPT ![lock[r]] = None]
  /\ lock' = [lock EXCEPT ![r] = None]
  /\ waiters' = waiters - 1
  /\ entry' = IF waiters' <= 0 THEN None ELSE entry
  /\ pc' = [pc EXCEPT ![r] = "answered"]
  /\ code' = [code EXCEPT ![r] = c] /\ job' = [job EXCEPT ![r] = j]

-----------------------------------------------------------------------------
(* _submit_async_job and WorkerPool.submit                                 *)

\* Mutant: the query and the unique index skip rows that are final.
HoldersUnsettled == {j \in keyed : rec[j] \in InFlight}

\* Rows with the key: what get_by_idempotency_key finds and the unique index sees.
Holders == keyed

\* Mutant: the fingerprints are not compared.
AnswersExistingUnchecked(r) == Answers(r, 200, CHOOSE j \in Holders : TRUE)

\* The response to r when the key is in use: that job, or 409 for another payload.
AnswersExisting(r) ==
  LET j == CHOOSE i \in Holders : TRUE
  IN  IF PayloadOf(j) = PayloadOf(r) THEN Answers(r, 200, j) ELSE Answers(r, 409, None)

\* get_by_idempotency_key returns.
Lookup(r) ==
  /\ pc[r] = "lookup"
  /\ \/ /\ Holders # {}
        /\ AnswersExisting(r)
     \/ /\ Holders = {}
        /\ pc' = [pc EXCEPT ![r] = "save"]
        /\ UNCHANGED <<answerVars, lockVars>>
  /\ UNCHANGED <<clientVars, tableVars, accepted, serverVars, faultVars>>

\* Mutant: a failed save of the queued record does not stop the submission.
SaveBestEffort(r) ==
  /\ pc[r] = "save"
  /\ \/ /\ rec' = [rec EXCEPT ![r] = "queued"] /\ keyed' = keyed \cup {r}
        /\ UNCHANGED faultVars
     \/ faults < MaxFaults /\ faults' = faults + 1 /\ UNCHANGED <<tableVars, faulty>>
  /\ pc' = [pc EXCEPT ![r] = "put"]
  /\ UNCHANGED <<clientVars, answerVars, lockVars, accepted, serverVars>>

\* The INSERT of the queued record commits, unless the unique index refuses it
\* (IntegrityError) and the response is that of the job it collides with.  The
\* lock makes that branch a safety net: see LockExclusion.
Save(r) ==
  /\ pc[r] = "save"
  /\ IF Holders = {}
       THEN /\ rec' = [rec EXCEPT ![r] = SaveRecord(@, "queued")]
            /\ keyed' = keyed \cup {r}
            /\ pc' = [pc EXCEPT ![r] = "put"]
            /\ UNCHANGED <<answerVars, lockVars>>
       ELSE AnswersExisting(r) /\ UNCHANGED tableVars
  /\ UNCHANGED <<clientVars, accepted, serverVars, faultVars>>

\* put_nowait; the queue is full or has room.
Put(r) ==
  /\ pc[r] = "put"
  /\ \/ accepted' = accepted \cup {r} /\ Answers(r, 200, r)
     \/ /\ pc' = [pc EXCEPT ![r] = "reject"]
        /\ UNCHANGED <<answerVars, lockVars, accepted>>
  /\ UNCHANGED <<clientVars, tableVars, serverVars, faultVars>>

\* Mutant: the row of a refused job is left as it is.
RejectUnsaved(r) ==
  /\ pc[r] = "reject"
  /\ Answers(r, 503, None)
  /\ UNCHANGED <<clientVars, tableVars, accepted, serverVars, faultVars>>

\* The upsert of the key column: COALESCE(existing, new).
CoalesceKey(r, new) == IF r \in keyed \/ new # None THEN keyed \cup {r} ELSE keyed

\* The failed record, with its key cleared, is saved over the queued one: 503.
Reject(r) ==
  /\ pc[r] = "reject"
  /\ rec' = [rec EXCEPT ![r] = SaveRecord(@, "failed")]
  /\ keyed' = CoalesceKey(r, None)
  /\ Answers(r, 503, None)
  /\ UNCHANGED <<clientVars, accepted, serverVars, faultVars>>

\* Mutant: the lock is not released when the handler raises.
RaisesLeaking(r) ==
  /\ pc[r] \in Critical \ {"put"} /\ faults < MaxFaults
  /\ faults' = faults + 1
  /\ pc' = [pc EXCEPT ![r] = "answered"] /\ code' = [code EXCEPT ![r] = 500]
  /\ UNCHANGED job
  /\ UNCHANGED <<clientVars, lockVars, tableVars, accepted, serverVars, faulty>>

\* A storage call raises, before or after its statement committed: 500.
Raises(r) ==
  /\ pc[r] \in {"lookup", "save", "reject"} /\ faults < MaxFaults
  /\ faults' = faults + 1
  /\ \/ UNCHANGED tableVars
     \/ /\ pc[r] = "save" /\ Holders = {}
        /\ rec' = [rec EXCEPT ![r] = SaveRecord(@, "queued")] /\ keyed' = keyed \cup {r}
     \/ /\ pc[r] = "reject"
        /\ rec' = [rec EXCEPT ![r] = SaveRecord(@, "failed")]
        /\ keyed' = CoalesceKey(r, None)
  /\ faulty' = IF pc[r] = "lookup" THEN faulty ELSE faulty \cup {r}
  /\ Answers(r, 500, None)
  /\ UNCHANGED <<clientVars, accepted, serverVars>>

-----------------------------------------------------------------------------
(* The rest of the system                                                  *)

\* The worker pool moves the row of an accepted job on (see WorkerPool).
Execute(j) ==
  /\ up /\ j \in accepted /\ rec[j] \in InFlight
  /\ \E s \in Terminal \cup {"running"} : rec' = [rec EXCEPT ![j] = SaveRecord(@, s)]
  /\ UNCHANGED <<clientVars, pc, answerVars, lockVars, keyed, accepted, serverVars,
                 faultVars>>

\* The process dies: handlers, locks and the queue are lost.
Crash ==
  /\ up /\ up' = FALSE
  /\ boots < MaxBoots /\ boots' = boots + 1
  /\ pc' = [r \in Requests |-> IF pc[r] \in {"acquire"} \cup Critical THEN "lost"
                                                                       ELSE pc[r]]
  /\ entry' = None /\ waiters' = 0
  /\ lock' = [r \in Requests |-> None] /\ owner' = [r \in Requests |-> None]
  /\ UNCHANGED <<clientVars, answerVars, tableVars, accepted, faultVars>>

\* lifespan start-up, with its reconciliation.
Restart ==
  /\ ~up /\ up' = TRUE
  /\ rec' = [r \in Requests |-> ReconcileStale(rec[r])]
  /\ UNCHANGED <<clientVars, pc, answerVars, lockVars, keyed, accepted, boots, faultVars>>

-----------------------------------------------------------------------------

HandlerStep(r) == Enter(r) \/ Lookup(r) \/ Save(r) \/ Put(r) \/ Reject(r)

Next ==
  \/ \E c \in Clients : Send(c) \/ Receive(c) \/ GiveUp(c)
  \/ \E r \in Requests : Arrive(r) \/ HandlerStep(r) \/ Raises(r) \/ Execute(r)
  \/ Crash \/ Restart

Spec == Init /\ [][Next]_vars

\* Handlers that can go on do; clients, the network, faults and crashes are free.
FairSpec == Spec /\ \A r \in Requests : WF_vars(HandlerStep(r))

-----------------------------------------------------------------------------
(* Properties                                                              *)

JobAnswer(r) == code[r] = 200

\* The keyed lock serializes the whole check-and-submit, although locks are
\* created on demand and evicted while late-comers may still refer to them.
LockExclusion ==
  \A r, s \in Requests : pc[r] \in Critical /\ pc[s] \in Critical => r = s

\* "This ensures safe retries without duplicate job execution": of all requests
\* with the key, over lost responses, retries, crashes and storage failures, at
\* most one job ever enters the queue.
AtMostOnce == \A i, j \in accepted : i = j

\* All requests that are answered with a job are answered with the same one, and
\* that job runs the payload of the request.
AnswersAgree ==
  \A r, s \in Requests :
    /\ JobAnswer(r) /\ JobAnswer(s) => job[r] = job[s]
    /\ JobAnswer(r) => PayloadOf(job[r]) = PayloadOf(r)

\* A job id that was given out can be looked up from then on, by id and by key.
AnswerDurable ==
  \A r \in Requests : JobAnswer(r) => rec[job[r]] # "absent" /\ job[r] \in keyed

\* A client is not sent to poll a row that says "queued" for ever: an answered
\* job that is in flight was put into the queue, unless a storage call failed.
AnswerWillSettle ==
  \A r \in Requests :
    JobAnswer(r) /\ up /\ rec[job[r]] \in InFlight
      => job[r] \in accepted \/ job[r] \in faulty

\* Every request that reached the server is answered unless the process dies:
\* the lock is handed on whichever way its holder leaves.
RequestsAnswered ==
  \A r \in Requests : pc[r] = "acquire" ~> pc[r] \in {"answered", "lost"}

\* The claim of the comment in submit() and of test_queue.py ("the retry with the
\* same key must not collide with the dead record"): a retry is never answered
\* with the job that a full queue refused.
RetryNotDead ==
  \A r, s \in Requests : code[r] = 503 => job[s] # r
=============================================================================
