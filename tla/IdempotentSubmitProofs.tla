----------------------- MODULE IdempotentSubmitProofs -----------------------
(***************************************************************************)
(* Theorems about IdempotentSubmit for any number of clients, attempts,    *)
(* payloads, faults and crashes.                                           *)
(*                                                                         *)
(* That there is one job needs no lock: a row takes the key only when no   *)
(* row has it (the unique index), no statement ever takes the key away     *)
(* (COALESCE), and a job enters the queue, or is answered, only when its   *)
(* row has the key.  So one row at most has the key (OneHolder) and        *)
(* everything clients are told leads to it.                                *)
(*                                                                         *)
(* That the answer is worth something needs the lock: Locked is what the   *)
(* lock manager keeps (an exact count of those inside, who all refer to    *)
(* the lock in the table), and because the lock excludes, nobody is        *)
(* answered with a job whose handler could still be refused (Settling).    *)
(***************************************************************************)
EXTENDS IdempotentSubmit, FiniteSetTheorems, TLAPS

\* The parts of TypeOK the argument needs.
Typed ==
  /\ pc \in [Requests -> {"none", "sent", "acquire", "answered", "lost"} \cup Critical]
  /\ code \in [Requests -> {0, 200, 409, 500, 503}]
  /\ job \in [Requests -> Requests \cup {None}]
  /\ rec \in [Requests -> RowStatus]
  /\ keyed \subseteq Requests

OneHolder == \A i, j \in keyed : i = j

\* A job has its row, with the key, before it can reach the queue or a client.
Anchored ==
  /\ \A r \in Requests : pc[r] \in {"put", "reject"} => r \in keyed
  /\ \A j \in keyed : rec[j] # "absent"
  /\ accepted \subseteq keyed
  /\ \A r \in Requests : code[r] = 200 => job[r] \in keyed /\ PayloadOf(job[r]) = PayloadOf(r)

IInv == Typed /\ OneHolder /\ Anchored

-----------------------------------------------------------------------------

\* The response to a request whose key is taken is the holder, with the payload
\* of the request, or a 409.
LEMMA ExistingIsHolder ==
  ASSUME NEW r \in Requests, Holders # {}, AnswersExisting(r)
  PROVE  \/ \E j \in keyed : Answers(r, 200, j) /\ PayloadOf(j) = PayloadOf(r)
         \/ Answers(r, 409, None)
<1> DEFINE j == CHOOSE i \in Holders : TRUE
<1>1. j \in keyed
  BY DEF Holders
<1>2. IF PayloadOf(j) = PayloadOf(r) THEN Answers(r, 200, j) ELSE Answers(r, 409, None)
  BY DEF AnswersExisting
<1> QED BY <1>1, <1>2

\* Handlers and storage failures preserve the invariant.
LEMMA HandlerInv ==
  ASSUME IInv, NEW r \in Requests,
         Arrive(r) \/ HandlerStep(r) \/ Raises(r) \/ Execute(r)
  PROVE  IInv'
<1> USE DEF IInv, Typed, OneHolder, Anchored, PayloadOf, Critical,
            clientVars, answerVars, lockVars, tableVars, faultVars, serverVars,
            RowStatus, InFlight, Terminal
<1>1. CASE Arrive(r)
  BY <1>1 DEF Arrive
<1>2. CASE Enter(r)
  BY <1>2 DEF Enter
<1>3. CASE Lookup(r)
  <2>1. CASE Holders # {} /\ AnswersExisting(r)
    BY <1>3, <2>1, ExistingIsHolder DEF Lookup, Answers
  <2>2. CASE pc' = [pc EXCEPT ![r] = "save"] /\ UNCHANGED <<answerVars, lockVars>>
    BY <1>3, <2>2 DEF Lookup
  <2> QED BY <1>3, <2>1, <2>2 DEF Lookup
<1>4. CASE Save(r)
  <2>1. CASE Holders = {}
    BY <1>4, <2>1 DEF Save, Holders, SaveRecord
  <2>2. CASE Holders # {}
    BY <1>4, <2>2, ExistingIsHolder DEF Save, Answers
  <2> QED BY <2>1, <2>2
<1>5. CASE Put(r)
  BY <1>5 DEF Put, Answers
<1>6. CASE Reject(r)
  BY <1>6 DEF Reject, Answers, SaveRecord, CoalesceKey
<1>7. CASE Raises(r)
  <2>1. Answers(r, 500, None) /\ UNCHANGED <<clientVars, accepted, serverVars>>
    BY <1>7 DEF Raises
  <2>2. CASE UNCHANGED tableVars
    BY <2>1, <2>2 DEF Answers
  <2>3. CASE /\ Holders = {} /\ keyed' = keyed \cup {r}
             /\ rec' = [rec EXCEPT ![r] = SaveRecord(@, "queued")]
    BY <2>1, <2>3 DEF Answers, Holders, SaveRecord
  <2>4. CASE /\ pc[r] = "reject" /\ keyed' = CoalesceKey(r, None)
             /\ rec' = [rec EXCEPT ![r] = SaveRecord(@, "failed")]
    BY <2>1, <2>4 DEF Answers, CoalesceKey, SaveRecord
  <2> QED BY <1>7, <2>2, <2>3, <2>4 DEF Raises
<1>8. CASE Execute(r)
  BY <1>8 DEF Execute, SaveRecord
<1> QED BY <1>1, <1>2, <1>3, <1>4, <1>5, <1>6, <1>7, <1>8 DEF HandlerStep

\* So do clients, crashes and restarts.
LEMMA NextInv == IInv /\ [Next]_vars => IInv'
<1> SUFFICES ASSUME IInv, [Next]_vars PROVE IInv'
  OBVIOUS
<1> USE DEF IInv, Typed, OneHolder, Anchored, PayloadOf, Critical,
            clientVars, answerVars, lockVars, tableVars, faultVars, serverVars
<1>1. ASSUME NEW c \in Clients, Send(c) \/ Receive(c) \/ GiveUp(c) PROVE IInv'
  BY <1>1 DEF Send, Receive, GiveUp
<1>2. CASE \E r \in Requests : Arrive(r) \/ HandlerStep(r) \/ Raises(r) \/ Execute(r)
  BY <1>2, HandlerInv
<1>3. CASE Crash
  BY <1>3 DEF Crash
<1>4. CASE Restart
  BY <1>4 DEF Restart, ReconcileStale, RowStatus, Terminal, InFlight
<1>5. CASE UNCHANGED vars
  BY <1>5 DEF vars
<1> QED BY <1>1, <1>2, <1>3, <1>4, <1>5 DEF Next

\* IInv is an inductive invariant.
LEMMA Inductive == Spec => []IInv
<1>1. Init => IInv
  BY SubmitAssumption DEF Init, IInv, Typed, OneHolder, Anchored, RowStatus
<1> QED BY <1>1, NextInv, PTL DEF Spec

\* No interleaving of retries, lost responses, storage failures and crashes lets
\* two jobs with the same key into the queue.
THEOREM NoDuplicateExecution == Spec => []AtMostOnce
<1>1. IInv => AtMostOnce
  BY DEF IInv, OneHolder, Anchored, AtMostOnce
<1> QED BY <1>1, Inductive, PTL

\* All clients are told of the same job, and it has the payload they sent.
THEOREM OneAnswer == Spec => []AnswersAgree
<1>1. IInv => AnswersAgree
  BY DEF IInv, OneHolder, Anchored, AnswersAgree, JobAnswer
<1> QED BY <1>1, Inductive, PTL

\* A job id that was given out stays known, by id and by key.
THEOREM AnswersStay == Spec => []AnswerDurable
<1>1. IInv => AnswerDurable
  BY DEF IInv, Anchored, AnswerDurable, JobAnswer
<1> QED BY <1>1, Inductive, PTL
-----------------------------------------------------------------------------
(* The keyed lock.                                                         *)

\* Requests inside IdempotencyLockManager.acquire().
Inside == {r \in Requests : pc[r] \in {"acquire"} \cup Critical}

\* The count of waiters is exact, all of them hold the lock in the table, and the
\* one in the critical section owns it.
Locked ==
  /\ waiters = Cardinality(Inside)
  /\ \A r \in Inside : lock[r] = entry /\ entry # None
  /\ \A r \in Requests : pc[r] \in Critical => owner[entry] = r

\* No handler runs for a request that was not sent.
Unsent == \A c \in Clients, n \in 1..MaxAttempts : n > tries[c] => pc[<<c, n>>] = "none"

\* A row in flight is the business of its own handler, of the worker pool or of a
\* failed storage call, and of the latter two only once clients know of it.
Settling ==
  /\ \A j \in keyed : up /\ rec[j] \in InFlight
       => pc[j] \in {"put", "reject"} \/ j \in accepted \/ j \in faulty
  /\ \A r \in Requests : JobAnswer(r) => pc[job[r]] \notin {"put", "reject"}

\* Requests are finitely many, so those inside can be counted.
LEMMA InsideFinite ==
  /\ IsFiniteSet(Requests) /\ Cardinality(Requests) \in Nat
  /\ IsFiniteSet(Inside) /\ Cardinality(Inside) \in 0..Cardinality(Requests)
<1>1. IsFiniteSet(1..MaxAttempts)
  BY SubmitAssumption, FS_Interval
<1>2. IsFiniteSet(Requests)
  BY <1>1, SubmitAssumption, FS_Product DEF Requests
<1>3. Inside \in SUBSET Requests
  BY DEF Inside
<1>4. IsFiniteSet(Inside) /\ Cardinality(Inside) <= Cardinality(Requests)
  BY <1>2, <1>3, FS_Subset
<1>5. Cardinality(Inside) \in Nat /\ Cardinality(Requests) \in Nat
  BY <1>2, <1>4, FS_CardinalityType
<1> QED BY <1>2, <1>4, <1>5

\* A step that leaves handlers and locks alone leaves Locked as it is.
LEMMA LockedAlone ==
  ASSUME Locked, UNCHANGED <<pc, lockVars>> PROVE Locked'
<1>1. Inside' = Inside
  BY DEF Inside
<1> QED BY <1>1 DEF Locked, lockVars

\* A handler in the critical section leaves it, and the last one inside evicts
\* the lock.
LEMMA LeaveKeepsLocked ==
  ASSUME TypeOK, Locked, NEW r \in Requests, pc[r] \in Critical, NEW c, NEW j, Answers(r, c, j)
  PROVE  Locked'
<1>1. Inside' = Inside \ {r} /\ r \in Inside
  BY DEF Inside, Answers, TypeOK, Critical
<1>2. IsFiniteSet(Inside) /\ Cardinality(Inside) \in Nat
      /\ Cardinality(Inside \ {r}) = Cardinality(Inside) - 1
      /\ IsFiniteSet(Inside \ {r}) /\ Cardinality(Inside \ {r}) \in Nat
  BY <1>1, InsideFinite, FS_RemoveElement, FS_CardinalityType
<1>3. waiters' = Cardinality(Inside')
  BY <1>1, <1>2 DEF Locked, Answers
<1>4. waiters' <= 0 => Inside' = {}
  BY <1>1, <1>2, <1>3, FS_EmptySet
<1>5. \A s \in Inside' : lock'[s] = entry' /\ entry' # None
  BY <1>1, <1>4 DEF Locked, Answers, TypeOK, Inside
<1>6. \A s \in Requests : pc'[s] \notin Critical
  BY DEF Locked, Answers, TypeOK, Critical
<1> QED BY <1>3, <1>5, <1>6 DEF Locked

\* The lock excludes.
LEMMA LockedExcludes == Locked => LockExclusion
  BY DEF Locked, LockExclusion

-----------------------------------------------------------------------------
(* Types, the lock and what clients are told of, together.                 *)

SInv == IInv /\ TypeOK /\ Locked /\ Unsent /\ Settling

\* Handlers, each in the critical section or on its way there.
LEMMA HandlerTypes ==
  ASSUME TypeOK, Locked', NEW r \in Requests,
         Arrive(r) \/ HandlerStep(r) \/ Raises(r) \/ Execute(r)
  PROVE  TypeOK'
<1> USE DEF TypeOK, Critical, RowStatus, Terminal, InFlight,
            clientVars, answerVars, lockVars, tableVars, faultVars, serverVars
<1>0. waiters' \in 0..Cardinality(Requests)
  <2>1. (Cardinality(Inside) \in 0..Cardinality(Requests))'
    BY InsideFinite, PTL
  <2> QED BY <2>1 DEF Locked
<1> USE <1>0
<1>1. CASE Arrive(r)
  BY <1>1 DEF Arrive
<1>2. CASE Enter(r)
  BY <1>2 DEF Enter
<1>a. ASSUME NEW c \in {0, 200, 409, 500, 503}, NEW j \in Requests \cup {None}, Answers(r, c, j)
      PROVE  /\ pc' \in [Requests -> {"none", "sent", "acquire", "answered", "lost"} \cup Critical]
             /\ code' \in [Requests -> {0, 200, 409, 500, 503}]
             /\ job' \in [Requests -> Requests \cup {None}]
             /\ entry' \in Requests \cup {None}
             /\ lock' \in [Requests -> Requests \cup {None}]
             /\ owner' \in [Requests -> Requests \cup {None}]
  BY <1>a DEF Answers
<1>b. ASSUME Holders # {}, AnswersExisting(r)
      PROVE  \/ \E j \in Requests : Answers(r, 200, j)
             \/ Answers(r, 409, None)
  BY <1>b, ExistingIsHolder
<1>3. CASE Lookup(r)
  BY <1>3, <1>a, <1>b DEF Lookup
<1>4. CASE Save(r)
  BY <1>4, <1>a, <1>b DEF Save, SaveRecord
<1>5. CASE Put(r)
  BY <1>5, <1>a DEF Put
<1>6. CASE Reject(r)
  BY <1>6, <1>a DEF Reject, SaveRecord, CoalesceKey
<1>7. CASE Raises(r)
  BY <1>7, <1>a, SubmitAssumption DEF Raises, SaveRecord, CoalesceKey
<1>8. CASE Execute(r)
  BY <1>8 DEF Execute, SaveRecord
<1> QED BY <1>1, <1>2, <1>3, <1>4, <1>5, <1>6, <1>7, <1>8 DEF HandlerStep

\* The lock: a handler registers before it waits and enters when nobody owns it.
LEMMA HandlerLocked ==
  ASSUME TypeOK, Locked, NEW r \in Requests,
         Arrive(r) \/ HandlerStep(r) \/ Raises(r) \/ Execute(r)
  PROVE  Locked'
<1> USE DEF clientVars, answerVars, lockVars, tableVars, faultVars, serverVars
<1>1. CASE Arrive(r)
  <2>1. Inside' = Inside \cup {r} /\ r \notin Inside
    BY <1>1 DEF Arrive, Inside, TypeOK, Critical
  <2>2. waiters' = Cardinality(Inside')
    BY <1>1, <2>1, InsideFinite, FS_AddElement DEF Arrive, Locked
  <2>3. \A s \in Inside' : lock'[s] = entry' /\ entry' # None
    BY <1>1, <2>1, SubmitAssumption DEF Arrive, Locked, TypeOK, Inside
  <2>4. \A s \in Requests : pc'[s] \in Critical => owner'[entry'] = s
    <3>1. ASSUME NEW s \in Requests, pc'[s] \in Critical PROVE owner'[entry'] = s
      <4>1. pc[s] \in Critical /\ s \in Inside
        BY <1>1, <3>1 DEF Arrive, TypeOK, Critical, Inside
      <4> QED BY <1>1, <4>1 DEF Arrive, Locked
    <3> QED BY <3>1
  <2> QED BY <2>2, <2>3, <2>4 DEF Locked
<1>2. CASE Enter(r)
  <2>1. Inside' = Inside /\ r \in Inside
    BY <1>2 DEF Enter, Inside, TypeOK, Critical
  <2>2. waiters' = Cardinality(Inside') /\ \A s \in Inside' : lock'[s] = entry' /\ entry' # None
    BY <1>2, <2>1 DEF Enter, Locked
  <2>3. \A s \in Requests : pc'[s] \in Critical => owner'[entry'] = s
    BY <1>2, <2>1, SubmitAssumption DEF Enter, Locked, TypeOK, Critical
  <2> QED BY <2>2, <2>3 DEF Locked
<1>3. ASSUME pc[r] \in Critical, UNCHANGED lockVars, NEW p \in Critical, pc' = [pc EXCEPT ![r] = p]
      PROVE  Locked'
  <2>1. Inside' = Inside
    BY <1>3 DEF Inside, TypeOK, Critical
  <2>2. \A s \in Requests : pc'[s] \in Critical => pc[s] \in Critical
    BY <1>3 DEF TypeOK
  <2> QED BY <1>3, <2>1, <2>2 DEF Locked
<1>4. CASE \E c, j : pc[r] \in Critical /\ Answers(r, c, j)
  BY <1>4, LeaveKeepsLocked
<1>5. AnswersExisting(r) => \E c, j : Answers(r, c, j)
  BY DEF AnswersExisting
<1>6. CASE Lookup(r)
  BY <1>3, <1>4, <1>5, <1>6 DEF Lookup, Critical
<1>7. CASE Save(r)
  BY <1>3, <1>4, <1>5, <1>7 DEF Save, Critical
<1>8. CASE Put(r)
  BY <1>3, <1>4, <1>8 DEF Put, Critical
<1>9. CASE Reject(r) \/ Raises(r)
  BY <1>4, <1>9 DEF Reject, Raises, Critical
<1>10. CASE Execute(r)
  BY <1>10, LockedAlone DEF Execute
<1> QED BY <1>1, <1>2, <1>6, <1>7, <1>8, <1>9, <1>10 DEF HandlerStep

\* What clients are told of is settled: the lock keeps a handler from answering
\* with a job whose own handler has yet to put it into the queue.
LEMMA HandlerSettling ==
  ASSUME IInv, TypeOK, Locked, Settling, NEW r \in Requests,
         Arrive(r) \/ HandlerStep(r) \/ Raises(r) \/ Execute(r)
  PROVE  Settling'
<1> USE DEF TypeOK, Settling, JobAnswer, Critical, IInv, Anchored,
            clientVars, answerVars, lockVars, tableVars, faultVars, serverVars
<1>1. CASE Arrive(r)
  BY <1>1 DEF Arrive
<1>2. CASE Enter(r)
  BY <1>2 DEF Enter
<1>3. ASSUME Holders # {}, AnswersExisting(r), pc[r] \in {"lookup", "save"},
             UNCHANGED <<tableVars, accepted, serverVars, faultVars>>
      PROVE  Settling'
  <2>1. \A j \in Requests : pc[j] \notin {"put", "reject"}
    BY <1>3, LockedExcludes DEF LockExclusion
  <2>2. \/ \E j \in keyed : Answers(r, 200, j)
        \/ Answers(r, 409, None)
    BY <1>3, ExistingIsHolder
  <2> QED BY <1>3, <2>1, <2>2 DEF Answers
<1>4. CASE Lookup(r)
  <2>1. CASE pc' = [pc EXCEPT ![r] = "save"] /\ UNCHANGED <<answerVars, lockVars>>
    BY <1>4, <2>1 DEF Lookup
  <2> QED BY <1>3, <1>4, <2>1 DEF Lookup
<1>5. CASE Save(r)
  <2>1. CASE Holders = {}
    BY <1>5, <2>1 DEF Save, Holders, SaveRecord
  <2> QED BY <1>3, <1>5, <2>1 DEF Save
<1>6. CASE Put(r)
  BY <1>6 DEF Put, Answers
<1>7. CASE Reject(r)
  BY <1>7 DEF Reject, Answers, SaveRecord, CoalesceKey, InFlight, Terminal
<1>8. CASE Raises(r)
  <2>1. Answers(r, 500, None) /\ UNCHANGED <<clientVars, accepted, serverVars>>
        /\ pc[r] \in {"lookup", "save", "reject"}
        /\ faulty' = IF pc[r] = "lookup" THEN faulty ELSE faulty \cup {r}
    BY <1>8 DEF Raises
  <2>2. CASE UNCHANGED tableVars
    BY <2>1, <2>2 DEF Answers
  <2>3. CASE /\ pc[r] = "save" /\ Holders = {} /\ keyed' = keyed \cup {r}
             /\ rec' = [rec EXCEPT ![r] = SaveRecord(@, "queued")]
    BY <2>1, <2>3 DEF Answers, Holders, SaveRecord
  <2>4. CASE /\ pc[r] = "reject" /\ keyed' = CoalesceKey(r, None)
             /\ rec' = [rec EXCEPT ![r] = SaveRecord(@, "failed")]
    BY <2>1, <2>4 DEF Answers, CoalesceKey, SaveRecord
  <2> QED BY <1>8, <2>2, <2>3, <2>4 DEF Raises
<1>9. CASE Execute(r)
  BY <1>9 DEF Execute
<1> QED BY <1>1, <1>2, <1>4, <1>5, <1>6, <1>7, <1>8, <1>9 DEF HandlerStep

\* Clients send no lock and no row anywhere; a crash empties the lock table, and a
\* restart settles the rows.
\* No handler starts by itself.
LEMMA HandlerUnsent ==
  ASSUME TypeOK, Unsent, NEW r \in Requests,
         Arrive(r) \/ HandlerStep(r) \/ Raises(r) \/ Execute(r)
  PROVE  Unsent'
<1>1. pc[r] # "none" \/ UNCHANGED pc
  BY DEF Arrive, HandlerStep, Enter, Lookup, Save, Put, Reject, Raises, Execute, Critical
<1>2. UNCHANGED tries /\ \A s \in Requests : s # r => pc'[s] = pc[s]
  BY DEF TypeOK, Arrive, HandlerStep, Enter, Lookup, Save, Put, Reject, Raises, Execute, Answers,
     AnswersExisting, clientVars
<1> QED BY <1>1, <1>2 DEF Unsent, Requests

\* Clients touch no lock and no row.
LEMMA ClientInv ==
  ASSUME SInv, NEW c \in Clients, Send(c) \/ Receive(c) \/ GiveUp(c)
  PROVE  TypeOK' /\ Locked' /\ Unsent' /\ Settling'
<1> USE DEF SInv, TypeOK, Critical, Settling, JobAnswer, IInv, Anchored, Unsent,
            clientVars, answerVars, lockVars, tableVars, faultVars, serverVars
<1>1. CASE Send(c)
  <2> DEFINE q == <<c, tries[c] + 1>>
  <2>1. q \in Requests /\ tries[c] + 1 \in 1..MaxAttempts /\ tries[c] + 1 > tries[c]
    BY <1>1, SubmitAssumption DEF Send, Requests
  <2>2. pc' = [pc EXCEPT ![q] = "sent"] /\ pc[q] = "none"
        /\ UNCHANGED <<payload, answerVars, lockVars, tableVars, accepted, serverVars, faultVars>>
    BY <1>1, <2>1 DEF Send
  <2>3. Inside' = Inside
    BY <2>1, <2>2 DEF Inside
  <2>4. Locked'
    BY <2>2, <2>3 DEF Locked
  <2>5. Settling'
    BY <2>1, <2>2
  <2>6. TypeOK'
    BY <1>1, <2>1, <2>2 DEF Send
  <2>7. Unsent'
    BY <1>1, <2>1, <2>2, SubmitAssumption DEF Send, Requests
  <2> QED BY <2>4, <2>5, <2>6, <2>7
<1>2. CASE Receive(c) \/ GiveUp(c)
  BY <1>2, LockedAlone DEF Receive, GiveUp, Retry
<1> QED BY <1>1, <1>2

\* A crash empties the table of locks, and a restart settles the rows.
LEMMA ProcessInv ==
  ASSUME SInv, Crash \/ Restart \/ UNCHANGED vars
  PROVE  TypeOK' /\ Locked' /\ Unsent' /\ Settling'
<1> USE DEF SInv, TypeOK, Critical, Settling, JobAnswer, IInv, Anchored, Unsent,
            clientVars, answerVars, lockVars, tableVars, faultVars, serverVars
<1>1. CASE Crash
  <2>1. Inside' = {}
    BY <1>1 DEF Crash, Inside
  <2>2. Locked'
    BY <1>1, <2>1, FS_EmptySet DEF Crash, Locked
  <2>3. TypeOK'
    <3>1. waiters' \in 0..Cardinality(Requests) /\ boots' \in 0..MaxBoots
      <4>1. Cardinality(Requests) \in Nat
        BY InsideFinite
      <4> QED BY <1>1, <4>1, SubmitAssumption DEF Crash
    <3>2. pc' \in [Requests -> {"none", "sent", "acquire", "answered", "lost"} \cup Critical]
      BY <1>1 DEF Crash
    <3> QED BY <1>1, <3>1, <3>2 DEF Crash
  <2>4. Unsent' /\ Settling'
    BY <1>1 DEF Crash, Requests
  <2> QED BY <2>2, <2>3, <2>4
<1>2. CASE Restart
  BY <1>2, LockedAlone DEF Restart, ReconcileStale, RowStatus, InFlight, Terminal
<1>3. CASE UNCHANGED vars
  BY <1>3, LockedAlone DEF vars
<1> QED BY <1>1, <1>2, <1>3

\* The lock, the types and the rows hold together in every reachable state.
LEMMA LockInductive == Spec => []SInv
<1>1. Init => SInv
  <2> SUFFICES ASSUME Init PROVE SInv
    OBVIOUS
  <2>1. Inside = {}
    BY DEF Init, Inside, Critical
  <2>2. Locked
    BY <2>1, FS_EmptySet DEF Init, Locked, Critical
  <2>3. TypeOK
    BY SubmitAssumption, InsideFinite DEF Init, TypeOK, RowStatus
  <2>4. IInv
    BY SubmitAssumption DEF Init, IInv, Typed, OneHolder, Anchored, RowStatus
  <2>5. Unsent /\ Settling
    BY DEF Init, Unsent, Settling, JobAnswer, Requests
  <2> QED BY <2>2, <2>3, <2>4, <2>5 DEF SInv
<1>2. SInv /\ [Next]_vars => SInv'
  <2> SUFFICES ASSUME SInv, [Next]_vars PROVE SInv'
    OBVIOUS
  <2>0. IInv'
    BY NextInv DEF SInv
  <2>1. CASE \E c \in Clients : Send(c) \/ Receive(c) \/ GiveUp(c)
    BY <2>0, <2>1, ClientInv DEF SInv
  <2>2. CASE \E r \in Requests : Arrive(r) \/ HandlerStep(r) \/ Raises(r) \/ Execute(r)
    BY <2>0, <2>2, HandlerLocked, HandlerTypes, HandlerUnsent, HandlerSettling DEF SInv
  <2>3. CASE Crash \/ Restart \/ UNCHANGED vars
    BY <2>0, <2>3, ProcessInv DEF SInv
  <2> QED BY <2>1, <2>2, <2>3 DEF Next
<1> QED BY <1>1, <1>2, PTL DEF Spec

\* Every variable keeps its type; in particular the count of waiters never leaves
\* 0..the number of requests, whichever way handlers end.
THEOREM SubmissionTypes == Spec => []TypeOK
<1>1. SInv => TypeOK
  BY DEF SInv
<1> QED BY LockInductive, <1>1, PTL

\* The keyed lock serializes lookup and submission for any number of requests,
\* although locks are created on demand and evicted.
THEOREM KeyedLockExcludes == Spec => []LockExclusion
<1>1. SInv => LockExclusion
  BY LockedExcludes DEF SInv
<1> QED BY LockInductive, <1>1, PTL

\* No client is sent to poll a row that nobody will ever move on, unless a storage
\* call failed.
THEOREM AnswersSettle == Spec => []AnswerWillSettle
<1>1. SInv => AnswerWillSettle
  BY DEF SInv, IInv, Anchored, Settling, JobAnswer, AnswerWillSettle
<1> QED BY LockInductive, <1>1, PTL
=============================================================================
