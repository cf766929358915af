-------------------------- MODULE ApiProtectionProofs --------------------------
(***************************************************************************)
(* The middleware implements the fixed window, for any number of requests, *)
(* callers and restarts, any limit and any window.                         *)
(***************************************************************************)
EXTENDS ApiProtection, TLAPS

\* What the refinement depends on: windows start in the past and requests that
\* were not asked have no answer.
IInv ==
  /\ now \in Nat
  /\ buckets \in [Callers -> [start : Nat, count : Nat]]
  /\ \A c \in Callers : buckets[c].start <= now
  /\ cleaned \in Nat
  /\ status \in [Requests -> {"none", "limited", "unauthorized", "too_large", "body",
                              "app", "answered", "error"}]
  /\ retry \in [Requests -> Nat]

\* The refinement mapping of Promise.
Spent ==
  [c \in Callers |->
     IF buckets[c].count = 0 \/ now - buckets[c].start >= Window
       THEN [end |-> 0, n |-> 0]
       ELSE [end |-> buckets[c].start + Window,
             n |-> IF buckets[c].count < Max THEN buckets[c].count ELSE Max]]

Told ==
  [r \in Requests |->
     CASE status[r] = "none"    -> [kind |-> "none", retry |-> 0]
       [] status[r] = "limited" -> [kind |-> "refused", retry |-> retry[r]]
       [] status[r] = "unauthorized" -> [kind |-> "denied", retry |-> 0]
       [] OTHER -> [kind |-> IF r \in Exempted THEN "exempt" ELSE "admitted", retry |-> 0]]

\* A limiter without buckets satisfies the invariant ...
LEMMA InitInv == Init => IInv
BY DEF Init, IInv, NoBucket

\* ... and stands for callers that have spent nothing.
LEMMA InitRefines == Init => Promise!Init
BY DEF Init, NoBucket, Promise!Init, Promise!Fresh, Promise!Unasked

-----------------------------------------------------------------------------
(* The limiter.                                                            *)

\* The bucket in which allow() counts a request is open and of the present window.
LEMMA CountedIsBucket ==
  ASSUME IInv, NEW c \in Callers
  PROVE  /\ Counted(c) \in [start : Nat, count : Nat \ {0}]
         /\ Counted(c).start <= now
         /\ now - Counted(c).start < Window
BY ProtectionConstants DEF IInv, Counted

\* allow() changes the bucket of its caller; the eviction in it takes away buckets
\* whose window is over, and never the caller's.
LEMMA AllowStep ==
  ASSUME IInv, NEW c \in Callers, Allow(c), now' = now
  PROVE  /\ buckets' \in [Callers -> [start : Nat, count : Nat]]
         /\ cleaned' \in Nat
         /\ buckets'[c] = Counted(c)
         /\ \A d \in Callers : d # c =>
              \/ buckets'[d] = buckets[d]
              \/ buckets'[d] = NoBucket /\ now - buckets[d].start >= Window
<1> DEFINE all == [buckets EXCEPT ![c] = Counted(c)]
<1>1. all \in [Callers -> [start : Nat, count : Nat]]
  BY CountedIsBucket DEF IInv
<1>2. all[c] = Counted(c) /\ \A d \in Callers : d # c => all[d] = buckets[d]
  BY DEF IInv
<1>3. buckets' = Evicted(all)
  BY DEF Allow
<1>4. cleaned' \in Nat
  BY DEF Allow, LastCleanup, IInv
<1> HIDE DEF all
<1>5. CASE buckets' = all
  BY <1>1, <1>2, <1>4, <1>5
<1>6. CASE buckets' = [d \in Callers |-> IF all[d].start + 2 * Window < now THEN NoBucket ELSE all[d]]
  <2>1. \A d \in Callers : all[d].start \in Nat
    BY <1>1
  <2>2. ~(all[c].start + 2 * Window < now)
    BY <1>2, CountedIsBucket, ProtectionConstants DEF IInv
  <2>3. \A d \in Callers : all[d].start + 2 * Window < now => now - all[d].start >= Window
    BY <2>1, ProtectionConstants DEF IInv
  <2>4. buckets' \in [Callers -> [start : Nat, count : Nat]]
    BY <1>1, <1>6 DEF NoBucket
  <2>5. buckets'[c] = Counted(c)
    BY <1>2, <1>6, <2>2
  <2>6. \A d \in Callers : d # c =>
          \/ buckets'[d] = buckets[d]
          \/ buckets'[d] = NoBucket /\ now - buckets[d].start >= Window
    BY <1>2, <1>6, <2>3
  <2> QED BY <1>4, <2>4, <2>5, <2>6
<1> QED BY <1>3, <1>5, <1>6 DEF Evicted

\* What the callers have spent after allow().
LEMMA SpentStep ==
  ASSUME IInv, NEW c \in Callers, Allow(c), now' = now
  PROVE  /\ Counted(c).count <= Max =>
              /\ Spent[c].n < Max
              /\ Spent' = [Spent EXCEPT ![c] =
                   IF @ = [end |-> 0, n |-> 0] THEN [end |-> now + Window, n |-> 1]
                   ELSE [end |-> @.end, n |-> @.n + 1]]
         /\ Counted(c).count > Max =>
              /\ Spent[c].n = Max /\ Spent' = Spent
              /\ now + RetryAfter(Counted(c)) = Spent[c].end
<1> DEFINE b == buckets[c]
<1>0. /\ now \in Nat /\ b \in [start : Nat, count : Nat] /\ b.start <= now
      /\ Max \in Nat \ {0} /\ Window \in Nat \ {0}
  BY ProtectionConstants DEF IInv
<1>1. \A d \in Callers : d # c => Spent'[d] = Spent[d]
  BY AllowStep DEF Spent, NoBucket
<1>2. buckets'[c] = Counted(c)
  BY AllowStep
<1>3. Spent'[c] = IF Counted(c).count = 0 \/ now - Counted(c).start >= Window
                    THEN [end |-> 0, n |-> 0]
                    ELSE [end |-> Counted(c).start + Window,
                          n |-> IF Counted(c).count < Max THEN Counted(c).count ELSE Max]
  BY <1>2 DEF Spent
<1>4. Spent[c] = IF b.count = 0 \/ now - b.start >= Window
                   THEN [end |-> 0, n |-> 0]
                   ELSE [end |-> b.start + Window, n |-> IF b.count < Max THEN b.count ELSE Max]
  BY DEF Spent
<1>5. Spent = [d \in Callers |-> Spent[d]] /\ Spent' = [d \in Callers |-> Spent'[d]]
  BY DEF Spent
<1>8. Spent' = [Spent EXCEPT ![c] = Spent'[c]]
  BY <1>1, <1>5
<1> HIDE DEF b
<1>6. CASE b.count = 0 \/ now - b.start >= Window
  <2>1. Counted(c) = [start |-> now, count |-> 1]
    BY <1>6 DEF Counted, b
  <2>2. Spent[c] = [end |-> 0, n |-> 0]
    BY <1>4, <1>6
  <2>3. Spent'[c] = [end |-> now + Window, n |-> 1]
    BY <1>0, <1>3, <2>1
  <2> QED BY <1>0, <1>1, <1>5, <2>1, <2>2, <2>3
<1>7. CASE ~(b.count = 0 \/ now - b.start >= Window)
  <2>1. Counted(c) = [start |-> b.start, count |-> b.count + 1]
    BY <1>0, <1>7 DEF Counted, b
  <2>2. Spent[c] = [end |-> b.start + Window, n |-> IF b.count < Max THEN b.count ELSE Max]
    BY <1>4, <1>7
  <2>3. Spent'[c] = [end |-> b.start + Window, n |-> IF b.count + 1 < Max THEN b.count + 1 ELSE Max]
    BY <1>0, <1>3, <1>7, <2>1
  <2>4. CASE b.count < Max
    <3>1. Spent[c] = [end |-> b.start + Window, n |-> b.count]
      BY <2>2, <2>4
    <3>2. Spent'[c] = [end |-> b.start + Window, n |-> b.count + 1]
      BY <1>0, <2>3, <2>4
    <3>3. Spent[c] # [end |-> 0, n |-> 0] /\ Spent[c].n < Max
      BY <1>0, <1>7, <2>4, <3>1
    <3>4. Spent'[c] = [end |-> Spent[c].end, n |-> Spent[c].n + 1]
      BY <3>1, <3>2
    <3>5. Counted(c).count <= Max
      BY <1>0, <2>1, <2>4
    <3>6. Spent' = [Spent EXCEPT ![c] =
               IF @ = [end |-> 0, n |-> 0] THEN [end |-> now + Window, n |-> 1]
               ELSE [end |-> @.end, n |-> @.n + 1]]
      <4>1. (IF Spent[c] = [end |-> 0, n |-> 0] THEN [end |-> now + Window, n |-> 1]
             ELSE [end |-> Spent[c].end, n |-> Spent[c].n + 1]) = Spent'[c]
        BY <3>3, <3>4
      <4> QED BY <1>8, <4>1, Zenon
    <3>7. ~(Counted(c).count > Max)
      BY <1>0, <2>1, <2>4
    <3> QED BY <3>3, <3>6, <3>7
  <2>5. CASE ~(b.count < Max)
    <3>1. Spent[c] = [end |-> b.start + Window, n |-> Max] /\ Spent'[c] = Spent[c]
      BY <1>0, <2>2, <2>3, <2>5
    <3>2. Counted(c).count > Max
      BY <1>0, <2>1, <2>5
    <3>3. now + RetryAfter(Counted(c)) = b.start + Window
      BY <1>0, <1>7, <2>1 DEF RetryAfter
    <3>4. Spent[c].n = Max /\ Spent[c].end = b.start + Window
      BY <3>1
    <3>5. Spent' = Spent
      BY <1>1, <1>5, <3>1
    <3>6. ~(Counted(c).count <= Max)
      BY <1>0, <2>1, <2>5
    <3> QED BY <3>2, <3>3, <3>4, <3>5, <3>6
  <2> QED BY <2>4, <2>5
<1> QED BY <1>6, <1>7

-----------------------------------------------------------------------------
(* The middleware.                                                         *)

\* A request that had no answer gets one, or an answered one keeps its own.
LEMMA ToldOf ==
  Told = [r \in Requests |-> Told[r]] /\ Told' = [r \in Requests |-> Told'[r]]
BY DEF Told

\* One request up to its body: allow() with its eviction, the check of the key, the
\* declared length.
LEMMA DispatchStep ==
  ASSUME IInv, NEW r \in Requests, NEW length \in {0, MaxBody + 1}, Dispatch(r, length)
  PROVE  IInv' /\ Promise!Next
<1> DEFINE caller == Caller(r)
           limited == Metered(r) /\ Counted(caller).count > Max
<1>1. caller \in Callers
  BY ProtectionConstants DEF Callers, Caller, Known
<1>2. /\ status[r] = "none" /\ now' = now
      /\ status' \in [Requests -> {"none", "limited", "unauthorized", "too_large", "body",
                                   "app", "answered", "error"}]
      /\ \A q \in Requests : q # r => status'[q] = status[q] /\ retry'[q] = retry[q]
      /\ status'[r] = "limited" <=> limited
      /\ status'[r] # "none"
      /\ status'[r] = "unauthorized" => r \notin Exempted
      /\ retry' = [retry EXCEPT ![r] = IF limited THEN now + RetryAfter(Counted(caller)) ELSE 0]
  BY DEF Dispatch, IInv
<1>3. Told' = [Told EXCEPT ![r] = Told'[r]] /\ Told[r] = [kind |-> "none", retry |-> 0]
  BY <1>2 DEF Told
<1>6. [q \in Requests |-> Caller(q)][r] = caller
  OBVIOUS
<1>4. CASE r \in Exempted
  <2>1. ~limited /\ UNCHANGED <<buckets, cleaned>>
    BY <1>4 DEF Dispatch, Metered
  <2>2. IInv'
    BY <1>2, <2>1 DEF IInv
  <2>3. Spent' = Spent
    BY <1>2, <2>1 DEF Spent
  <2>4. Told'[r] = [kind |-> "exempt", retry |-> 0]
    BY <1>2, <1>4, <2>1 DEF Told
  <2>5. Promise!Exempt(r)
    BY <1>2, <1>3, <1>4, <2>3, <2>4 DEF Promise!Exempt, Promise!Unasked, Promise!Passed, Spent, Told
  <2> QED BY <2>2, <2>5 DEF Promise!Next
<1>5. CASE r \notin Exempted
  <2>1. Allow(caller) /\ (limited <=> Counted(caller).count > Max)
    BY <1>5 DEF Dispatch, Metered
  <2> HIDE DEF limited, caller
  <2>2. /\ now + RetryAfter(Counted(caller)) \in Nat
        /\ buckets' \in [Callers -> [start : Nat, count : Nat]]
        /\ cleaned' \in Nat
        /\ \A c \in Callers : buckets'[c].start <= now
    <3>1. /\ Counted(caller).start \in Nat /\ Counted(caller).start <= now
          /\ now \in Nat /\ Window \in Nat
      BY <1>1, CountedIsBucket, ProtectionConstants DEF IInv
    <3>2. RetryAfter(Counted(caller)) \in Nat
      BY <3>1 DEF RetryAfter
    <3>3. \A c \in Callers : buckets'[c] \in {buckets[c], NoBucket, Counted(caller)}
      BY <1>1, <1>2, <2>1, AllowStep
    <3>4. \A c \in Callers : buckets'[c].start <= now
      BY <3>1, <3>3 DEF NoBucket, IInv
    <3> QED BY <1>1, <1>2, <2>1, <3>1, <3>2, <3>4, AllowStep
  <2>3. IInv'
    BY <1>2, <2>2 DEF IInv
  <2>4. CASE limited
    <3>1. Told'[r] = [kind |-> "refused", retry |-> now + RetryAfter(Counted(caller))]
      BY <1>2, <2>4 DEF Told, IInv
    <3>2. /\ Spent[caller].n = Max /\ Spent' = Spent
          /\ now + RetryAfter(Counted(caller)) = Spent[caller].end
      BY <1>1, <1>2, <2>1, <2>4, SpentStep
    <3>3. /\ Told[r] = Promise!Unasked /\ now' = now
          /\ Told' = [Told EXCEPT ![r] = Promise!Refused(Spent[caller].end)]
          /\ Spent[caller].n = Max /\ Spent' = Spent
      BY <1>2, <1>3, <3>1, <3>2 DEF Promise!Unasked, Promise!Refused
    <3>4. Promise!Refuse(r)
      BY <1>5, <1>6, <3>3 DEF Promise!Refuse, Spent, Told
    <3> QED BY <2>3, <3>4 DEF Promise!Next
  <2>5. CASE ~limited
    <3>1. Told'[r] \in {[kind |-> "admitted", retry |-> 0], [kind |-> "denied", retry |-> 0]}
      BY <1>2, <1>5, <2>5 DEF Told
    <3>2. Counted(caller).count <= Max
      BY <1>1, <2>1, <2>5, CountedIsBucket, ProtectionConstants
    <3>3. /\ Spent[caller].n < Max
          /\ Spent' = [Spent EXCEPT ![caller] =
               IF @ = [end |-> 0, n |-> 0] THEN [end |-> now + Window, n |-> 1]
               ELSE [end |-> @.end, n |-> @.n + 1]]
      BY <1>1, <1>2, <2>1, <3>2, SpentStep
    <3>4. Promise!Admit(r)
      BY <1>2, <1>3, <1>5, <1>6, <3>1, <3>3
         DEF Promise!Admit, Promise!Unasked, Promise!Admitted, Promise!Denied, Promise!Fresh,
             Spent, Told
    <3> QED BY <2>3, <3>4 DEF Promise!Next
  <2> QED BY <2>4, <2>5
<1> QED BY <1>4, <1>5

\* Parts of a body, answers and everything else that leaves limiter and clock alone.
LEMMA QuietStep ==
  ASSUME IInv, UNCHANGED <<now, buckets, cleaned, retry>>,
         \A r \in Requests : \/ status'[r] = status[r]
                             \/ /\ status[r] \in {"body", "app"}
                                /\ status'[r] \in {"too_large", "body", "app", "answered", "error"},
         status' \in [Requests -> {"none", "limited", "unauthorized", "too_large", "body",
                                   "app", "answered", "error"}]
  PROVE  IInv' /\ UNCHANGED <<now, Spent, Told>>
BY DEF IInv, Spent, Told

\* Reading the body and answering do not touch the limiter.
LEMMA BodyStep ==
  ASSUME IInv, NEW r \in Requests,
         \/ \E n \in 0..(MaxBody + 1), more \in BOOLEAN : ReceivePart(r, n, more)
         \/ Disconnect(r) \/ Answer(r)
  PROVE  IInv' /\ UNCHANGED <<now, Spent, Told>>
<1>1. UNCHANGED <<now, buckets, cleaned, retry>>
  BY DEF ReceivePart, Disconnect, Answer
<1>2. \E a \in {"too_large", "body", "app", "answered", "error"} :
        status[r] \in {"body", "app"} /\ status' = [status EXCEPT ![r] = a]
  BY DEF ReceivePart, Disconnect, Answer
<1> QED BY <1>1, <1>2, QuietStep DEF IInv

\* A restart forgets every bucket, which the promise allows at any time.
LEMMA RestartStep == ASSUME IInv, ServerRestarts PROVE IInv' /\ Promise!Next
<1>1. IInv'
  BY DEF ServerRestarts, IInv, NoBucket
<1>2. Spent' = [c \in Callers |-> [end |-> 0, n |-> 0]]
  BY DEF ServerRestarts, Spent, NoBucket
<1>3. Told' = Told /\ now' = now
  BY DEF ServerRestarts, Told, IInv
<1>4. Promise!Restart
  BY <1>2, <1>3 DEF Promise!Restart, Promise!Fresh, Spent, Told
<1> QED BY <1>1, <1>4 DEF Promise!Next

\* Time passes for limiter and promise alike; windows close by themselves.
LEMMA TickStep == ASSUME IInv, Tick PROVE IInv' /\ Promise!Next
<1>0. /\ now \in Nat /\ Window \in Nat \ {0} /\ Max \in Nat \ {0}
      /\ now' = now + 1 /\ UNCHANGED <<buckets, cleaned, status, retry>>
  BY ProtectionConstants DEF Tick, IInv
<1>1. IInv'
  BY <1>0 DEF IInv
<1>2. ASSUME NEW c \in Callers
      PROVE  Spent'[c] = IF Spent[c].end <= now' THEN [end |-> 0, n |-> 0] ELSE Spent[c]
  <2> DEFINE b == buckets[c]
  <2>1. b.start \in Nat /\ b.count \in Nat /\ b.start <= now /\ buckets'[c] = b
    BY <1>0 DEF IInv
  <2>2. Spent[c] = IF b.count = 0 \/ now - b.start >= Window
                     THEN [end |-> 0, n |-> 0]
                     ELSE [end |-> b.start + Window, n |-> IF b.count < Max THEN b.count ELSE Max]
    BY DEF Spent
  <2>3. Spent'[c] = IF b.count = 0 \/ now + 1 - b.start >= Window
                      THEN [end |-> 0, n |-> 0]
                      ELSE [end |-> b.start + Window, n |-> IF b.count < Max THEN b.count ELSE Max]
    BY <1>0, <2>1 DEF Spent
  <2> HIDE DEF b
  <2>4. CASE b.count = 0 \/ now - b.start >= Window
    <3>1. Spent[c] = [end |-> 0, n |-> 0] /\ Spent'[c] = [end |-> 0, n |-> 0]
      BY <1>0, <2>1, <2>2, <2>3, <2>4
    <3> QED BY <1>0, <3>1
  <2>5. CASE ~(b.count = 0 \/ now - b.start >= Window)
    <3>1. Spent[c] = [end |-> b.start + Window, n |-> IF b.count < Max THEN b.count ELSE Max]
      BY <2>2, <2>5
    <3>2. Spent[c].end = b.start + Window
      BY <3>1
    <3>3. b.start + Window <= now + 1 <=> now + 1 - b.start >= Window
      BY <1>0, <2>1
    <3> QED BY <1>0, <2>3, <2>5, <3>1, <3>2, <3>3
  <2> QED BY <2>4, <2>5
<1>3. Spent' = [c \in Callers |-> IF Spent[c].end <= now' THEN [end |-> 0, n |-> 0] ELSE Spent[c]]
  BY <1>2 DEF Spent
<1>4. Told' = Told
  BY <1>0 DEF Told
<1>5. Promise!Tick
  BY <1>0, <1>3, <1>4 DEF Promise!Tick, Promise!Fresh, Spent, Told
<1> QED BY <1>1, <1>5 DEF Promise!Next

\* Every step keeps the invariant and is a step of the fixed window or none.
LEMMA NextStep == ASSUME IInv, [Next]_vars PROVE IInv' /\ (Promise!Next \/ UNCHANGED <<now, Spent, Told>>)
<1>1. CASE UNCHANGED vars
  BY <1>1 DEF vars, IInv, Spent, Told
<1>2. CASE Next
  <2>1. CASE \E r \in Requests, length \in {0, MaxBody + 1} : Dispatch(r, length)
    BY <2>1, DispatchStep, Zenon
  <2>2. CASE \E r \in Requests :
               \/ \E n \in 0..(MaxBody + 1), more \in BOOLEAN : ReceivePart(r, n, more)
               \/ Disconnect(r) \/ Answer(r)
    BY <2>2, BodyStep, Zenon
  <2> QED BY <1>2, <2>1, <2>2, RestartStep, TickStep, Zenon DEF Next
<1> QED BY <1>1, <1>2

\* For any callers and any interleaving of their requests, whoever has used up a window
\* is refused on every route but the exempt ones, an eviction takes no open window away,
\* each request is charged to its own caller whether its key is right or wrong, and a
\* refused caller is told when its window ends (FixedWindowRateLimiter, _dispatch).
THEOREM FixedWindowKept == Spec => LimiterSpec
<1>1. IInv /\ [Next]_vars => IInv' /\ [Promise!Next]_<<now, Spent, Told>>
  BY NextStep
<1> QED BY <1>1, InitInv, InitRefines, PTL DEF Spec, LimiterSpec, Promise!Spec, Spent, Told
================================================================================
