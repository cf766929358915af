---------------------------- MODULE ApiProtection ----------------------------
(***************************************************************************)
(* ApiProtectionMiddleware and its FixedWindowRateLimiter (limits.py): a   *)
(* request is identified, metered, authenticated and measured before the   *)
(* application sees it.                                                    *)
(*                                                                         *)
(* Up to the first part of the body there is no await, so that is one      *)
(* action; bodies of many requests arrive interleaved.  The configuration  *)
(* is fixed while a server runs, with the limiter enabled, and each server *)
(* process has a limiter of its own.  The clock counts whole seconds.      *)
(***************************************************************************)
EXTENDS Naturals, FiniteSets

CONSTANTS Requests,    \* HTTP requests
          Exempted,    \* those for _RATE_LIMIT_EXEMPT_PATHS and _PREFIXES
          Host, Key,   \* where a request is from, and its API key header or bearer token
          Hosts,       \* scope["client"], "unknown" included
          Keys,        \* config.api_keys
          WrongKey,    \* a key that is none of them
          NoKey,       \* no key, or one that cannot be decoded
          Auth,        \* config.api_auth_enabled
          Max, Window, \* config.api_rate_limit_requests and _window_seconds
          MaxBody,     \* config.api_max_payload_bytes
          MaxTime,     \* bound of the clock
          MaxRestarts  \* bound: server restarts

ASSUME ProtectionConstants ==
  /\ Keys \intersect (Hosts \union {WrongKey, NoKey}) = {} /\ WrongKey # NoKey
  /\ Host \in [Requests -> Hosts] /\ Key \in [Requests -> Keys \union {WrongKey, NoKey}]
  /\ Exempted \subseteq Requests
  /\ Auth \in BOOLEAN
  /\ Max \in Nat \ {0} /\ Window \in Nat \ {0}
  /\ MaxBody \in Nat /\ MaxTime \in Nat /\ MaxRestarts \in Nat

Callers == Hosts \union Keys

VARIABLES now,       \* time.monotonic()
          buckets,   \* FixedWindowRateLimiter._buckets; count 0: no entry
          cleaned,   \* _last_cleanup
          status,    \* how far a request is, or how it was answered
          retry,     \* the time at which Retry-After tells a refused one to come back
          seen,      \* body_bytes_seen
          restarts

vars == <<now, buckets, cleaned, status, retry, seen, restarts>>

NoBucket == [start |-> 0, count |-> 0]

Init ==
  /\ now = 0
  /\ buckets = [c \in Callers |-> NoBucket]
  /\ cleaned = 0
  /\ status = [r \in Requests |-> "none"]
  /\ retry = [r \in Requests |-> 0]
  /\ seen = [r \in Requests |-> 0]
  /\ restarts = 0

-----------------------------------------------------------------------------
(* FixedWindowRateLimiter.                                                 *)

\* The bucket of c after one more request: counted whether admitted or not.
Counted(c) ==
  LET b == buckets[c] IN
  IF b.count = 0 \/ now - b.start >= Window
    THEN [start |-> now, count |-> 1]
    ELSE [b EXCEPT !.count = @ + 1]

\* The limiter is made for the first request that needs it.
LastCleanup == IF \A c \in Callers : buckets[c].count = 0 THEN now ELSE cleaned

\* _cleanup_if_needed: once in a window, entries older than two.
Evicted(all) ==
  IF now - LastCleanup < Window THEN all
  ELSE [c \in Callers |-> IF all[c].start + 2 * Window < now THEN NoBucket ELSE all[c]]

\* allow(), under the lock.
Allow(c) ==
  /\ buckets' = Evicted([buckets EXCEPT ![c] = Counted(c)])
  /\ cleaned' = IF now - LastCleanup < Window THEN LastCleanup ELSE now

\* Retry-After: what is left of the window, one second at least.
RetryAfter(b) == IF Window > now - b.start THEN Window - (now - b.start) ELSE 1

-----------------------------------------------------------------------------
(* ApiProtectionMiddleware.                                                *)

\* The caller is the API key if it is a valid one and the host if not.
Known(r) == Auth /\ Key[r] \in Keys
Caller(r) == IF Known(r) THEN Key[r] ELSE Host[r]

\* Mutant: whoever has a key is trusted and not metered.
MeteredIfUnknown(r) == r \notin Exempted /\ ~Known(r)

\* Health, schema and docs are neither limited nor authenticated; for any other
\* route the limiter runs before a missing or wrong key is rejected.
Metered(r) == r \notin Exempted

\* _dispatch up to the body.  A Content-Length that is missing or malformed counts
\* as 0.
Dispatch(r, length) ==
  LET limited == Metered(r) /\ Counted(Caller(r)).count > Max
      open == r \in Exempted \/ ~Auth \/ Known(r)
  IN
  /\ status[r] = "none"
  /\ IF Metered(r) THEN Allow(Caller(r)) ELSE UNCHANGED <<buckets, cleaned>>
  /\ status' = [status EXCEPT ![r] =
       CASE limited -> "limited"
         [] ~limited /\ ~open -> "unauthorized"
         [] ~limited /\ open -> IF length > MaxBody THEN "too_large" ELSE "body"]
  /\ retry' = [retry EXCEPT ![r] =
       IF limited THEN now + RetryAfter(Counted(Caller(r))) ELSE 0]
  /\ UNCHANGED <<now, seen, restarts>>

\* _buffer_and_validate_body: one more part of n bytes, whatever Content-Length
\* said.
ReceivePart(r, n, more) ==
  /\ status[r] = "body"
  /\ seen' = [seen EXCEPT ![r] = IF @ + n > MaxBody \/ ~more THEN 0 ELSE @ + n]
  /\ status' = [status EXCEPT ![r] =
       CASE seen[r] + n > MaxBody -> "too_large"
         [] seen[r] + n <= MaxBody /\ ~more -> "app"
         [] OTHER -> "body"]
  /\ UNCHANGED <<now, buckets, cleaned, retry, restarts>>

\* Any other message, such as http.disconnect, ends the body: the application
\* gets what there is.
Disconnect(r) ==
  /\ status[r] = "body"
  /\ status' = [status EXCEPT ![r] = "app"]
  /\ seen' = [seen EXCEPT ![r] = 0]
  /\ UNCHANGED <<now, buckets, cleaned, retry, restarts>>

\* The application answers; an exception in the protection is answered with 500.
Answer(r) ==
  /\ \/ status[r] = "app" /\ status' = [status EXCEPT ![r] = "answered"]
     \/ status[r] = "body" /\ status' = [status EXCEPT ![r] = "error"]
  /\ seen' = [seen EXCEPT ![r] = 0]
  /\ UNCHANGED <<now, buckets, cleaned, retry, restarts>>

\* The server is started again, with a new limiter; open requests are lost.
ServerRestarts ==
  /\ restarts < MaxRestarts /\ restarts' = restarts + 1
  /\ buckets' = [c \in Callers |-> NoBucket]
  /\ cleaned' = 0
  /\ status' = [r \in Requests |-> IF status[r] \in {"body", "app"} THEN "error" ELSE status[r]]
  /\ seen' = [r \in Requests |-> 0]
  /\ UNCHANGED <<now, retry>>

Tick ==
  /\ now < MaxTime /\ now' = now + 1
  /\ UNCHANGED <<buckets, cleaned, status, retry, seen, restarts>>

Next ==
  \/ \E r \in Requests :
       \/ \E length \in {0, MaxBody + 1} : Dispatch(r, length)
       \/ \E n \in 0..(MaxBody + 1), more \in BOOLEAN : ReceivePart(r, n, more)
       \/ Disconnect(r) \/ Answer(r)
  \/ ServerRestarts
  \/ Tick

Spec == Init /\ [][Next]_vars

-----------------------------------------------------------------------------
Promise == INSTANCE FixedWindow WITH
  Payer <- [r \in Requests |-> Caller(r)],
  spent <- [c \in Callers |->
              IF buckets[c].count = 0 \/ now - buckets[c].start >= Window
                THEN [end |-> 0, n |-> 0]
                ELSE [end |-> buckets[c].start + Window,
                      n |-> IF buckets[c].count < Max THEN buckets[c].count ELSE Max]],
  answer <- [r \in Requests |->
              CASE status[r] = "none"    -> [kind |-> "none", retry |-> 0]
                [] status[r] = "limited" -> [kind |-> "refused", retry |-> retry[r]]
                [] status[r] = "unauthorized" -> [kind |-> "denied", retry |-> 0]
                [] OTHER -> [kind |-> IF r \in Exempted THEN "exempt" ELSE "admitted",
                             retry |-> 0]]

\* The middleware keeps the promise of a fixed window: whoever has used it up is
\* refused and nobody else, evicting old entries to bound the memory takes no open
\* window away from anybody, every request for a route that is not exempt is
\* charged to its caller, one with a missing or wrong key to its host, and the
\* Retry-After of a refusal is the end of the window, no matter who else asks and
\* when.
LimiterSpec == Promise!Spec
=============================================================================
