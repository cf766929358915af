--------------------------- MODULE CircuitBreaker ---------------------------
(***************************************************************************)
(* DockerCircuitBreaker (tako_vm/execution/health.py) as operators from    *)
(* the breaker before a call to the breaker after it: every method holds   *)
(* self._lock for its whole body.  "ripe" says that recovery_timeout has   *)
(* passed since _last_failure_time.                                        *)
(***************************************************************************)
EXTENDS Naturals

CONSTANTS
  FailureThreshold,  \* failure_threshold
  SuccessThreshold   \* success_threshold

ASSUME ThresholdAssumption ==
  FailureThreshold \in Nat \ {0} /\ SuccessThreshold \in Nat \ {0}

Breaker ==
  [state: {"closed", "open", "half_open"}, failures: Nat, successes: Nat]

NewBreaker == [state |-> "closed", failures |-> 0, successes |-> 0]

\* is_available is a getter with a side effect: it is the only way out of "open".
Probed(b, ripe) ==
  IF b.state = "open" /\ ripe THEN [b EXCEPT !.state = "half_open", !.successes = 0] ELSE b

IsAvailable(b, ripe) == Probed(b, ripe).state # "open"

\* Mutant: the circuit closes without forgetting the failures that opened it.
RecordSuccessKeeping(b) ==
  CASE b.state = "closed"    -> [b EXCEPT !.failures = 0]
    [] b.state = "half_open" ->
         [b EXCEPT !.successes = @ + 1,
                   !.state = IF b.successes + 1 >= SuccessThreshold THEN "closed" ELSE @]
    [] OTHER                 -> b

\* record_success: ignored while the circuit is open.
RecordSuccess(b) ==
  LET n == b.successes + 1
  IN  CASE b.state = "closed" -> [b EXCEPT !.failures = 0]
        [] b.state = "half_open" /\ n < SuccessThreshold -> [b EXCEPT !.successes = n]
        [] b.state = "half_open" /\ n >= SuccessThreshold ->
             [state |-> "closed", failures |-> 0, successes |-> n]
        [] OTHER -> b

\* Mutant: failures count in the half-open state as in the closed one.
RecordFailureLenient(b) ==
  LET n == b.failures + 1
  IN  [b EXCEPT !.failures = n,
                !.state = IF @ = "closed" /\ n >= FailureThreshold THEN "open" ELSE @]

\* record_failure: counted in every state; opens the circuit at the threshold,
\* and at once when it is half open.
RecordFailure(b) ==
  LET n == b.failures + 1
      opens == b.state = "half_open" \/ (b.state = "closed" /\ n >= FailureThreshold)
  IN  [b EXCEPT !.failures = n, !.state = IF opens THEN "open" ELSE @]
=============================================================================
