----------------------------- MODULE FixedWindow -----------------------------
(***************************************************************************)
(* What the API promises about its rate limit (limits.py: "In-memory       *)
(* fixed-window limiter"): each caller has Max requests in a window that   *)
(* starts with the first of them; a request beyond that is refused and     *)
(* told a time from which the caller has a new window.  No caller is ever  *)
(* forgotten while a window of its own is open, except by a restart, and   *)
(* only the routes that are exempt are served without paying.              *)
(* ApiProtection implements this: see Promise there.                       *)
(***************************************************************************)
EXTENDS Naturals

CONSTANTS Callers, Requests,
          Payer,     \* who pays for a request
          Exempted,  \* the requests for routes that are not limited
          Max, Window

VARIABLES now,     \* the clock
          spent,   \* what each caller has used of its open window
          answer   \* what each request was told

\* No window is open.
Fresh == [end |-> 0, n |-> 0]

Unasked  == [kind |-> "none", retry |-> 0]
Passed   == [kind |-> "exempt", retry |-> 0]
Admitted == [kind |-> "admitted", retry |-> 0]
Denied   == [kind |-> "denied", retry |-> 0]
Refused(t) == [kind |-> "refused", retry |-> t]

Init ==
  /\ now = 0
  /\ spent = [c \in Callers |-> Fresh]
  /\ answer = [r \in Requests |-> Unasked]

\* A request within the limit passes, or is denied for want of an API key: its
\* caller pays for it all the same.
Admit(r) ==
  /\ answer[r] = Unasked /\ r \notin Exempted
  /\ \E a \in {Admitted, Denied} : answer' = [answer EXCEPT ![r] = a]
  /\ spent[Payer[r]].n < Max
  /\ spent' = [spent EXCEPT ![Payer[r]] =
       IF @ = Fresh THEN [end |-> now + Window, n |-> 1] ELSE [end |-> @.end, n |-> @.n + 1]]
  /\ UNCHANGED now

Refuse(r) ==
  /\ answer[r] = Unasked /\ r \notin Exempted
  /\ answer' = [answer EXCEPT ![r] = Refused(spent[Payer[r]].end)]
  /\ spent[Payer[r]].n = Max
  /\ UNCHANGED <<now, spent>>

\* A route that is not limited, and no other, is served for nothing.
Exempt(r) ==
  /\ answer[r] = Unasked /\ r \in Exempted
  /\ answer' = [answer EXCEPT ![r] = Passed]
  /\ UNCHANGED <<now, spent>>

Tick ==
  /\ now' = now + 1
  /\ spent' = [c \in Callers |-> IF spent[c].end <= now' THEN Fresh ELSE spent[c]]
  /\ UNCHANGED answer

Restart ==
  /\ spent' = [c \in Callers |-> Fresh]
  /\ UNCHANGED <<now, answer>>

Next ==
  \/ \E r \in Requests : Admit(r) \/ Refuse(r) \/ Exempt(r)
  \/ Tick \/ Restart

Spec == Init /\ [][Next]_<<now, spent, answer>>
=============================================================================
