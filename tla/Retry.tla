------------------------------- MODULE Retry -------------------------------
(***************************************************************************)
(* src/llm_client_kit/retry.py and the two functions of transport.py that  *)
(* feed it: which failures are retried, how long to wait first, and what a *)
(* Deadline leaves of a wait.  Time is counted in whole units.             *)
(*                                                                         *)
(* A failed attempt is a record: status is the HTTP status or None when no *)
(* response came, exc the exception that was raised, retry_after the value *)
(* of the Retry-After header as the client understood it.                  *)
(***************************************************************************)
EXTENDS Integers

CONSTANTS
  MaxRetries,  \* RetryPolicy.max_retries
  BaseDelay,   \* RetryPolicy.base_delay_s
  MaxDelay,    \* RetryPolicy.max_delay_s
  Jitter,      \* RetryPolicy.jitter
  None         \* Python's None

ASSUME PolicyAssumption ==
  /\ MaxRetries \in Nat
  /\ BaseDelay \in Nat
  /\ MaxDelay \in Nat
  /\ Jitter \in BOOLEAN
  /\ None \notin Int

Least(a, b) == IF a <= b THEN a ELSE b

-----------------------------------------------------------------------------
RETRYABLE_STATUS == {408, 409, 429, 500, 502, 503, 504, 529}

(* httpx's TimeoutException and TransportError get the name of the stdlib  *)
(* type the policy knows; any other exception keeps its own.               *)
as_retryable_os_error(exc) ==
  IF exc = "TimeoutException" THEN "TimeoutError"
  ELSE IF exc = "TransportError" THEN "ConnectionError"
  ELSE exc

OSErrors == {"TimeoutError", "ConnectionError", "OSError"}

(* A failure that another attempt may cure                                 *)
Retryable(f) ==
  IF f.status # None
  THEN f.status \in RETRYABLE_STATUS
  ELSE as_retryable_os_error(f.exc) \in OSErrors

RetryOnceMore(attempt, f) == attempt <= MaxRetries /\ Retryable(f)
RetryOnceLess(attempt, f) == attempt + 1 < MaxRetries /\ Retryable(f)
should_retry(attempt, f) == attempt < MaxRetries /\ Retryable(f)

(* The Retry-After header: only a number of seconds that is not negative   *)
(* counts; a date, or no header, is None.                                  *)
retry_after_seconds(header) == IF header \in Nat THEN header ELSE None

Backoff(attempt) == Least(BaseDelay * 2 ^ attempt, MaxDelay)

UncappedDelay(attempt, retry_after) ==
  {IF retry_after # None THEN retry_after ELSE Backoff(attempt)}

(* The delays delay_for may return.  rng.uniform may return any value from *)
(* no wait to the whole backoff.                                           *)
delay_for(attempt, retry_after) ==
  {d \in 0 .. MaxDelay :
     IF retry_after # None THEN d = Least(retry_after, MaxDelay)
     ELSE IF Jitter THEN d <= Backoff(attempt)
     ELSE d = Backoff(attempt)}

-----------------------------------------------------------------------------
(* Deadline: a budget of total units from time start on, or none at all.   *)
HasDeadline(total) == total # None

expired(total, start, t) == HasDeadline(total) /\ start + total <= t

clamp(total, start, t, wait) ==
  IF ~HasDeadline(total) THEN wait
  ELSE IF expired(total, start, t) THEN 0
  ELSE Least(wait, start + total - t)
=============================================================================
