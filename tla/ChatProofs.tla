----------------------------- MODULE ChatProofs -----------------------------
(***************************************************************************)
(* Theorems about Chat for any number of calls, any policy, any deadlines, *)
(* any headers and any lateness of the event loop.                         *)
(*                                                                         *)
(* The point of the argument is the truncated sleep: the deadline may cut  *)
(* a sleep short of what the server asked for, but then the sleep ends at  *)
(* the deadline, and the check at the head of the loop sends nothing.      *)
(***************************************************************************)
EXTENDS Chat, TLAPS

(* The retry loop sleeps only while attempts are left.                     *)
RetriesLeft == \A c \in Calls : pc[c] = "sleeping" => attempt[c] < MaxRetries

(* A sleep lasts as long as the server asked, or up to the deadline.       *)
SleepsLongEnough ==
  \A c \in Calls :
     (pc[c] = "sleeping" /\ failure[c] # None /\ failure[c].retry_after # None)
       => \/ failedAt[c] + Least(failure[c].retry_after, MaxDelay) <= due[c]
          \/ expired(total[c], start[c], due[c])

(* A call has no error before it begins and no outcome before it ends.     *)
Fresh ==
  \A c \in Calls :
     /\ pc[c] = "idle" => failure[c] = None
     /\ pc[c] # "ended" => outcome[c] = None

IInv == TypeOK /\ RetriesLeft /\ SleepsLongEnough /\ Fresh

-----------------------------------------------------------------------------
(* A wait cut to the deadline is no longer than the wait, and if it is     *)
(* shorter it ends at the deadline.                                        *)
LEMMA ClampBounds ==
  ASSUME NEW tot \in Nat \cup {None}, NEW st \in Int, NEW t \in Nat,
         NEW wait \in Nat
  PROVE  /\ clamp(tot, st, t, wait) \in 0 .. wait
         /\ \/ clamp(tot, st, t, wait) = wait
            \/ expired(tot, st, t + clamp(tot, st, t, wait))
  BY PolicyAssumption DEF clamp, expired, HasDeadline, Least

(* Retry-After is obeyed up to max_delay_s, and no delay exceeds that.     *)
LEMMA DelayBounds ==
  ASSUME NEW a, NEW ra, NEW d \in delay_for(a, ra)
  PROVE  /\ d \in 0 .. MaxDelay
         /\ ra # None => d = Least(ra, MaxDelay)
  BY DEF delay_for

LEMMA InitInvariant == Init => IInv
<1> SUFFICES ASSUME Init PROVE IInv
  OBVIOUS
<1>1. TypeOK
  <2>1. /\ attempt \in [Calls -> 0 .. MaxRetries]
        /\ timeout \in [Calls -> 0 .. TimeoutS]
        /\ phase \in [Calls -> 0 .. NetPhases + 1]
        /\ trickled \in [Calls -> BOOLEAN]
    BY PolicyAssumption, ClientAssumption DEF Init
  <2>2. /\ pc \in [Calls -> Timed \cup {"idle", "ended"}]
        /\ total \in [Calls -> Nat \cup {None}]
        /\ failure \in [Calls -> Failures \cup {None}]
        /\ outcome \in [Calls -> Outcomes \cup {None}]
    BY DEF Init
  <2>3. /\ start \in [Calls -> Int] /\ started \in [Calls -> Nat]
        /\ due \in [Calls -> Nat] /\ failedAt \in [Calls -> Nat]
        /\ now \in Nat
    BY DEF Init
  <2>4. closed \in BOOLEAN /\ closedAt \in Nat
    BY DEF Init
  <2> QED
    BY <2>1, <2>2, <2>3, <2>4 DEF TypeOK
<1>2. RetriesLeft /\ SleepsLongEnough /\ Fresh
  BY DEF Init, RetriesLeft, SleepsLongEnough, Fresh
<1> QED
  BY <1>1, <1>2 DEF IInv

(* The head of the loop keeps the invariant, whether chat has just been    *)
(* called or a sleep is over; the caller's variables are given.            *)
LEMMA AttemptKeeps ==
  ASSUME IInv,
         NEW c \in Calls, NEW tot \in Nat \cup {None}, NEW st \in Int,
         pc[c] \in {"idle", "sleeping"},
         Attempt(c, tot, st),
         attempt' \in [Calls -> 0 .. MaxRetries],
         \A k \in Calls \ {c} : attempt'[k] = attempt[k],
         total' \in [Calls -> Nat \cup {None}],
         start' \in [Calls -> Int],
         started' \in [Calls -> Nat],
         \A k \in Calls \ {c} : total'[k] = total[k] /\ start'[k] = start[k],
         UNCHANGED <<closing, now>>
  PROVE  IInv'
<1> USE DEF IInv
<1>1. clamp(tot, st, now, TimeoutS) \in 0 .. TimeoutS
  BY ClampBounds, ClientAssumption DEF TypeOK
<1>2. TypeOK'
  <2>1. /\ pc' \in [Calls -> Timed \cup {"idle", "ended"}]
        /\ outcome' \in [Calls -> Outcomes \cup {None}]
    BY DEF TypeOK, Attempt, BudgetGone, AttemptTimeout, ClientClosed, End, Timed, Outcomes
  <2>2. /\ timeout' \in [Calls -> 0 .. TimeoutS]
        /\ phase' \in [Calls -> 0 .. NetPhases + 1]
        /\ trickled' \in [Calls -> BOOLEAN]
    BY <1>1, ClientAssumption DEF TypeOK, Attempt, BudgetGone, AttemptTimeout, ClientClosed, End, netVars
  <2>3. due' \in [Calls -> Nat]
    BY <1>1, ClientAssumption DEF TypeOK, Attempt, BudgetGone, AttemptTimeout, ClientClosed, End
  <2>4. failure' \in [Calls -> Failures \cup {None}] /\ failedAt' \in [Calls -> Nat]
    BY DEF TypeOK, Attempt, errorVars, Raised, Failures
  <2> QED
    BY <2>1, <2>2, <2>3, <2>4 DEF TypeOK, closing
<1>3. /\ pc'[c] \in {"ended", "net", "pooled"}
      /\ pc'[c] # "ended" => outcome'[c] = outcome[c]
      /\ \A k \in Calls \ {c} :
            /\ pc'[k] = pc[k] /\ due'[k] = due[k] /\ outcome'[k] = outcome[k]
            /\ failure'[k] = failure[k] /\ failedAt'[k] = failedAt[k]
  BY DEF TypeOK, Attempt, BudgetGone, AttemptTimeout, ClientClosed, End, errorVars
<1>4. RetriesLeft'
  BY <1>3 DEF RetriesLeft
<1>5. SleepsLongEnough'
  BY <1>3 DEF SleepsLongEnough
<1>6. Fresh'
  BY <1>3 DEF Fresh
<1> QED
  BY <1>2, <1>4, <1>5, <1>6

(* The tail of the loop keeps it, for a failure of the right shape.        *)
LEMMA FailKeeps ==
  ASSUME IInv, NEW c \in Calls, NEW f \in Failures,
         pc[c] \in InRequest, Fail(c, f)
  PROVE  IInv'
<1> USE DEF IInv
<1>1. /\ failure' = [failure EXCEPT ![c] = f]
      /\ failedAt' = [failedAt EXCEPT ![c] = now]
      /\ UNCHANGED <<attempt, total, start, started, timeout, phase, trickled>>
      /\ UNCHANGED <<closed, closedAt, now>>
  BY DEF Fail, budgetVars, netVars, closing
<1>2. \A k \in Calls \ {c} :
         /\ pc'[k] = pc[k] /\ due'[k] = due[k] /\ outcome'[k] = outcome[k]
         /\ failure'[k] = failure[k] /\ failedAt'[k] = failedAt[k]
  BY <1>1 DEF Fail, End, TypeOK
<1>3. CASE /\ End(c, "last_error") \/ End(c, "RetryBudgetExceeded")
  <2>1. TypeOK'
    BY <1>1, <1>3 DEF TypeOK, End, Outcomes, Timed
  <2>2. pc'[c] = "ended"
    BY <1>3 DEF End, TypeOK
  <2> QED
    BY <1>1, <1>2, <2>1, <2>2 DEF RetriesLeft, SleepsLongEnough, Fresh
<1>4. ASSUME should_retry(attempt[c], f),
             NEW d \in delay_for(attempt[c], f.retry_after),
             due' = [due EXCEPT ![c] = now + clamp(total[c], start[c], now, d)],
             pc' = [pc EXCEPT ![c] = "sleeping"],
             UNCHANGED outcome
      PROVE  IInv'
  <2> DEFINE w == clamp(total[c], start[c], now, d)
  <2>1. /\ total[c] \in Nat \cup {None} /\ start[c] \in Int /\ now \in Nat
        /\ d \in Nat
        /\ f.retry_after # None => d = Least(f.retry_after, MaxDelay)
    BY <1>4, DelayBounds, PolicyAssumption DEF TypeOK
  <2>2. w \in Nat /\ (w = d \/ expired(total[c], start[c], now + w))
    <3>1. w \in 0 .. d /\ (w = d \/ expired(total[c], start[c], now + w))
      BY <2>1, ClampBounds
    <3> QED
      BY <2>1, <3>1
  <2>3. due'[c] = now + w /\ pc'[c] = "sleeping"
        /\ failure'[c] = f /\ failedAt'[c] = now
    BY <1>1, <1>4 DEF TypeOK
  <2> HIDE DEF w
  <2>4. TypeOK'
    <3>1. due' \in [Calls -> Nat]
      BY <1>4, <2>1, <2>2, <2>3 DEF TypeOK
    <3> QED
      BY <1>1, <1>4, <3>1 DEF TypeOK, Timed
  <2>5. RetriesLeft'
    BY <1>1, <1>2, <1>4, <2>3 DEF RetriesLeft, should_retry
  <2>6. SleepsLongEnough'
    <3>1. \/ f.retry_after = None
          \/ now + Least(f.retry_after, MaxDelay) <= now + w
          \/ expired(total[c], start[c], now + w)
      BY <2>1, <2>2
    <3> QED
      BY <1>1, <1>2, <2>3, <3>1 DEF SleepsLongEnough
  <2>7. Fresh'
    BY <1>2, <1>4, <2>3 DEF Fresh, InRequest
  <2> QED
    BY <2>4, <2>5, <2>6, <2>7
<1> QED
  BY <1>3, <1>4 DEF Fail

LEMMA BeginInvariant ==
  \A c \in Calls : \A tot \in Deadlines, age \in Ages :
     IInv /\ Begin(c, tot, age) => IInv'
<1> SUFFICES ASSUME NEW c \in Calls, NEW tot \in Deadlines, NEW age \in Ages,
                    IInv, Begin(c, tot, age)
             PROVE  IInv'
  OBVIOUS
<1>1. tot \in Nat \cup {None} /\ now - age \in Int /\ pc[c] = "idle"
  BY ClientAssumption DEF IInv, TypeOK, Begin
<1>2. /\ Attempt(c, tot, now - age)
      /\ total' = [total EXCEPT ![c] = tot]
      /\ start' = [start EXCEPT ![c] = now - age]
      /\ started' = [started EXCEPT ![c] = now]
      /\ UNCHANGED <<attempt, closing, now>>
  BY DEF Begin
<1>3. /\ attempt' \in [Calls -> 0 .. MaxRetries]
      /\ total' \in [Calls -> Nat \cup {None}]
      /\ start' \in [Calls -> Int] /\ started' \in [Calls -> Nat]
      /\ \A k \in Calls \ {c} :
            attempt'[k] = attempt[k] /\ total'[k] = total[k] /\ start'[k] = start[k]
  BY <1>1, <1>2 DEF IInv, TypeOK
<1> QED
  BY <1>1, <1>2, <1>3, AttemptKeeps

LEMMA WakeInvariant == \A c \in Calls : IInv /\ Wake(c) => IInv'
<1> SUFFICES ASSUME NEW c \in Calls, IInv, Wake(c)
             PROVE  IInv'
  OBVIOUS
<1>1. /\ pc[c] = "sleeping" /\ Attempt(c, total[c], start[c])
      /\ attempt' = [attempt EXCEPT ![c] = @ + 1]
      /\ UNCHANGED <<total, start, started, closing, now>>
  BY DEF Wake, NextAttempt, budgetVars
<1>2. total[c] \in Nat \cup {None} /\ start[c] \in Int
  BY DEF IInv, TypeOK
<1>3. attempt[c] + 1 \in 0 .. MaxRetries
  BY <1>1, PolicyAssumption DEF IInv, TypeOK, RetriesLeft
<1>4. /\ attempt' \in [Calls -> 0 .. MaxRetries]
      /\ total' \in [Calls -> Nat \cup {None}]
      /\ start' \in [Calls -> Int] /\ started' \in [Calls -> Nat]
      /\ \A k \in Calls \ {c} :
            attempt'[k] = attempt[k] /\ total'[k] = total[k] /\ start'[k] = start[k]
  BY <1>1, <1>3 DEF IInv, TypeOK
<1> QED
  BY <1>1, <1>2, <1>4, AttemptKeeps

(* The four ways a request fails.                                          *)
LEMMA FailureInvariant ==
  \A c \in Calls :
     /\ IInv
     /\ \/ \E status \in Statuses, header \in Headers : Refuse(c, status, header)
        \/ \E exc \in Exceptions : Break(c, exc)
        \/ Expire(c)
     => IInv'
<1> SUFFICES ASSUME NEW c \in Calls, IInv,
                    \/ \E status \in Statuses, header \in Headers :
                          Refuse(c, status, header)
                    \/ \E exc \in Exceptions : Break(c, exc)
                    \/ Expire(c)
             PROVE  IInv'
  OBVIOUS
<1>1. ASSUME NEW status \in Statuses, NEW header \in Headers
      PROVE  Answered(status, header) \in Failures
  BY ClientAssumption DEF Answered, Failures, retry_after_seconds
<1>2. ASSUME NEW exc \in {"TransportError", "DecodingError", "TimeoutException"}
      PROVE  Raised(exc) \in Failures
  BY DEF Raised, Failures
<1>3. \E f \in Failures : pc[c] \in InRequest /\ Fail(c, f)
  BY <1>1, <1>2, ClientAssumption DEF Refuse, Break, Expire, InRequest
<1> QED
  BY <1>3, FailKeeps

(* The steps that leave the errors and the budget of every call alone, and *)
(* put no call to sleep.                                                   *)
LEMMA QuietInvariant ==
  ASSUME IInv,
         UNCHANGED <<attempt, budgetVars, timeout, errorVars>>,
         pc' \in [Calls -> Timed \cup {"idle", "ended"}],
         phase' \in [Calls -> 0 .. NetPhases + 1],
         trickled' \in [Calls -> BOOLEAN],
         due' \in [Calls -> Nat],
         outcome' \in [Calls -> Outcomes \cup {None}],
         closed' \in BOOLEAN,
         closedAt' \in Nat,
         now' \in Nat,
         \A c \in Calls :
            \/ /\ pc'[c] = pc[c] /\ outcome'[c] = outcome[c]
               /\ pc[c] = "sleeping" => due'[c] = due[c]
            \/ /\ pc'[c] \in InRequest /\ pc[c] # "ended"
               /\ outcome'[c] = outcome[c]
            \/ pc'[c] = "ended"
  PROVE  IInv'
<1>1. TypeOK'
  BY DEF IInv, TypeOK, budgetVars, errorVars
<1>2. RetriesLeft' /\ Fresh'
  BY DEF IInv, RetriesLeft, Fresh, InRequest, errorVars
<1>3. SleepsLongEnough'
  BY DEF IInv, SleepsLongEnough, InRequest, budgetVars, errorVars
<1> QED
  BY <1>1, <1>2, <1>3 DEF IInv

LEMMA RequestInvariant ==
  \A c \in Calls :
     IInv /\ (Reject(c) \/ Grant(c) \/ Proceed(c) \/ Finish(c) \/ Cancel(c)) => IInv'
<1> SUFFICES ASSUME NEW c \in Calls, IInv,
                    Reject(c) \/ Grant(c) \/ Proceed(c) \/ Finish(c) \/ Cancel(c)
             PROVE  IInv'
  OBVIOUS
<1>1. now + timeout[c] \in Nat
  BY ClientAssumption DEF IInv, TypeOK
<1>2. CASE Reject(c) \/ Finish(c) \/ Cancel(c)
  <2>1. /\ UNCHANGED <<attempt, budgetVars, timeout, phase, trickled, errorVars>>
        /\ UNCHANGED <<closing, now>>
        /\ due' = [due EXCEPT ![c] = 0]
        /\ pc' = [pc EXCEPT ![c] = "ended"]
        /\ \E o \in Outcomes : outcome' = [outcome EXCEPT ![c] = o]
    BY <1>2 DEF Reject, Finish, Cancel, End, netVars, Outcomes
  <2>2. /\ pc' \in [Calls -> Timed \cup {"idle", "ended"}]
        /\ due' \in [Calls -> Nat]
        /\ outcome' \in [Calls -> Outcomes \cup {None}]
    BY <2>1 DEF IInv, TypeOK
  <2>3. \A k \in Calls :
           \/ pc'[k] = pc[k] /\ outcome'[k] = outcome[k] /\ due'[k] = due[k]
           \/ pc'[k] = "ended"
    BY <2>1 DEF IInv, TypeOK
  <2> QED
    BY <2>1, <2>2, <2>3, QuietInvariant DEF IInv, TypeOK, closing
<1>3. CASE Grant(c)
  <2>1. /\ UNCHANGED <<attempt, budgetVars, timeout, trickled, errorVars, outcome>>
        /\ UNCHANGED <<closing, now>>
        /\ pc[c] = "pooled" /\ pc' = [pc EXCEPT ![c] = "net"]
        /\ phase' = [phase EXCEPT ![c] = 1]
        /\ due' = [due EXCEPT ![c] = now + timeout[c]]
    BY <1>3 DEF Grant
  <2>2. /\ phase' \in [Calls -> 0 .. NetPhases + 1]
        /\ due' \in [Calls -> Nat]
        /\ pc' \in [Calls -> Timed \cup {"idle", "ended"}]
    BY <1>1, <2>1, ClientAssumption DEF IInv, TypeOK, Timed
  <2>3. \A k \in Calls :
           \/ pc'[k] = pc[k] /\ due'[k] = due[k]
           \/ pc'[k] \in InRequest /\ pc[k] # "ended"
    BY <2>1 DEF IInv, TypeOK, InRequest
  <2> QED
    BY <2>1, <2>2, <2>3, QuietInvariant DEF IInv, TypeOK, closing
<1>4. CASE Proceed(c)
  <2>1. /\ UNCHANGED <<pc, attempt, budgetVars, timeout, errorVars, outcome>>
        /\ UNCHANGED <<closing, now>>
        /\ pc[c] = "net"
        /\ phase' = [phase EXCEPT ![c] = Least(@ + 1, NetPhases + 1)]
        /\ trickled' = [trickled EXCEPT ![c] = @ \/ phase[c] >= NetPhases]
        /\ due' = [due EXCEPT ![c] = now + timeout[c]]
    BY <1>4 DEF Proceed
  <2>2. due' \in [Calls -> Nat] /\ trickled' \in [Calls -> BOOLEAN]
    BY <1>1, <2>1 DEF IInv, TypeOK
  <2>3. phase' \in [Calls -> 0 .. NetPhases + 1]
    <3>1. phase \in [Calls -> 0 .. NetPhases + 1] /\ NetPhases \in Nat
      BY ClientAssumption DEF IInv, TypeOK
    <3>2. Least(phase[c] + 1, NetPhases + 1) \in 0 .. NetPhases + 1
      BY <3>1 DEF Least
    <3> QED
      BY <2>1, <3>1, <3>2
  <2>4. \A k \in Calls : pc[k] = "sleeping" => due'[k] = due[k]
    BY <2>1 DEF IInv, TypeOK
  <2> QED
    BY <2>1, <2>2, <2>3, <2>4, QuietInvariant DEF IInv, TypeOK, closing
<1> QED
  BY <1>2, <1>3, <1>4

LEMMA NextInvariant == IInv /\ [Next]_vars => IInv'
<1> SUFFICES ASSUME IInv, [Next]_vars PROVE IInv'
  OBVIOUS
<1>1. ASSUME NEW c \in Calls, Step(c) PROVE IInv'
  BY <1>1, BeginInvariant, WakeInvariant, FailureInvariant, RequestInvariant
     DEF Step, Progress, Advance, Timer
<1>2. CASE aclose
  BY <1>2, QuietInvariant DEF aclose, callVars, budgetVars, netVars, errorVars,
                              IInv, TypeOK
<1>3. CASE Tick
  BY <1>3, QuietInvariant DEF Tick, callVars, budgetVars, netVars, errorVars,
                              closing, IInv, TypeOK
<1>4. CASE Terminated \/ UNCHANGED vars
  BY <1>4, QuietInvariant DEF Terminated, vars, callVars, budgetVars, netVars,
                              errorVars, closing, IInv, TypeOK
<1> QED
  BY <1>1, <1>2, <1>3, <1>4 DEF Next

(* The inductive invariant holds in every reachable state.                 *)
THEOREM Invariance == Spec => []IInv
  BY InitInvariant, NextInvariant, PTL DEF Spec

(* Every variable stays in its range for any number of concurrent calls;   *)
(* in particular no call makes more than max_retries + 1 attempts.         *)
THEOREM TypeCorrect == Spec => []TypeOK
  BY Invariance, PTL DEF IInv

-----------------------------------------------------------------------------
(* What a step that sends a request, or ends a call, has come from.        *)
LEMMA PostsFromLoopHead ==
  ASSUME IInv, [Next]_vars, NEW c \in Calls, Posts(c)
  PROVE  /\ ~ClientClosed
         /\ \/ pc[c] = "idle"
            \/ /\ pc[c] = "sleeping" /\ due[c] <= now
               /\ ~expired(total[c], start[c], now)
<1>1. PICK k \in Calls : Step(k)
  BY DEF Next, Posts, aclose, Tick, Terminated, vars, callVars
<1>2. pc[c] \notin InRequest /\ pc'[c] \in InRequest /\ pc \in [Calls -> Timed \cup {"idle", "ended"}]
  BY DEF Posts, IInv, TypeOK
<1>3. CASE Wake(k)
  BY <1>2, <1>3 DEF Wake, Attempt, BudgetGone, AttemptTimeout, ClientClosed, End, InRequest
<1>4. CASE \E tot \in Deadlines, age \in Ages : Begin(k, tot, age)
  BY <1>2, <1>4 DEF Begin, Attempt, BudgetGone, AttemptTimeout, ClientClosed, End, InRequest
<1>5. CASE \/ \E status \in Statuses, header \in Headers : Refuse(k, status, header)
           \/ \E exc \in Exceptions : Break(k, exc)
           \/ Expire(k)
  <2>1. \E f : Fail(k, f)
    BY <1>5 DEF Refuse, Break, Expire
  <2> QED
    BY <1>2, <2>1 DEF Fail, End, InRequest
<1>6. CASE Reject(k) \/ Grant(k) \/ Proceed(k) \/ Finish(k) \/ Cancel(k)
  BY <1>2, <1>6 DEF Reject, Grant, Proceed, Finish, Cancel, End, InRequest
<1> QED
  BY <1>1, <1>3, <1>4, <1>5, <1>6 DEF Step, Progress, Advance, Timer

(* However the deadline cuts a sleep short, no retry reaches the server    *)
(* before the time its Retry-After asked for, up to max_delay_s.           *)
THEOREM RetryAfterObeyed == Spec => NoEarlyRetry
<1>1. ASSUME IInv, [Next]_vars, NEW c \in Calls, Posts(c),
             failure[c] # None, failure[c].retry_after # None
      PROVE  now >= failedAt[c] + Least(failure[c].retry_after, MaxDelay)
  <2>1. /\ pc[c] = "sleeping" /\ due[c] <= now
        /\ ~expired(total[c], start[c], now)
    BY <1>1, PostsFromLoopHead DEF IInv, Fresh
  <2>2. /\ due[c] \in Nat /\ now \in Nat /\ start[c] \in Int /\ failedAt[c] \in Nat
        /\ total[c] \in Nat \cup {None}
    BY <1>1 DEF IInv, TypeOK
  <2>3. ~expired(total[c], start[c], due[c])
    BY <2>1, <2>2 DEF expired, HasDeadline
  <2>4. failedAt[c] + Least(failure[c].retry_after, MaxDelay) <= due[c]
    BY <1>1, <2>1, <2>3 DEF IInv, SleepsLongEnough
  <2>5. Least(failure[c].retry_after, MaxDelay) \in Nat
    <3>1. failure[c].retry_after \in Nat
      BY <1>1 DEF IInv, TypeOK, Failures
    <3> QED
      BY <3>1, PolicyAssumption DEF Least
  <2> QED
    BY <2>1, <2>2, <2>4, <2>5
<1>2. IInv /\ [Next]_vars =>
        [\A c \in Calls :
           (Posts(c) /\ failure[c] # None /\ failure[c].retry_after # None)
             => now >= failedAt[c] + Least(failure[c].retry_after, MaxDelay)]_vars
  BY <1>1
<1> QED
  BY <1>2, Invariance, PTL DEF Spec, NoEarlyRetry

(* What the end of call c in this step says is justified.                  *)
Justified(c) ==
  /\ (outcome'[c] = "last_error" /\ Retryable(failure'[c]))
       => attempt'[c] = MaxRetries
  /\ outcome'[c] = "RetryBudgetExceeded"
       => HasDeadline(total'[c]) /\ now >= start'[c] + total'[c]

LEMMA AttemptJustified ==
  ASSUME IInv, NEW c \in Calls, NEW tot \in Nat \cup {None}, NEW st \in Int,
         pc[c] \in {"idle", "sleeping"},
         Attempt(c, tot, st), total'[c] = tot, start'[c] = st
  PROVE  Justified(c)
<1>1. outcome[c] = None /\ now \in Nat
  BY DEF IInv, Fresh, TypeOK
<1>2. outcome \in [Calls -> Outcomes \cup {None}] /\ failure \in [Calls -> Failures \cup {None}]
  BY DEF IInv, TypeOK
<1>3. CASE expired(tot, st, now) /\ End(c, "RetryBudgetExceeded")
  BY <1>1, <1>2, <1>3 DEF Justified, End, expired, HasDeadline
<1>4. CASE failure'[c] = Raised("RuntimeError") /\ End(c, "last_error")
  BY <1>2, <1>4 DEF Justified, End, Retryable, Raised, as_retryable_os_error, OSErrors
<1>5. CASE UNCHANGED outcome
  BY <1>1, <1>5, ClientAssumption DEF Justified, Outcomes
<1> QED
  BY <1>2, <1>3, <1>4, <1>5 DEF Attempt, BudgetGone

LEMMA FailJustified ==
  ASSUME IInv, NEW c \in Calls, NEW f, pc[c] \in InRequest, Fail(c, f)
  PROVE  Justified(c)
<1>1. /\ outcome[c] = None /\ now \in Nat /\ attempt[c] \in 0 .. MaxRetries
      /\ outcome \in [Calls -> Outcomes \cup {None}]
      /\ failure \in [Calls -> Failures \cup {None}]
  BY DEF IInv, Fresh, TypeOK, InRequest
<1>2. failure'[c] = f /\ UNCHANGED <<attempt, total, start, now>>
  BY <1>1 DEF Fail, budgetVars
<1>3. CASE ~should_retry(attempt[c], f) /\ End(c, "last_error")
  <2>1. outcome'[c] = "last_error"
    BY <1>1, <1>3 DEF End
  <2> QED
    BY <1>1, <1>2, <1>3, <2>1, PolicyAssumption DEF Justified, should_retry
<1>4. CASE expired(total[c], start[c], now) /\ End(c, "RetryBudgetExceeded")
  <2>1. outcome'[c] = "RetryBudgetExceeded"
    BY <1>1, <1>4 DEF End
  <2>2. total[c] \in Nat \cup {None} /\ start[c] \in Int
    BY DEF IInv, TypeOK
  <2> QED
    BY <1>1, <1>2, <1>4, <2>1, <2>2 DEF Justified, expired, HasDeadline
<1>5. CASE UNCHANGED outcome
  BY <1>1, <1>5, ClientAssumption DEF Justified, Outcomes
<1> QED
  BY <1>3, <1>4, <1>5 DEF Fail

(* No step ends a call that has not ended without justification.           *)
LEMMA StepJustified ==
  ASSUME IInv, [Next]_vars, NEW c \in Calls, pc[c] # "ended"
  PROVE  Justified(c)
<1>1. /\ outcome[c] = None /\ outcome \in [Calls -> Outcomes \cup {None}]
      /\ total \in [Calls -> Nat \cup {None}] /\ start \in [Calls -> Int]
      /\ now \in Nat /\ pc \in [Calls -> Timed \cup {"idle", "ended"}]
  BY DEF IInv, Fresh, TypeOK
<1>2. ASSUME outcome'[c] \notin {"last_error", "RetryBudgetExceeded"}
      PROVE  Justified(c)
  BY <1>2 DEF Justified
<1>3. ASSUME UNCHANGED outcome PROVE Justified(c)
  BY <1>1, <1>2, <1>3, ClientAssumption DEF Outcomes
<1>4. ASSUME NEW k \in Calls, Step(k) PROVE Justified(c)
  <2>1. ASSUME k # c PROVE outcome'[c] = outcome[c]
    BY <1>1, <1>4, <2>1 DEF Step, Progress, Advance, Begin, Reject, Grant, Proceed, Finish, Refuse,
       Break, Timer, Expire, Wake, Cancel, Attempt, BudgetGone, AttemptTimeout, ClientClosed, Fail, End
  <2>2. CASE k # c
    BY <1>1, <1>2, <2>1, <2>2, ClientAssumption DEF Outcomes
  <2>3. CASE k = c /\ \E tot \in Deadlines, age \in Ages : Begin(c, tot, age)
    <3>1. PICK tot \in Deadlines, age \in Ages : Begin(c, tot, age)
      BY <2>3
    <3>2. /\ tot \in Nat \cup {None} /\ now - age \in Int /\ pc[c] = "idle"
          /\ total'[c] = tot /\ start'[c] = now - age
          /\ Attempt(c, tot, now - age)
      BY <1>1, <3>1, ClientAssumption DEF Begin
    <3> QED
      BY <3>2, AttemptJustified
  <2>4. CASE k = c /\ Wake(c)
    <3>1. /\ pc[c] = "sleeping" /\ Attempt(c, total[c], start[c])
          /\ UNCHANGED <<total, start>>
      BY <2>4 DEF Wake, budgetVars
    <3> QED
      BY <1>1, <3>1, AttemptJustified
  <2>5. CASE k = c /\ \E f : pc[c] \in InRequest /\ Fail(c, f)
    BY <2>5, FailJustified
  <2>6. CASE k = c /\ (Reject(c) \/ Finish(c) \/ Cancel(c))
    BY <1>1, <1>2, <2>6 DEF Reject, Finish, Cancel, End
  <2>7. CASE k = c /\ (Grant(c) \/ Proceed(c))
    BY <1>3, <2>7 DEF Grant, Proceed
  <2> QED
    BY <1>4, <2>2, <2>3, <2>4, <2>5, <2>6, <2>7
       DEF Step, Progress, Advance, Timer, Refuse, Break, Expire, InRequest
<1>5. CASE aclose \/ Tick \/ Terminated \/ UNCHANGED vars
  BY <1>3, <1>5 DEF aclose, Tick, Terminated, vars, callVars
<1> QED
  BY <1>4, <1>5 DEF Next

(* A call that fails has used every retry its last error deserved, and a   *)
(* call that gives up for want of time has none left: no schedule of other *)
(* calls, late timers or closings makes chat give up early.                *)
THEOREM GivesUpLate == Spec => NoEarlySurrender
<1>1. IInv /\ [Next]_vars =>
        [\A c \in Calls : pc[c] # "ended" =>
           /\ (outcome'[c] = "last_error" /\ Retryable(failure'[c]))
                => attempt'[c] = MaxRetries
           /\ outcome'[c] = "RetryBudgetExceeded"
                => HasDeadline(total'[c]) /\ now >= start'[c] + total'[c]]_vars
  BY StepJustified DEF Justified
<1> QED
  BY <1>1, Invariance, PTL DEF Spec, NoEarlySurrender
=============================================================================
